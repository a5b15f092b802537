-------------------------- MODULE ReadingPosition --------------------------
(***************************************************************************)
(* One user's position in one book, kept on several devices and in           *)
(* reading_positions.  Devices (external) save their position with their own *)
(* time, in one of the formats FlexibleTime accepts, over a network that     *)
(* loses, repeats and reorders, and ask on opening the book which position  *)
(* to use.  Whose is newer is decided by these times alone.                 *)
(***************************************************************************)
EXTENDS Integers, FiniteSets

CONSTANTS Device,
          Instant,     \* times devices' clocks show, of the Unix era
          Grain,       \* units of Instant per microsecond, PostgreSQL's resolution
          Nano,        \* units per nanosecond, Go's resolution
          UnixStep,    \* units between the float64 numbers for the Unix era,
          AppleStep,   \* and those for the era since 2001
          ProductStep, \* units between the float64 numbers of nanoseconds since 2001
          MaxMoves,    \* bound: moves of each device
          MaxSent,     \* bound: different save requests
          Epoch,       \* appleEpochUnixSeconds: from 1970 to 2001
          Kilo,        \* milliseconds per second
          MsFrom,      \* the number from which on FlexibleTime sees milliseconds
          Format,      \* formats in use
          NoRow

\* A number of seconds may have a fraction, so that it can count in units of
\* Instant.  Both eras' seconds of the instants considered are below MsFrom, and
\* their milliseconds are not; float64 tells their microseconds apart.
ASSUME ReadingAssumption ==
    /\ Instant \subseteq Nat /\ {MaxMoves, MaxSent, Epoch, MsFrom} \subseteq Nat
    /\ {Grain, Nano, UnixStep, AppleStep, ProductStep, Kilo} \subseteq Nat \ {0}
    /\ Epoch % Grain = 0 /\ Epoch % Nano = 0
    /\ Epoch % UnixStep = 0 /\ Epoch % AppleStep = 0 /\ Epoch % ProductStep = 0
    /\ UnixStep + 2 * Nano <= 2 * Grain /\ AppleStep + 2 * Nano <= 2 * Grain
    /\ AppleStep + ProductStep < 2 * Grain
    /\ \A i \in Instant : /\ i + 2 * Grain <= MsFrom
                          /\ (i - Epoch - 3 * Grain) * Kilo >= MsFrom
    /\ Format \subseteq {"string", "unixSeconds", "unixMillis", "appleSeconds", "appleMillis"}
    /\ NoRow \notin [position : Device \X (1..MaxMoves), at : Nat]

VARIABLES row,         \* the reading_positions row
          local,       \* local[d]: the position on device d and its time
          moves,       \* moves[d]: how often d's reader has moved
          sent,        \* save requests the network may deliver, again and again
          newest,      \* history: the newest time of a delivered request
          opened       \* history: devices that opened the book and since then
                       \* neither moved nor saw the row change

vars == <<row, local, moves, sent, newest, opened>>

-----------------------------------------------------------------------------
Position == Device \X (1..MaxMoves)
Saved == [position : Position, at : Nat]
\* at: the time the device meant; time: the one FlexibleTime reads off it.
Request == [position : Position, at : Nat, time : Nat]

TypeOK ==
    /\ row \in Saved \cup {NoRow}
    /\ local \in [Device -> Saved \cup {NoRow}]
    /\ moves \in [Device -> 0..MaxMoves]
    /\ sent \subseteq Request
    /\ newest \in Nat /\ opened \subseteq Device

Init ==
    /\ row = NoRow
    /\ local = [d \in Device |-> NoRow]
    /\ moves = [d \in Device |-> 0]
    /\ sent = {} /\ newest = 0 /\ opened = {}

-----------------------------------------------------------------------------
\* Rounding to float64: x becomes the nearest multiple of step, of two the even one.
Nearest(x, step) ==
    LET q == x \div step
        r == x % step
        down == 2 * r < step \/ (2 * r = step /\ q % 2 = 0)
    IN step * (IF down THEN q ELSE q + 1)

CutOff(x, unit) == x - (x % unit)

\* The number a device sends for the time i (external): the float64 nearest to
\* it.  A string names the time itself.
Number(format, i) ==
    CASE format = "unixSeconds"  -> Nearest(i, UnixStep)
      [] format = "unixMillis"   -> Nearest(i, UnixStep) * Kilo
      [] format = "appleSeconds" -> Nearest(i - Epoch, AppleStep)
      [] format = "appleMillis"  -> Nearest(i - Epoch, AppleStep) * Kilo

\* A float64 of seconds since 2001 is multiplied out to nanoseconds, and rounded;
\* of seconds since 1970 the fraction alone is, exactly enough, and cut off.
SinceApple(seconds) == Epoch + Nearest(seconds, ProductStep)
SinceUnix(seconds) == CutOff(seconds, Nano)

\* Mutant: numbers of either size are taken for the Unix era.
FromNumberUnixOnly(n) == SinceUnix(IF n >= MsFrom THEN n \div Kilo ELSE n)

\* Mutant: the eras are shifted against each other the wrong way.
FromNumberShiftedBack(n) ==
    IF n < MsFrom THEN IF n < Epoch THEN n - Epoch ELSE n
    ELSE IF n < Epoch * Kilo THEN n \div Kilo - Epoch ELSE n \div Kilo

\* UnmarshalJSON of a number: by its size alone, milliseconds or seconds, and
\* then of the era since 2001 or since 1970.
FromNumber(n) ==
    CASE n >= MsFrom /\ n < Epoch * Kilo -> SinceApple(n \div Kilo)
      [] n >= MsFrom /\ n >= Epoch * Kilo -> SinceUnix(n \div Kilo)
      [] n < MsFrom /\ n < Epoch -> SinceApple(n)
      [] OTHER -> SinceUnix(n)

FlexibleTime(format, i) == IF format = "string" THEN i ELSE FromNumber(Number(format, i))

\* The reader of device d moves (external); clocks of devices need not agree,
\* nor go forward.
Move(d, i) ==
    /\ moves[d] < MaxMoves
    /\ moves' = [moves EXCEPT ![d] = @ + 1]
    /\ local' = [local EXCEPT ![d] = [position |-> <<d, moves[d] + 1>>, at |-> i]]
    /\ opened' = opened \ {d}
    /\ UNCHANGED <<row, sent, newest>>

\* Device d sends its position (external), also one it was given.
Send(d, format) ==
    /\ local[d] # NoRow /\ Cardinality(sent) < MaxSent
    /\ sent' = sent \cup {[position |-> local[d].position, at |-> local[d].at,
                           time |-> FlexibleTime(format, local[d].at)]}
    /\ UNCHANGED <<row, local, moves, newest, opened>>

Later(a, b) == IF a >= b THEN a ELSE b

\* A TIMESTAMPTZ keeps whole microseconds; the rest is cut off on the way.
Stored(t) == CutOff(t, Grain)

\* Mutant: the last to arrive wins.
SavePositionAlways(m) ==
    /\ row' = [position |-> m.position, at |-> Stored(m.time)]
    /\ newest' = Later(newest, m.time)
    /\ opened' = IF row' = row THEN opened ELSE {}
    /\ UNCHANGED <<local, moves, sent>>

\* handleReadingPositionSave: the upsert is one statement, and writes what is
\* at least as new as the row.
SavePosition(m) ==
    /\ row' = IF row = NoRow \/ Stored(m.time) >= row.at
              THEN [position |-> m.position, at |-> Stored(m.time)] ELSE row
    /\ newest' = Later(newest, m.time)
    /\ opened' = IF row' = row THEN opened ELSE {}
    /\ UNCHANGED <<local, moves, sent>>

\* Mutant: the device that wrote the row is not told to use it.
UseLocalOwn(d, format) ==
    row = NoRow \/ (local[d] # NoRow /\ (local[d].at >= row.at \/ row.position[1] = d))

\* The device's time comes in the request, in some format, as for a save.
UseLocal(d, format) ==
    row = NoRow \/ (local[d] # NoRow /\ FlexibleTime(format, local[d].at) >= row.at)

\* handleReadingPositionResolve, and the device doing what it is told.
ResolvePosition(d, format) ==
    /\ local' = IF UseLocal(d, format) THEN local ELSE [local EXCEPT ![d] = row]
    /\ opened' = opened \cup {d}
    /\ UNCHANGED <<row, moves, sent, newest>>

Next ==
    \/ \E d \in Device : \/ \E i \in Instant : Move(d, i)
                         \/ \E format \in Format : Send(d, format) \/ ResolvePosition(d, format)
    \/ \E m \in sent : SavePosition(m)

Spec == Init /\ [][Next]_vars

-----------------------------------------------------------------------------
(* Properties *)

\* Whatever the network loses, repeats or reorders, and whoever sends: the row
\* carries the newest time that was ever delivered, to the microsecond (so that
\* of saves within one microsecond any may win).
NewestDelivered ==
    IF row = NoRow THEN newest = 0 ELSE row.at = Stored(newest)

\* Less than a microsecond apart.
Near(t, u) == t < u + Grain /\ u < t + Grain

\* Each era's seconds and milliseconds of t stay told apart when rounded.
Proper(t) == t + Grain <= MsFrom /\ (t - Epoch - Grain) * Kilo >= MsFrom

\* A save is dated by the time the device meant, to less than a microsecond, in
\* each format, though it may change the microsecond.  Only from 2032 on (twice
\* Epoch) a number of the 2001 era is taken for one of the 1970 era, and so for a
\* time 31 years earlier.  (Such a time, of early 2001, is not Proper: sent again,
\* its milliseconds can be taken for seconds.)
DatedAsMeant ==
    \A m \in sent : Proper(m.at) =>
        \/ Near(m.time, m.at)
        \/ m.at + Grain > 2 * Epoch /\ Near(m.time, m.at - Epoch)

\* Devices converge, as long as no save was misread (DatedAsMeant): one that opened
\* the book and has not moved since, nor seen the row change, shows a position that
\* is newer than the newest delivered, or less than two microseconds older.  So
\* devices without anything newer show one position, unless positions within these
\* few microseconds compete, when the rounding of dates decides who keeps its own.
OpenedShowNewest ==
    (\A m \in sent : Near(m.time, m.at)) =>
        \A d \in opened : row # NoRow =>
            local[d] # NoRow /\ newest < local[d].at + 2 * Grain
=============================================================================
