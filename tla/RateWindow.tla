----------------------------- MODULE RateWindow -----------------------------
(***************************************************************************)
(* ratelimit.Window: a fixed-window counter per key, in memory.  Allow       *)
(* reads the time first and takes the mutex afterwards, so that the time it *)
(* decides with may be old; what it does under the mutex is one step.       *)
(***************************************************************************)
EXTENDS Naturals

CONSTANTS Window,      \* length, in instants
          NoEntry      \* no request with the key yet

ASSUME WindowAssumption == Window \in Nat /\ NoEntry \notin [count : Nat, reset : Nat]

VARIABLE windows       \* windows[k]: the entry of key k

Entry == [count : Nat \ {0}, reset : Nat]

WindowTypeOK(Key) == windows \in [Key -> Entry \cup {NoEntry}]
WindowInit(Key) == windows = [k \in Key |-> NoEntry]

-----------------------------------------------------------------------------
\* The window of k, if there is one, is over.
Over(k, now) == windows[k] # NoEntry => now > windows[k].reset

\* Mutant: the request that opens a window is not counted.
AllowFromZero(k, limit, now) ==
    \/ limit = 0 /\ UNCHANGED windows
    \/ /\ limit > 0 /\ Over(k, now)
       /\ windows' = [windows EXCEPT ![k] = [count |-> 0, reset |-> now + Window]]
    \/ /\ limit > 0 /\ ~Over(k, now) /\ windows[k].count < limit
       /\ windows' = [windows EXCEPT ![k].count = @ + 1]

\* A limit of 0 turns the limiter off.
Allow(k, limit, now) ==
    \/ limit = 0 /\ UNCHANGED windows
    \/ /\ limit > 0 /\ Over(k, now)
       /\ windows' = [windows EXCEPT ![k] = [count |-> 1, reset |-> now + Window]]
    \/ /\ limit > 0 /\ ~Over(k, now) /\ windows[k].count < limit
       /\ windows' = [windows EXCEPT ![k].count = @ + 1]

Refused(k, limit, now) == limit > 0 /\ ~Over(k, now) /\ windows[k].count >= limit

\* The counters are gone when the process restarts.
Forget == windows' = [k \in DOMAIN windows |-> NoEntry]
=============================================================================
