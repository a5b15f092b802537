---------------------------- MODULE Devices_proofs ----------------------------
(***************************************************************************)
(* Proofs about what a user's devices keep at the server (ReadingPosition    *)
(* and Profile), for any devices and any number of moves and writes.         *)
(***************************************************************************)
EXTENDS MCReadingPosition, SequenceTheorems, TLAPS

-----------------------------------------------------------------------------
(* Dates *)

LEMMA Constants ==
    /\ {Epoch, MsFrom, MaxMoves} \subseteq Nat
    /\ {Grain, Nano, UnixStep, AppleStep, ProductStep, Kilo} \subseteq Nat \ {0}
    /\ Epoch % Grain = 0 /\ Epoch % Nano = 0
    /\ Epoch % UnixStep = 0 /\ Epoch % AppleStep = 0 /\ Epoch % ProductStep = 0
    /\ UnixStep + 2 * Nano <= 2 * Grain /\ AppleStep + 2 * Nano <= 2 * Grain
    /\ AppleStep + ProductStep < 2 * Grain
BY ReadingAssumption

LEMMA Quotient ==
    ASSUME NEW x \in Int, NEW s \in Nat \ {0}
    PROVE  x \div s \in Int /\ x % s \in 0..(s - 1) /\ x = s * (x \div s) + (x % s)
<1>1. x \div s \in Int
  OBVIOUS
<1>2. x % s \in 0..(s - 1)
  OBVIOUS
<1>3. x = s * (x \div s) + (x % s)
  OBVIOUS
<1> QED
  BY <1>1, <1>2, <1>3

\* A multiple of s that x reaches, its quotient reaches.
LEMMA QuotientAbove ==
    ASSUME NEW q \in Int, NEW k \in Int, NEW s \in Nat \ {0}, NEW r \in 0..(s - 1),
           s * q + r >= s * k
    PROVE  q >= k
<1> SUFFICES ASSUME q <= k - 1 PROVE FALSE
  OBVIOUS
<1>1. s * q <= s * (k - 1)
  OBVIOUS
<1>2. s * (k - 1) = s * k - s
  OBVIOUS
<1> QED
  BY <1>1, <1>2

\* Cutting off takes less than a unit, keeps the order, and stops at multiples.
LEMMA CutOffIs ==
    ASSUME NEW t \in Int, NEW u \in Nat \ {0}
    PROVE  CutOff(t, u) \in Int /\ CutOff(t, u) <= t /\ t < CutOff(t, u) + u
BY Quotient DEF CutOff

LEMMA CutOffAbove ==
    ASSUME NEW t \in Int, NEW u \in Nat \ {0}, NEW m \in Int, m % u = 0, m <= t
    PROVE  m <= CutOff(t, u)
<1> DEFINE k == m \div u
           q == t \div u
           r == t % u
<1>1. k \in Int /\ m = u * k
  BY Quotient
<1>2. q \in Int /\ r \in 0..(u - 1) /\ t = u * q + r
  BY Quotient
<1>3. CutOff(t, u) = u * q
  <2>1. u * q \in Int
    BY <1>2
  <2> HIDE DEF q
  <2> QED
    BY <1>2, <2>1 DEF CutOff
<1> HIDE DEF k, q, r
<1>4. q >= k
  BY <1>1, <1>2, QuotientAbove
<1>5. u * q >= u * k
  BY <1>1, <1>2, <1>4
<1> QED
  BY <1>1, <1>3, <1>5

\* Rounding changes a number by at most half a step, and stops at multiples.
LEMMA NearestIs ==
    ASSUME NEW x \in Int, NEW s \in Nat \ {0}
    PROVE  /\ Nearest(x, s) \in Int
           /\ 2 * Nearest(x, s) <= 2 * x + s /\ 2 * x <= 2 * Nearest(x, s) + s
<1> DEFINE q == x \div s
           r == x % s
           down == 2 * r < s \/ (2 * r = s /\ q % 2 = 0)
<1>1. q \in Int /\ r \in 0..(s - 1) /\ x = s * q + r
  BY Quotient
<1>2. Nearest(x, s) = s * (IF down THEN q ELSE q + 1)
  BY DEF Nearest
<1>3. (down => 2 * r <= s) /\ (~down => 2 * r >= s)
  BY <1>1
<1>4. s * q \in Int /\ s * (q + 1) = s * q + s
  BY <1>1
<1> HIDE DEF q, r, down
<1>5. CASE down
  BY <1>1, <1>2, <1>3, <1>4, <1>5
<1>6. CASE ~down
  BY <1>1, <1>2, <1>3, <1>4, <1>6
<1> QED
  BY <1>5, <1>6

LEMMA NearestAbove ==
    ASSUME NEW x \in Int, NEW s \in Nat \ {0}, NEW m \in Int, m % s = 0, m <= x
    PROVE  m <= Nearest(x, s)
<1> DEFINE k == m \div s
           q == x \div s
           r == x % s
           down == 2 * r < s \/ (2 * r = s /\ q % 2 = 0)
<1>1. k \in Int /\ m = s * k
  BY Quotient
<1>2. q \in Int /\ r \in 0..(s - 1) /\ x = s * q + r
  BY Quotient
<1>3. Nearest(x, s) = s * (IF down THEN q ELSE q + 1)
  BY DEF Nearest
<1> HIDE DEF k, q, r, down
<1>4. q >= k
  BY <1>1, <1>2, QuotientAbove
<1>5. s * q >= s * k /\ s * (q + 1) >= s * k
  BY <1>1, <1>2, <1>4
<1> QED
  BY <1>1, <1>3, <1>5

LEMMA StoredTime ==
    ASSUME NEW t \in Int
    PROVE  /\ Stored(t) \in Int /\ Stored(t) <= t /\ t < Stored(t) + Grain
           /\ t >= Epoch => Stored(t) >= Epoch
<1>1. Grain \in Nat \ {0} /\ Epoch \in Int /\ Epoch % Grain = 0
  BY Constants
<1> QED
  BY <1>1, CutOffIs, CutOffAbove DEF Stored

LEMMA StoredIsMultiple ==
    ASSUME NEW t \in Int
    PROVE  Stored(t) % Grain = 0
<1>1. Grain \in Nat \ {0}
  BY Constants
<1>2. Stored(t) = Grain * (t \div Grain) /\ t \div Grain \in Int
  BY <1>1, Quotient DEF Stored, CutOff
<1>3. ASSUME NEW q \in Int PROVE (Grain * q) % Grain = 0
  BY <1>1
<1> QED
  BY <1>2, <1>3

\* Cutting a time off to whole microseconds keeps the order of times.
LEMMA StoredKeepsOrder ==
    ASSUME NEW t \in Int, NEW u \in Int, t <= u
    PROVE  Stored(t) <= Stored(u)
<1>1. Grain \in Nat \ {0}
  BY Constants
<1> QED
  BY <1>1, StoredTime, StoredIsMultiple, CutOffAbove DEF Stored

LEMMA Millis ==
    ASSUME NEW i \in Int, NEW k \in Nat \ {0}
    PROVE  i * k \in Int /\ (i * k) \div k = i
OBVIOUS

LEMMA MillisKeepOrder ==
    ASSUME NEW i \in Int, NEW j \in Int, NEW k \in Nat \ {0}
    PROVE  i * k >= j * k <=> i >= j
OBVIOUS

\* The two ways to make a time of a number, and how far off they are.
LEMMA ApplePrecision ==
    ASSUME NEW t \in Int
    PROVE  LET n == Nearest(t - Epoch, AppleStep) IN
           /\ n \in Int /\ Near(Epoch + n, t)
           /\ SinceApple(n) \in Int /\ Near(SinceApple(n), t)
           /\ SinceUnix(n) \in Int /\ Near(SinceUnix(n), t - Epoch)
           /\ t >= Epoch => n >= 0
<1> DEFINE x == t - Epoch
           n == Nearest(x, AppleStep)
           y == Nearest(n, ProductStep)
           z == CutOff(n, Nano)
<1>1. /\ Epoch \in Nat /\ Grain \in Nat \ {0} /\ Nano \in Nat \ {0}
      /\ AppleStep \in Nat \ {0} /\ ProductStep \in Nat \ {0}
      /\ AppleStep + ProductStep < 2 * Grain /\ AppleStep + 2 * Nano <= 2 * Grain
  BY Constants
<1>2. x \in Int /\ t = Epoch + x
  BY <1>1
<1>3. n \in Int /\ 2 * n <= 2 * x + AppleStep /\ 2 * x <= 2 * n + AppleStep
  BY <1>1, <1>2, NearestIs
<1>4. y \in Int /\ 2 * y <= 2 * n + ProductStep /\ 2 * n <= 2 * y + ProductStep
  BY <1>1, <1>3, NearestIs
<1>5. z \in Int /\ z <= n /\ n < z + Nano
  BY <1>1, <1>3, CutOffIs
<1>6. x >= 0 => n >= 0
  <2>1. 0 % AppleStep = 0
    BY <1>1
  <2> QED
    BY <1>1, <1>2, <2>1, NearestAbove
<1> HIDE DEF x, n, y, z
<1>7. n < x + Grain /\ x < n + Grain
  BY <1>1, <1>2, <1>3
<1>8. y < x + Grain /\ x < y + Grain
  BY <1>1, <1>2, <1>3, <1>4
<1>9. z < x + Grain /\ x < z + Grain
  BY <1>1, <1>2, <1>3, <1>5
<1>10. /\ n \in Int /\ Near(Epoch + n, t) /\ Epoch + y \in Int /\ Near(Epoch + y, t)
       /\ z \in Int /\ Near(z, x) /\ (t >= Epoch => n >= 0)
  BY <1>1, <1>2, <1>3, <1>4, <1>5, <1>6, <1>7, <1>8, <1>9 DEF Near
<1> QED
  BY <1>10 DEF SinceApple, SinceUnix, x, n, y, z

LEMMA UnixPrecision ==
    ASSUME NEW t \in Int
    PROVE  LET n == Nearest(t, UnixStep) IN
           /\ n \in Int /\ Near(n, t)
           /\ SinceUnix(n) \in Int /\ Near(SinceUnix(n), t)
           /\ t >= Epoch => n >= Epoch
<1> DEFINE n == Nearest(t, UnixStep)
           z == CutOff(n, Nano)
<1>1. /\ Epoch \in Nat /\ Grain \in Nat \ {0} /\ Nano \in Nat \ {0}
      /\ UnixStep \in Nat \ {0} /\ UnixStep + 2 * Nano <= 2 * Grain /\ Epoch % UnixStep = 0
  BY Constants
<1>2. n \in Int /\ 2 * n <= 2 * t + UnixStep /\ 2 * t <= 2 * n + UnixStep
  BY <1>1, NearestIs
<1>3. z \in Int /\ z <= n /\ n < z + Nano
  BY <1>1, <1>2, CutOffIs
<1>4. t >= Epoch => n >= Epoch
  BY <1>1, NearestAbove
<1> HIDE DEF n, z
<1>5. Near(n, t) /\ Near(z, t)
  BY <1>1, <1>2, <1>3 DEF Near
<1> QED
  BY <1>2, <1>3, <1>4, <1>5 DEF SinceUnix, n, z

\* What FlexibleTime makes of the number a device sends for a time.
LEMMA DateRead ==
    ASSUME NEW t \in Nat, Proper(t), NEW format \in Format
    PROVE  \/ Near(FlexibleTime(format, t), t)
           \/ t + Grain > 2 * Epoch /\ Near(FlexibleTime(format, t), t - Epoch)
<1>1. /\ Epoch \in Nat /\ Kilo \in Nat \ {0} /\ MsFrom \in Nat /\ Grain \in Nat \ {0}
      /\ t + Grain <= MsFrom /\ (t - Epoch - Grain) * Kilo >= MsFrom
  BY Constants DEF Proper
<1>2. t - Epoch - Grain > 0
  <2>1. (t - Epoch - Grain) * Kilo > 0 /\ (t - Epoch - Grain) * Kilo \in Int
    BY <1>1
  <2>2. 0 >= t - Epoch - Grain => 0 * Kilo >= (t - Epoch - Grain) * Kilo
    BY <1>1, MillisKeepOrder
  <2> QED
    BY <1>1, <2>1, <2>2
<1> DEFINE u == Nearest(t, UnixStep)
           a == Nearest(t - Epoch, AppleStep)
<1>3. u \in Int /\ Near(u, t) /\ SinceUnix(u) \in Int /\ Near(SinceUnix(u), t)
  BY UnixPrecision
<1>4. /\ a \in Int /\ Near(Epoch + a, t) /\ SinceApple(a) \in Int /\ Near(SinceApple(a), t)
      /\ SinceUnix(a) \in Int /\ Near(SinceUnix(a), t - Epoch)
  BY ApplePrecision
<1>5. /\ FlexibleTime("string", t) = t
      /\ FlexibleTime("unixSeconds", t) = FromNumber(u)
      /\ FlexibleTime("unixMillis", t) = FromNumber(u * Kilo)
      /\ FlexibleTime("appleSeconds", t) = FromNumber(a)
      /\ FlexibleTime("appleMillis", t) = FromNumber(a * Kilo)
  BY DEF FlexibleTime, Number
<1> HIDE DEF u, a
\* The numbers of seconds are below MsFrom, those of milliseconds are not.
<1>6. u < MsFrom /\ u > Epoch /\ a < MsFrom /\ u >= t - Epoch - Grain /\ a >= t - Epoch - Grain
  BY <1>1, <1>2, <1>3, <1>4 DEF Near
<1>7. u * Kilo >= MsFrom /\ a * Kilo >= MsFrom /\ u * Kilo \in Int /\ a * Kilo \in Int
  <2>1. /\ u * Kilo >= (t - Epoch - Grain) * Kilo /\ a * Kilo >= (t - Epoch - Grain) * Kilo
        /\ u * Kilo \in Int /\ a * Kilo \in Int /\ (t - Epoch - Grain) * Kilo \in Int
    BY <1>1, <1>3, <1>4, <1>6, MillisKeepOrder
  <2> QED
    BY <1>1, <2>1
<1>8. /\ (u * Kilo) \div Kilo = u /\ (a * Kilo) \div Kilo = a
      /\ u * Kilo < Epoch * Kilo <=> u < Epoch
      /\ a * Kilo < Epoch * Kilo <=> a < Epoch
  <2>1. u * Kilo >= Epoch * Kilo <=> u >= Epoch
    BY <1>1, <1>3, MillisKeepOrder
  <2>2. a * Kilo >= Epoch * Kilo <=> a >= Epoch
    BY <1>1, <1>4, MillisKeepOrder
  <2>3. Epoch * Kilo \in Int
    BY <1>1
  <2> QED
    BY <1>1, <1>3, <1>4, <1>7, <2>1, <2>2, <2>3, Millis
<1>9. Near(t, t)
  BY <1>1 DEF Near
<1>10. FromNumber(u) = SinceUnix(u)
  BY <1>1, <1>3, <1>6 DEF FromNumber
<1>11. FromNumber(u * Kilo) = SinceUnix(u)
  BY <1>1, <1>3, <1>6, <1>7, <1>8 DEF FromNumber
<1>12. FromNumber(a) = IF a < Epoch THEN SinceApple(a) ELSE SinceUnix(a)
  BY <1>1, <1>4, <1>6 DEF FromNumber
<1>13. FromNumber(a * Kilo) = IF a < Epoch THEN SinceApple(a) ELSE SinceUnix(a)
  <2>1. Epoch * Kilo \in Int
    BY <1>1
  <2> QED
    BY <1>1, <1>4, <1>7, <1>8, <2>1 DEF FromNumber
<1>14. a >= Epoch => t + Grain > 2 * Epoch
  BY <1>1, <1>4 DEF Near
<1>15. format \in {"string", "unixSeconds", "unixMillis", "appleSeconds", "appleMillis"}
  BY ReadingAssumption
<1>16. /\ Near(FlexibleTime("string", t), t)
       /\ Near(FlexibleTime("unixSeconds", t), t)
       /\ Near(FlexibleTime("unixMillis", t), t)
  BY <1>3, <1>5, <1>9, <1>10, <1>11
<1> DEFINE read == IF a < Epoch THEN SinceApple(a) ELSE SinceUnix(a)
<1>17. Near(read, t) \/ (t + Grain > 2 * Epoch /\ Near(read, t - Epoch))
  <2>1. CASE a < Epoch
    BY <1>4, <2>1
  <2>2. CASE ~(a < Epoch)
    BY <1>1, <1>4, <1>14, <2>2
  <2> QED
    BY <2>1, <2>2
<1>18. FlexibleTime("appleSeconds", t) = read /\ FlexibleTime("appleMillis", t) = read
  BY <1>5, <1>12, <1>13
<1> HIDE DEF read
<1>19. CASE format \in {"string", "unixSeconds", "unixMillis"}
  BY <1>16, <1>19
<1>20. CASE format \in {"appleSeconds", "appleMillis"}
  BY <1>17, <1>18, <1>20
<1> QED
  BY <1>15, <1>19, <1>20

LEMMA ProperIsLate ==
    ASSUME NEW t \in Nat, Proper(t)
    PROVE  t >= Epoch
<1>1. /\ Epoch \in Nat /\ Kilo \in Nat \ {0} /\ MsFrom \in Nat /\ Grain \in Nat \ {0}
      /\ t + Grain <= MsFrom /\ (t - Epoch - Grain) * Kilo >= MsFrom
  BY Constants DEF Proper
<1>2. (t - Epoch - Grain) * Kilo > 0 /\ (t - Epoch - Grain) * Kilo \in Int
  BY <1>1
<1>3. 0 >= t - Epoch - Grain => 0 * Kilo >= (t - Epoch - Grain) * Kilo
  BY <1>1, MillisKeepOrder
<1> QED
  BY <1>1, <1>2, <1>3

\* Whatever the format, a time since 2001 is read as a time since 2001.
LEMMA DateIsNumber ==
    ASSUME NEW t \in Nat, t >= Epoch, NEW format \in Format
    PROVE  FlexibleTime(format, t) \in Nat /\ FlexibleTime(format, t) >= Epoch
<1>1. /\ Epoch \in Nat /\ Kilo \in Nat \ {0} /\ MsFrom \in Nat /\ Nano \in Nat \ {0}
      /\ ProductStep \in Nat \ {0} /\ Epoch % Nano = 0
  BY Constants
<1>2. ASSUME NEW n \in Int, n >= 0
      PROVE  SinceApple(n) \in Int /\ SinceApple(n) >= Epoch
  <2>1. 0 % ProductStep = 0
    BY <1>1
  <2>2. Nearest(n, ProductStep) \in Int /\ Nearest(n, ProductStep) >= 0
    BY <1>1, <1>2, <2>1, NearestIs, NearestAbove
  <2> QED
    BY <1>1, <2>2 DEF SinceApple
<1>3. ASSUME NEW n \in Int, n >= Epoch
      PROVE  SinceUnix(n) \in Int /\ SinceUnix(n) >= Epoch
  BY <1>1, <1>3, CutOffIs, CutOffAbove DEF SinceUnix
<1>4. ASSUME NEW n \in Int, n >= 0
      PROVE  FromNumber(n) \in Int /\ FromNumber(n) >= Epoch
  <2>1. n \div Kilo \in Int /\ n = Kilo * (n \div Kilo) + (n % Kilo) /\ n % Kilo \in 0..(Kilo - 1)
    BY <1>1, Quotient
  <2>2. n \div Kilo >= 0
    <3>1. Kilo * 0 = 0
      BY <1>1
    <3> QED
      BY <1>1, <1>4, <2>1, <3>1, QuotientAbove
  <2>3. n >= Epoch * Kilo => n \div Kilo >= Epoch
    <3>1. Kilo * Epoch = Epoch * Kilo /\ Kilo * Epoch \in Int
      BY <1>1
    <3> QED
      BY <1>1, <2>1, <3>1, QuotientAbove
  <2>4. Epoch * Kilo \in Int
    BY <1>1
  <2>5. CASE n >= MsFrom /\ n < Epoch * Kilo
    <3>1. FromNumber(n) = SinceApple(n \div Kilo)
      BY <1>1, <2>4, <2>5 DEF FromNumber
    <3> DEFINE q == n \div Kilo
    <3>2. q \in Int /\ q >= 0 /\ FromNumber(n) = SinceApple(q)
      BY <2>1, <2>2, <3>1
    <3> HIDE DEF q
    <3> QED
      BY <1>2, <3>2
  <2>6. CASE n >= MsFrom /\ n >= Epoch * Kilo
    <3>1. FromNumber(n) = SinceUnix(n \div Kilo)
      BY <1>1, <2>4, <2>6 DEF FromNumber
    <3> DEFINE q == n \div Kilo
    <3>2. q \in Int /\ q >= Epoch /\ FromNumber(n) = SinceUnix(q)
      BY <2>1, <2>3, <2>6, <3>1
    <3> HIDE DEF q
    <3> QED
      BY <1>3, <3>2
  <2>7. CASE n < MsFrom /\ n < Epoch
    BY <1>1, <1>2, <1>4, <2>7 DEF FromNumber
  <2>8. CASE n < MsFrom /\ n >= Epoch
    BY <1>1, <1>3, <2>8 DEF FromNumber
  <2> QED
    BY <1>1, <2>4, <2>5, <2>6, <2>7, <2>8
<1> DEFINE u == Nearest(t, UnixStep)
           a == Nearest(t - Epoch, AppleStep)
<1>5. u \in Int /\ u >= 0 /\ a \in Int /\ a >= 0
  <2>1. t \in Int
    OBVIOUS
  <2>2. u \in Int /\ u >= Epoch
    BY <2>1, UnixPrecision
  <2>3. a \in Int /\ a >= 0
    BY <2>1, ApplePrecision
  <2> HIDE DEF u, a
  <2> QED
    BY <1>1, <2>2, <2>3
<1>6. /\ FlexibleTime("string", t) = t
      /\ FlexibleTime("unixSeconds", t) = FromNumber(u)
      /\ FlexibleTime("unixMillis", t) = FromNumber(u * Kilo)
      /\ FlexibleTime("appleSeconds", t) = FromNumber(a)
      /\ FlexibleTime("appleMillis", t) = FromNumber(a * Kilo)
  BY DEF FlexibleTime, Number
<1> HIDE DEF u, a
<1>7. u * Kilo \in Int /\ u * Kilo >= 0 /\ a * Kilo \in Int /\ a * Kilo >= 0
  <2>1. 0 * Kilo = 0
    BY <1>1
  <2> QED
    BY <1>1, <1>5, <2>1, MillisKeepOrder, Millis
<1>8. format \in {"string", "unixSeconds", "unixMillis", "appleSeconds", "appleMillis"}
  BY ReadingAssumption
<1>9. \A n \in Int : n >= Epoch => n \in Nat
  BY <1>1
<1> QED
  BY <1>1, <1>4, <1>5, <1>6, <1>7, <1>8, <1>9

\* A proper time is read as hardly later than it is, or as 31 years earlier.
LEMMA ReadNotLater ==
    ASSUME NEW t \in Nat, Proper(t), NEW format \in Format
    PROVE  FlexibleTime(format, t) < t + Grain
<1>1. Epoch \in Nat /\ Grain \in Nat
  BY Constants
<1>2. CASE Near(FlexibleTime(format, t), t)
  BY <1>2 DEF Near
<1>3. CASE Near(FlexibleTime(format, t), t - Epoch)
  <2>1. FlexibleTime(format, t) < t - Epoch + Grain
    BY <1>3 DEF Near
  <2>2. FlexibleTime(format, t) \in Nat
    BY ProperIsLate, DateIsNumber
  <2> QED
    BY <1>1, <2>1, <2>2
<1> QED
  BY <1>2, <1>3, DateRead

-----------------------------------------------------------------------------
(* Reading positions *)

PositionInv ==
    /\ TypeOK /\ NewestDelivered /\ DatedAsMeant
    /\ row # NoRow => row.at >= Epoch
    /\ \A d \in Device : local[d] # NoRow => local[d].at >= Epoch
    /\ \A m \in sent : m.time >= Epoch

\* Instants are proper, and so are times not much before or after them.
LEMMA InstantIsProper ==
    ASSUME NEW t \in Nat, NEW i \in Instant, NEW j \in Instant,
           i < t + 2 * Grain, t < j + Grain
    PROVE  Proper(t)
<1>1. /\ Epoch \in Nat /\ Kilo \in Nat \ {0} /\ MsFrom \in Nat /\ Grain \in Nat \ {0}
      /\ i \in Nat /\ j \in Nat
      /\ j + 2 * Grain <= MsFrom /\ (i - Epoch - 3 * Grain) * Kilo >= MsFrom
  BY Constants, ReadingAssumption
<1>2. /\ (t - Epoch - Grain) * Kilo >= (i - Epoch - 3 * Grain) * Kilo
      /\ (t - Epoch - Grain) * Kilo \in Int /\ (i - Epoch - 3 * Grain) * Kilo \in Int
  <2>1. t - Epoch - Grain >= i - Epoch - 3 * Grain
    BY <1>1
  <2>2. t - Epoch - Grain \in Int /\ i - Epoch - 3 * Grain \in Int
    BY <1>1
  <2> QED
    BY <1>1, <2>1, <2>2, MillisKeepOrder, Millis
<1> QED
  BY <1>1, <1>2 DEF Proper

LEMMA InstantIsLate ==
    ASSUME NEW i \in Instant
    PROVE  i \in Nat /\ Proper(i) /\ i >= Epoch
<1>1. i \in Nat /\ Grain \in Nat \ {0}
  BY ReadingAssumption
<1>2. i < i + 2 * Grain /\ i < i + Grain
  BY <1>1
<1> QED
  BY <1>1, <1>2, InstantIsProper, ProperIsLate

LEMMA PositionInit == Init => PositionInv
BY Constants DEF Init, PositionInv, TypeOK, NewestDelivered, DatedAsMeant

LEMMA MoveStep ==
    ASSUME PositionInv, NEW d \in Device, NEW i \in Instant, Move(d, i)
    PROVE  PositionInv'
<1> DEFINE new == [position |-> <<d, moves[d] + 1>>, at |-> i]
<1>1. moves[d] \in Nat /\ moves[d] + 1 \in 1..MaxMoves /\ i \in Nat /\ i >= Epoch
  BY InstantIsLate, Constants DEF PositionInv, TypeOK, Move
<1>2. new \in Saved /\ new.at = i
  BY <1>1 DEF Saved, Position
<1>3. local' = [local EXCEPT ![d] = new]
  BY DEF Move
<1> HIDE DEF new
<1>4. \A c \in Device : local'[c] = IF c = d THEN new ELSE local[c]
  BY <1>3 DEF PositionInv, TypeOK
<1>5. TypeOK'
  BY <1>1, <1>2, <1>3 DEF PositionInv, TypeOK, Move
<1>6. \A c \in Device : local'[c] # NoRow => local'[c].at >= Epoch
  BY <1>1, <1>2, <1>4 DEF PositionInv
<1> QED
  BY <1>5, <1>6 DEF PositionInv, NewestDelivered, DatedAsMeant, Move

LEMMA SendStep ==
    ASSUME PositionInv, NEW d \in Device, NEW format \in Format, Send(d, format)
    PROVE  PositionInv'
<1> DEFINE t == local[d].at
           m == [position |-> local[d].position, at |-> t, time |-> FlexibleTime(format, t)]
<1>1. local[d] \in Saved /\ t \in Nat /\ t >= Epoch
  BY DEF PositionInv, TypeOK, Send, Saved
<1>2. FlexibleTime(format, t) \in Nat /\ FlexibleTime(format, t) >= Epoch
  BY <1>1, DateIsNumber
<1>3. Proper(t) => \/ Near(FlexibleTime(format, t), t)
                   \/ t + Grain > 2 * Epoch /\ Near(FlexibleTime(format, t), t - Epoch)
  BY <1>1, DateRead
<1>4. m \in Request /\ m.at = t /\ m.time = FlexibleTime(format, t)
  BY <1>1, <1>2 DEF Request, Saved
<1>5. sent' = sent \cup {m} /\ UNCHANGED <<row, local, moves, newest, opened>>
  BY DEF Send
<1> HIDE DEF m, t
<1>6. DatedAsMeant'
  BY <1>3, <1>4, <1>5 DEF PositionInv, DatedAsMeant
<1> QED
  BY <1>2, <1>4, <1>5, <1>6 DEF PositionInv, TypeOK, NewestDelivered

LEMMA SaveStep ==
    ASSUME PositionInv, NEW m \in sent, SavePosition(m)
    PROVE  PositionInv'
<1> DEFINE new == [position |-> m.position, at |-> Stored(m.time)]
<1>1. m \in Request /\ m.time \in Nat /\ newest \in Nat /\ m.time >= Epoch
  BY DEF PositionInv, TypeOK, Request
<1>2. /\ Epoch \in Nat /\ Stored(m.time) \in Nat /\ Stored(m.time) >= Epoch
  BY <1>1, StoredTime, Constants
<1>3. new \in Saved /\ new.at = Stored(m.time) /\ new # NoRow
  BY <1>1, <1>2, ReadingAssumption DEF Saved, Request, Position
<1>4. newest' \in Nat /\ newest' = (IF newest >= m.time THEN newest ELSE m.time)
  BY <1>1 DEF SavePosition, Later
<1>5. row' = (IF row = NoRow \/ Stored(m.time) >= row.at THEN new ELSE row)
  BY DEF SavePosition
<1> HIDE DEF new
<1>6. TypeOK'
  BY <1>3, <1>4, <1>5 DEF PositionInv, TypeOK, SavePosition
<1>7. NewestDelivered'
  <2>1. CASE row = NoRow
    BY <1>1, <1>3, <1>4, <1>5, <2>1 DEF PositionInv, NewestDelivered
  <2>2. CASE row # NoRow
    <3>1. row.at = Stored(newest) /\ Stored(newest) \in Int
      BY <1>1, <2>2, StoredTime DEF PositionInv, NewestDelivered
    <3>2. newest >= m.time => Stored(newest) >= Stored(m.time)
      BY <1>1, StoredKeepsOrder
    <3>3. m.time >= newest => Stored(m.time) >= Stored(newest)
      BY <1>1, StoredKeepsOrder
    <3>4. row'.at = Stored(newest')
      BY <1>1, <1>2, <1>3, <1>4, <1>5, <2>2, <3>1, <3>2, <3>3
    <3>5. row' # NoRow
      BY <1>3, <1>5, <2>2
    <3> QED
      BY <3>4, <3>5 DEF NewestDelivered, Stored, CutOff
  <2> QED
    BY <2>1, <2>2
<1>8. row' # NoRow => row'.at >= Epoch
  BY <1>2, <1>3, <1>5 DEF PositionInv
<1> QED
  BY <1>6, <1>7, <1>8 DEF PositionInv, DatedAsMeant, SavePosition

LEMMA ResolveStep ==
    ASSUME PositionInv, NEW d \in Device, NEW format \in Format, ResolvePosition(d, format)
    PROVE  PositionInv'
<1>1. TypeOK'
  BY DEF PositionInv, TypeOK, ResolvePosition
<1>2. ASSUME NEW c \in Device, local'[c] # NoRow PROVE local'[c].at >= Epoch
  <2>1. local'[c] = local[c] \/ local'[c] = row
    BY DEF ResolvePosition, PositionInv, TypeOK
  <2> QED
    BY <1>2, <2>1 DEF PositionInv
<1> QED
  BY <1>1, <1>2 DEF PositionInv, NewestDelivered, DatedAsMeant, ResolvePosition

LEMMA PositionNext == PositionInv /\ [Next]_vars => PositionInv'
<1> SUFFICES ASSUME PositionInv, [Next]_vars PROVE PositionInv'
  OBVIOUS
<1>1. CASE UNCHANGED vars
  BY <1>1 DEF vars, PositionInv, TypeOK, NewestDelivered, DatedAsMeant
<1> QED
  BY <1>1, MoveStep, SendStep, SaveStep, ResolveStep DEF Next

LEMMA Positions == Spec => []PositionInv
BY PositionInit, PositionNext, PTL DEF Spec

\* Any devices, clocks and formats, any loss, repetition and reordering: the row
\* carries the newest time delivered.
THEOREM NewestIsKept == Spec => []NewestDelivered
<1>1. PositionInv => NewestDelivered
  BY DEF PositionInv
<1> QED
  BY <1>1, Positions, PTL

\* Each format means the same time to less than a microsecond, up to 2032 for
\* numbers of the 2001 era, also if it was rounded and cut off before.
THEOREM DatesAreMeant == Spec => []DatedAsMeant
<1>1. PositionInv => DatedAsMeant
  BY DEF PositionInv
<1> QED
  BY <1>1, Positions, PTL

\* The times a row carries and a device is given, while nothing is misread: whole
\* microseconds, not much before or after the devices' own times.  Sending them
\* again, rounded anew, does not let them grow: cut off, a time less than a
\* microsecond later is the same.  The row itself never goes back.
Given(t) ==
    /\ t % Grain = 0
    /\ \E i \in Instant : i < t + 2 * Grain
    /\ \E i \in Instant : t < i + Grain

GivenInv ==
    /\ row # NoRow => Given(row.at)
    /\ \A d \in Device : local[d] # NoRow =>
          local[d].at \in Instant \/ (row # NoRow /\ Given(local[d].at))
    /\ \A m \in sent : m.at \in Instant \/ (row # NoRow /\ Given(m.at))

\* One that has opened the book since the row last changed shows the row, or what
\* is hardly older.
ShownInv ==
    \A d \in opened : row # NoRow => local[d] # NoRow /\ row.at < local[d].at + Grain

NotMisread == \A m \in sent : Near(m.time, m.at)

OpenInv == PositionInv /\ (NotMisread => GivenInv /\ ShownInv)

LEMMA GivenIsProper ==
    ASSUME NEW t \in Nat, t \in Instant \/ Given(t)
    PROVE  Proper(t)
BY InstantIsLate, InstantIsProper DEF Given

\* Whole microseconds are a microsecond apart.
LEMMA NoneBetween ==
    ASSUME NEW t \in Int, NEW u \in Int, t % Grain = 0, u % Grain = 0, t < u + Grain
    PROVE  t <= u
<1>1. Grain \in Nat \ {0}
  BY Constants
<1>2. /\ t \div Grain \in Int /\ t = Grain * (t \div Grain)
      /\ u \div Grain \in Int /\ u = Grain * (u \div Grain)
  BY <1>1, Quotient
<1>3. ASSUME NEW p \in Int, NEW q \in Int, Grain * p < Grain * q + Grain PROVE Grain * p <= Grain * q
  <2>1. Grain * (q + 1) = Grain * q + Grain
    BY <1>1
  <2>2. p >= q + 1 => Grain * p >= Grain * (q + 1)
    BY <1>1
  <2>3. ~(p >= q + 1)
    BY <1>1, <1>3, <2>1, <2>2
  <2>4. p <= q
    BY <2>3
  <2> QED
    BY <1>1, <2>4
<1> QED
  BY <1>2, <1>3

\* What a save writes is given back within the same bounds.
LEMMA SavedIsGiven ==
    ASSUME PositionInv, NotMisread, GivenInv, NEW m \in sent,
           row = NoRow \/ Stored(m.time) >= row.at
    PROVE  Given(Stored(m.time))
<1>1. /\ m \in Request /\ m.time \in Nat /\ m.at \in Nat /\ Grain \in Nat \ {0}
      /\ m.time < m.at + Grain /\ m.at < m.time + Grain
      /\ Instant \subseteq Nat
  BY Constants, ReadingAssumption DEF PositionInv, TypeOK, Request, NotMisread, Near
<1> DEFINE s == Stored(m.time)
<1>2. s \in Int /\ s <= m.time /\ m.time < s + Grain /\ s % Grain = 0
  BY <1>1, StoredTime, StoredIsMultiple
<1> HIDE DEF s
<1>3. \E i \in Instant : s < i + Grain
  <2>1. CASE m.at \in Instant
    BY <1>1, <1>2, <2>1
  <2>2. CASE Given(m.at)
    <3>1. PICK i \in Instant : m.at < i + Grain
      BY <2>2 DEF Given
    <3>2. s <= m.at
      BY <1>1, <1>2, <2>2, NoneBetween DEF Given
    <3> QED
      BY <1>1, <1>2, <3>1, <3>2
  <2> QED
    BY <2>1, <2>2 DEF GivenInv
<1>4. \E i \in Instant : i < s + 2 * Grain
  <2>1. CASE row = NoRow
    <3>1. m.at \in Instant
      BY <2>1 DEF GivenInv
    <3> QED
      BY <1>1, <1>2, <3>1
  <2>2. CASE row # NoRow
    <3>1. s >= row.at /\ row.at \in Nat
      BY <2>2 DEF PositionInv, TypeOK, Saved, s
    <3>2. PICK i \in Instant : i < row.at + 2 * Grain
      BY <2>2 DEF GivenInv, Given
    <3> QED
      BY <1>1, <1>2, <3>1, <3>2
  <2> QED
    BY <2>1, <2>2
<1> QED
  BY <1>2, <1>3, <1>4 DEF Given, s

LEMMA OpenNext ==
    ASSUME OpenInv, [Next]_vars
    PROVE  OpenInv'
<1>1. PositionInv' /\ PositionInv
  BY PositionNext DEF OpenInv
<1>2. CASE UNCHANGED vars
  BY <1>1, <1>2 DEF vars, OpenInv, NotMisread, GivenInv, ShownInv
<1>3. ASSUME NEW d \in Device, NEW i \in Instant, Move(d, i) PROVE OpenInv'
  <2> DEFINE new == [position |-> <<d, moves[d] + 1>>, at |-> i]
  <2>1. \A c \in Device : local'[c] = IF c = d THEN new ELSE local[c]
    BY <1>1, <1>3 DEF Move, PositionInv, TypeOK
  <2>2. new.at = i /\ opened' = opened \ {d} /\ row' = row /\ sent' = sent /\ opened \subseteq Device
    BY <1>1, <1>3 DEF Move, PositionInv, TypeOK
  <2> HIDE DEF new
  <2>3. GivenInv => GivenInv'
    BY <2>1, <2>2 DEF GivenInv
  <2>4. ShownInv => ShownInv'
    BY <2>1, <2>2 DEF ShownInv
  <2> QED
    BY <1>1, <2>2, <2>3, <2>4 DEF OpenInv, NotMisread
<1>4. ASSUME NEW d \in Device, NEW format \in Format, Send(d, format) PROVE OpenInv'
  <2> DEFINE m == [position |-> local[d].position, at |-> local[d].at,
                   time |-> FlexibleTime(format, local[d].at)]
  <2>1. sent' = sent \cup {m} /\ m.at = local[d].at
    BY <1>4 DEF Send
  <2>2. local[d] # NoRow /\ UNCHANGED <<row, local, opened>>
    BY <1>4 DEF Send
  <2>3. NotMisread' => NotMisread
    BY <2>1 DEF NotMisread
  <2>4. GivenInv => GivenInv'
    BY <2>1, <2>2 DEF GivenInv
  <2> QED
    BY <1>1, <2>2, <2>3, <2>4 DEF OpenInv, ShownInv
<1>5. ASSUME NEW m \in sent, SavePosition(m) PROVE OpenInv'
  <2>1. /\ local' = local /\ sent' = sent
        /\ opened' = {} \/ (row' = row /\ opened' = opened)
    BY <1>5 DEF SavePosition
  <2> SUFFICES ASSUME NotMisread PROVE GivenInv' /\ ShownInv'
    BY <1>1, <2>1 DEF OpenInv, NotMisread
  <2>2. GivenInv /\ ShownInv
    BY DEF OpenInv
  <2>3. CASE row' = row
    BY <2>1, <2>2, <2>3 DEF GivenInv, ShownInv
  <2>4. CASE row' # row
    <3>1. /\ row = NoRow \/ Stored(m.time) >= row.at
          /\ row' = [position |-> m.position, at |-> Stored(m.time)]
      BY <1>5, <2>4 DEF SavePosition
    <3>2. Given(row'.at)
      BY <1>1, <2>2, <3>1, SavedIsGiven
    <3>3. row' # NoRow
      <4>1. m.position \in Position /\ Stored(m.time) \in Nat
        BY <1>1, StoredTime, Constants DEF PositionInv, TypeOK, Request
      <4> QED
        BY <3>1, <4>1, ReadingAssumption DEF Position
    <3>4. opened' = {}
      BY <2>1, <2>4
    <3> QED
      BY <2>1, <2>2, <3>2, <3>3, <3>4 DEF GivenInv, ShownInv
  <2> QED
    BY <2>3, <2>4
<1>6. ASSUME NEW d \in Device, NEW format \in Format, ResolvePosition(d, format) PROVE OpenInv'
  <2>1. \A c \in Device : c # d => local'[c] = local[c]
    BY <1>1, <1>6 DEF ResolvePosition, PositionInv, TypeOK
  <2>2. /\ row' = row /\ sent' = sent /\ opened' = opened \cup {d} /\ opened \subseteq Device
        /\ row # NoRow => row.at \in Nat
    BY <1>1, <1>6 DEF ResolvePosition, PositionInv, TypeOK, Saved
  <2> SUFFICES ASSUME NotMisread PROVE GivenInv' /\ ShownInv'
    BY <1>1, <2>2 DEF OpenInv, NotMisread
  <2>3. GivenInv /\ ShownInv
    BY DEF OpenInv
  <2>4. CASE UseLocal(d, format)
    <3>1. local' = local
      BY <1>6, <2>4 DEF ResolvePosition
    <3>2. ASSUME row # NoRow PROVE local[d] # NoRow /\ row.at < local[d].at + Grain
      <4>1. local[d] # NoRow /\ FlexibleTime(format, local[d].at) >= row.at
        BY <2>4, <3>2 DEF UseLocal
      <4>2. /\ local[d].at \in Nat /\ local[d].at >= Epoch
            /\ local[d].at \in Instant \/ Given(local[d].at)
        BY <1>1, <2>3, <4>1 DEF PositionInv, TypeOK, Saved, GivenInv
      <4>3. /\ FlexibleTime(format, local[d].at) < local[d].at + Grain
            /\ FlexibleTime(format, local[d].at) \in Nat
        BY <4>2, GivenIsProper, ReadNotLater, DateIsNumber
      <4>4. Grain \in Nat
        BY Constants
      <4> QED
        BY <2>2, <3>2, <4>1, <4>2, <4>3, <4>4
    <3> QED
      BY <2>2, <2>3, <3>1, <3>2 DEF GivenInv, ShownInv
  <2>5. CASE ~UseLocal(d, format)
    <3>1. local'[d] = row /\ row # NoRow
      BY <1>1, <1>6, <2>5 DEF ResolvePosition, UseLocal, PositionInv, TypeOK
    <3>2. row.at < row.at + Grain
      BY <2>2, <3>1, Constants
    <3>3. GivenInv'
      BY <2>1, <2>2, <2>3, <3>1 DEF GivenInv
    <3>4. ShownInv'
      BY <2>1, <2>2, <2>3, <3>1, <3>2 DEF ShownInv
    <3> QED
      BY <3>3, <3>4
  <2> QED
    BY <2>4, <2>5
<1> QED
  BY <1>2, <1>3, <1>4, <1>5, <1>6 DEF Next

\* Unless a date of 2032 was misread: a device that has opened the book shows what
\* is less than two microseconds older than the newest delivered, or newer.
THEOREM OpenedDevicesAgree == Spec => []OpenedShowNewest
<1>1. Init => OpenInv
  BY PositionInit DEF Init, OpenInv, GivenInv, ShownInv
<1>2. OpenInv /\ [Next]_vars => OpenInv'
  BY OpenNext
<1>3. OpenInv => OpenedShowNewest
  <2> SUFFICES ASSUME OpenInv, NotMisread, NEW d \in opened, row # NoRow
               PROVE  local[d] # NoRow /\ newest < local[d].at + 2 * Grain
    BY DEF OpenedShowNewest, NotMisread
  <2>1. local[d] # NoRow /\ row.at < local[d].at + Grain
    BY DEF OpenInv, ShownInv
  <2>2. local[d].at \in Nat /\ newest \in Nat /\ row.at = Stored(newest)
    BY <2>1 DEF OpenInv, PositionInv, TypeOK, NewestDelivered, Saved
  <2>3. newest < row.at + Grain /\ row.at \in Int
    BY <2>2, StoredTime
  <2>4. Grain \in Nat
    BY Constants
  <2> QED
    BY <2>1, <2>2, <2>3, <2>4
<1> QED
  BY <1>1, <1>2, <1>3, PTL DEF Spec

-----------------------------------------------------------------------------
(* Profile *)

Numbers == 1..Len(writes)
Done == {n \in Numbers : writes[n].state \in {"applied", "complete"}}
Writing == {"write", "reply"}
Reading == {"me", "answer"}

\* Each write that is under way is that of one request, and as far as it is.
WritesUnderWay ==
    \A p \in Phone : call[p].at \in Writing =>
        LET n == call[p].write IN
        /\ n \in Numbers
        /\ writes[n].state = IF call[p].at = "write" THEN "running" ELSE "applied"
        /\ \A q \in Phone : call[q].at \in Writing /\ q # p => call[q].write # n

\* A write comes after writes that were complete, all of them before it; stamps
\* are in the order in which the writes began.
WritesInOrder ==
    /\ Len(writes) <= MaxWrites
    /\ \A n \in Numbers :
        /\ writes[n].stamp <= time /\ writes[n].after \subseteq Complete
        /\ \A m \in writes[n].after : m < n
        /\ \A m \in Numbers : m < n => writes[m].stamp <= writes[n].stamp

\* The rows already hold what the complete writes will be followed by, also for
\* writes that only have to be answered yet.
RowsFresh ==
    \A f \in Field : profile[f] \in Numbers \cup {0} /\ Fresh(profile[f], f, Done)

\* So has what a GET /me has read so far.
ReadsFresh ==
    \A p \in Phone : call[p].at \in Reading =>
        /\ call[p].after \subseteq Complete
        /\ Fresh(call[p].shown["storefront"], "storefront", call[p].after)
        /\ call[p].at = "answer" => Fresh(call[p].shown["rateUs"], "rateUs", call[p].after)

ProfileInv ==
    /\ ProfileTypeOK
    /\ WritesUnderWay /\ WritesInOrder /\ RowsFresh /\ ReadsFresh

LEMMA CallShape ==
    ASSUME NEW c \in Call
    PROVE  /\ c.at \in {"idle"} \cup Writing \cup Reading
           /\ c.at \in Writing => c \in [at : Writing, write : 1..MaxWrites]
           /\ c.at \in Reading => c \in [at : Reading, shown : [Field -> 0..MaxWrites],
                                        after : SUBSET (1..MaxWrites)]
BY DEF Call, Writing, Reading

LEMMA ProfileInitInv == ProfileInit => ProfileInv
<1> SUFFICES ASSUME ProfileInit PROVE ProfileInv
  OBVIOUS
<1>1. writes \in Seq(Write) /\ Len(writes) = 0 /\ Numbers = {}
  BY DEF ProfileInit, Numbers
<1>2. ProfileTypeOK
  BY <1>1, ProfileAssumption DEF ProfileInit, ProfileTypeOK, Call, NoCall
<1>3. WritesUnderWay /\ ReadsFresh
  BY DEF ProfileInit, NoCall, WritesUnderWay, ReadsFresh, Writing, Reading
<1>4. WritesInOrder /\ RowsFresh
  BY <1>1, ProfileAssumption DEF ProfileInit, WritesInOrder, RowsFresh, Done, Fresh
<1> QED
  BY <1>2, <1>3, <1>4 DEF ProfileInv

LEMMA Typed ==
    ASSUME ProfileTypeOK
    PROVE  /\ Len(writes) \in Nat /\ Numbers \subseteq Nat
           /\ \A n \in Numbers : writes[n] \in Write
           /\ Complete \subseteq Done /\ Done \subseteq Numbers
           /\ MaxWrites \in Nat /\ MaxTime \in Nat
BY ProfileAssumption DEF ProfileTypeOK, Numbers, Complete, Done

\* A step that changes the state of write n, and nothing else about writes.
LEMMA StateChange ==
    ASSUME ProfileInv, NEW n \in Numbers, NEW st \in {"applied", "complete", "failed"},
           writes' = [writes EXCEPT ![n].state = st], writes[n].state # "complete"
    PROVE  /\ writes' \in Seq(Write) /\ Numbers' = Numbers
           /\ \A m \in Numbers : /\ writes'[m].field = writes[m].field
                                 /\ writes'[m].stamp = writes[m].stamp
                                 /\ writes'[m].after = writes[m].after
                                 /\ writes'[m].state = IF m = n THEN st ELSE writes[m].state
           /\ Complete' = IF st = "complete" THEN Complete \cup {n} ELSE Complete
<1> DEFINE changed == [writes[n] EXCEPT !.state = st]
<1>1. writes \in Seq(Write) /\ n \in 1..Len(writes) /\ writes[n] \in Write
  BY Typed DEF ProfileInv, ProfileTypeOK, Numbers
<1>2. changed \in Write /\ changed.state = st /\ changed.field = writes[n].field
      /\ changed.stamp = writes[n].stamp /\ changed.after = writes[n].after
  BY <1>1 DEF Write
<1>3. writes' = [writes EXCEPT ![n] = changed]
  BY <1>1
<1> HIDE DEF changed
<1>4. writes' \in Seq(Write) /\ Len(writes') = Len(writes)
      /\ \A m \in 1..Len(writes) : writes'[m] = IF m = n THEN changed ELSE writes[m]
  BY <1>1, <1>2, <1>3, ExceptSeq
<1>5. Numbers' = Numbers
  BY <1>4 DEF Numbers
<1>6. \A m \in Numbers : /\ writes'[m].field = writes[m].field
                         /\ writes'[m].stamp = writes[m].stamp
                         /\ writes'[m].after = writes[m].after
                         /\ writes'[m].state = IF m = n THEN st ELSE writes[m].state
  BY <1>2, <1>4 DEF Numbers
<1>7. Complete' = IF st = "complete" THEN Complete \cup {n} ELSE Complete
  BY <1>4, <1>5, <1>6 DEF Complete, Numbers
<1> QED
  BY <1>4, <1>5, <1>6, <1>7

\* Nothing is written, and request p is at most about to read.
LEMMA CallStep ==
    ASSUME ProfileInv, NEW p \in Phone, NEW b \in Call,
           call' = [call EXCEPT ![p] = b], UNCHANGED <<profile, writes, time>>,
           b.at \notin Writing,
           b.at \in Reading =>
              /\ b.after \subseteq Complete
              /\ Fresh(b.shown["storefront"], "storefront", b.after)
              /\ b.at = "answer" => Fresh(b.shown["rateUs"], "rateUs", b.after)
    PROVE  ProfileInv'
<1>1. \A q \in Phone : call'[q] = IF q = p THEN b ELSE call[q]
  BY DEF ProfileInv, ProfileTypeOK
<1>2. ProfileTypeOK'
  BY DEF ProfileInv, ProfileTypeOK
<1>3. WritesUnderWay'
  BY <1>1 DEF ProfileInv, WritesUnderWay, Numbers
<1>4. WritesInOrder' /\ RowsFresh'
  BY DEF ProfileInv, WritesInOrder, RowsFresh, Numbers, Done, Complete, Fresh
<1>5. ReadsFresh'
  BY <1>1 DEF ProfileInv, ReadsFresh, Complete, Fresh
<1> QED
  BY <1>2, <1>3, <1>4, <1>5 DEF ProfileInv

LEMMA LoadUserStep ==
    ASSUME ProfileInv, NEW p \in Phone, LoadUser(p)
    PROVE  ProfileInv'
<1> DEFINE b == [at |-> "me", after |-> Complete, shown |-> [profile EXCEPT !["rateUs"] = 0]]
<1>1. Complete \subseteq 1..MaxWrites /\ profile \in [Field -> 0..MaxWrites] /\ MaxWrites \in Nat
  BY Typed DEF ProfileInv, ProfileTypeOK, WritesInOrder, Complete
<1>2. /\ b.at = "me" /\ b.after = Complete
      /\ b.shown["storefront"] = profile["storefront"]
      /\ b \in Call
  BY <1>1 DEF Call, Field
<1>3. Fresh(profile["storefront"], "storefront", Complete)
  BY Typed DEF ProfileInv, RowsFresh, Field, Fresh
<1>4. call' = [call EXCEPT ![p] = b] /\ UNCHANGED <<profile, writes, time>>
  BY DEF LoadUser
<1> HIDE DEF b
<1> QED
  BY <1>2, <1>3, <1>4, CallStep DEF Writing, Reading

LEMMA GetRateUsStep ==
    ASSUME ProfileInv, NEW p \in Phone, GetRateUs(p)
    PROVE  ProfileInv'
<1> DEFINE c == call[p]
           b == [c EXCEPT !.at = "answer", !.shown["rateUs"] = profile["rateUs"]]
<1>1. /\ c.at = "me" /\ c \in [at : Reading, shown : [Field -> 0..MaxWrites],
                              after : SUBSET (1..MaxWrites)]
      /\ profile["rateUs"] \in 0..MaxWrites
  BY CallShape DEF GetRateUs, ProfileInv, ProfileTypeOK, Reading, Field
<1>2. /\ b.at = "answer" /\ b.after = c.after /\ b \in Call
      /\ b.shown["storefront"] = c.shown["storefront"]
      /\ b.shown["rateUs"] = profile["rateUs"]
  BY <1>1 DEF Call, Field
<1>3. /\ c.after \subseteq Complete
      /\ Fresh(c.shown["storefront"], "storefront", c.after)
  BY <1>1 DEF ProfileInv, ReadsFresh, Reading
<1>4. Fresh(profile["rateUs"], "rateUs", c.after)
  BY <1>3, Typed DEF ProfileInv, RowsFresh, Field, Fresh
<1>5. call' = [call EXCEPT ![p] = b] /\ UNCHANGED <<profile, writes, time>>
  BY DEF GetRateUs, ProfileInv, ProfileTypeOK
<1> HIDE DEF b
<1> QED
  BY <1>2, <1>3, <1>4, <1>5, CallStep DEF Writing, Reading

LEMMA EndMeStep ==
    ASSUME ProfileInv, NEW p \in Phone, EndMe(p)
    PROVE  ProfileInv'
<1>1. NoCall \in Call /\ NoCall.at \notin Writing /\ NoCall.at \notin Reading
  BY DEF NoCall, Call, Writing, Reading
<1> QED
  BY <1>1, CallStep DEF EndMe

LEMMA BeginWriteStep ==
    ASSUME ProfileInv, NEW p \in Phone, NEW f \in Field, BeginWrite(p, f)
    PROVE  ProfileInv'
<1> DEFINE new == Len(writes) + 1
           b == [at |-> "write", write |-> new]
           added == [field |-> f, stamp |-> time, after |-> Complete, state |-> "running"]
<1>1. /\ writes \in Seq(Write) /\ Len(writes) \in Nat /\ new \in 1..MaxWrites
      /\ Complete \subseteq 1..MaxWrites /\ time \in 0..MaxTime
      /\ MaxWrites \in Nat /\ MaxTime \in Nat /\ Complete \subseteq Numbers
  BY Typed DEF ProfileInv, ProfileTypeOK, Complete, BeginWrite, WritesInOrder
<1>2. added \in Write /\ b \in Call
  BY <1>1 DEF Write, Call
<1>3. /\ writes' \in Seq(Write) /\ Len(writes') = new
      /\ \A n \in Numbers : writes'[n] = writes[n]
      /\ writes'[new] = added
  BY <1>1, <1>2, AppendProperties DEF BeginWrite, Numbers
<1>4. /\ added.stamp = time /\ added.after = Complete /\ added.state = "running"
      /\ b.at = "write" /\ b.write = new
      /\ \A q \in Phone : call'[q] = IF q = p THEN b ELSE call[q]
      /\ UNCHANGED <<profile, time>>
  BY DEF BeginWrite, ProfileInv, ProfileTypeOK
<1>5. Numbers' = Numbers \cup {new} /\ new \notin Numbers
      /\ \A n \in Numbers : n < new /\ n \in Nat
  BY <1>1, <1>3 DEF Numbers
<1> HIDE DEF added, b, new
<1>6. Complete' = Complete /\ Done' = Done
  BY <1>3, <1>4, <1>5 DEF Complete, Done, Numbers
<1>7. ProfileTypeOK'
  BY <1>2, <1>3, <1>4 DEF ProfileInv, ProfileTypeOK, BeginWrite, b, new
<1>8. WritesUnderWay'
  <2>1. ASSUME NEW q \in Phone, call'[q].at \in Writing
        PROVE  LET n == call'[q].write IN
               /\ n \in Numbers'
               /\ writes'[n].state = IF call'[q].at = "write" THEN "running" ELSE "applied"
               /\ \A r \in Phone : call'[r].at \in Writing /\ r # q => call'[r].write # n
    <3>1. \A r \in Phone \ {p} : call[r].at \in Writing => call[r].write \in Numbers
      BY DEF ProfileInv, WritesUnderWay
    <3>2. CASE q = p
      BY <1>3, <1>4, <1>5, <3>1, <3>2
    <3>3. CASE q # p
      BY <1>3, <1>4, <1>5, <2>1, <3>3 DEF ProfileInv, WritesUnderWay
    <3> QED
      BY <3>2, <3>3
  <2> QED
    BY <2>1 DEF WritesUnderWay
<1>9. WritesInOrder'
  <2>1. Len(writes') <= MaxWrites
    BY <1>1, <1>3
  <2>2. \A n \in Numbers : writes[n].stamp <= time /\ writes[n].stamp \in Nat /\ time \in Nat
    BY <1>1, Typed DEF ProfileInv, WritesInOrder, Write
  <2>3. ASSUME NEW n \in Numbers'
        PROVE  /\ writes'[n].stamp <= time /\ writes'[n].after \subseteq Complete
               /\ \A m \in writes'[n].after : m < n
               /\ \A m \in Numbers' : m < n => writes'[m].stamp <= writes'[n].stamp
    <3>1. CASE n = new
      <4>1. writes'[n].stamp = time /\ writes'[n].after = Complete
        BY <1>3, <1>4, <3>1
      <4>2. \A m \in Complete : m < n
        BY <1>1, <1>5, <3>1
      <4>3. \A m \in Numbers' : m < n => writes'[m].stamp <= time
        BY <1>3, <1>5, <2>2, <3>1
      <4>4. time \in Nat
        BY <1>1
      <4> QED
        BY <4>1, <4>2, <4>3, <4>4
    <3>2. CASE n \in Numbers
      <4>1. \A m \in Numbers' : m < n => m \in Numbers
        BY <1>1, <1>5, <3>2 DEF new
      <4> QED
        BY <1>3, <3>2, <4>1 DEF ProfileInv, WritesInOrder
    <3> QED
      BY <1>5, <3>1, <3>2
  <2> QED
    BY <1>4, <1>6, <2>1, <2>3 DEF WritesInOrder
<1>10. RowsFresh'
  <2>1. Done \subseteq Numbers
    BY Typed DEF ProfileInv
  <2> QED
    BY <1>3, <1>4, <1>5, <1>6, <2>1 DEF ProfileInv, RowsFresh, Fresh
<1>11. ReadsFresh'
  <2>1. ASSUME NEW q \in Phone, call'[q].at \in Reading
        PROVE  /\ call[q].after \subseteq Numbers /\ call'[q] = call[q] /\ call[q].at \in Reading
    BY <1>1, <1>4, <2>1 DEF ProfileInv, ReadsFresh, Reading
  <2> QED
    BY <1>3, <1>6, <2>1 DEF ProfileInv, ReadsFresh, Fresh
<1> QED
  BY <1>7, <1>8, <1>9, <1>10, <1>11 DEF ProfileInv

\* Request p takes its write one state further; the rows are as they should be.
LEMMA WriteStep ==
    ASSUME ProfileInv, NEW p \in Phone, call[p].at \in Writing,
           NEW st \in {"applied", "complete", "failed"}, NEW b \in Call,
           writes' = [writes EXCEPT ![call[p].write].state = st],
           call' = [call EXCEPT ![p] = b], time' = time,
           \/ b.at = "idle" /\ st # "applied"
           \/ b.at = "reply" /\ b.write = call[p].write /\ st = "applied",
           profile' \in [Field -> 0..MaxWrites], RowsFresh'
    PROVE  ProfileInv'
<1> DEFINE n == call[p].write
<1>1. n \in Numbers /\ writes[n].state # "complete"
      /\ \A q \in Phone : call[q].at \in Writing /\ q # p => call[q].write # n
  BY DEF ProfileInv, WritesUnderWay
<1>2. \A q \in Phone : call'[q] = IF q = p THEN b ELSE call[q]
  BY DEF ProfileInv, ProfileTypeOK
<1>3. /\ writes' \in Seq(Write) /\ Numbers' = Numbers
      /\ \A m \in Numbers : /\ writes'[m].field = writes[m].field
                            /\ writes'[m].stamp = writes[m].stamp
                            /\ writes'[m].after = writes[m].after
                            /\ writes'[m].state = IF m = n THEN st ELSE writes[m].state
      /\ Complete' = IF st = "complete" THEN Complete \cup {n} ELSE Complete
  BY <1>1, StateChange
<1> HIDE DEF n
<1>4. Complete \subseteq Complete' /\ Complete \subseteq Numbers
  BY <1>3, Typed DEF ProfileInv
<1>5. ProfileTypeOK'
  BY <1>3 DEF ProfileInv, ProfileTypeOK
<1>6. WritesUnderWay'
  <2>1. ASSUME NEW q \in Phone, call'[q].at \in Writing
        PROVE  LET m == call'[q].write IN
               /\ m \in Numbers'
               /\ writes'[m].state = IF call'[q].at = "write" THEN "running" ELSE "applied"
               /\ \A r \in Phone : call'[r].at \in Writing /\ r # q => call'[r].write # m
    <3>1. CASE q = p
      BY <1>1, <1>2, <1>3, <2>1, <3>1 DEF Writing, n
    <3>2. CASE q # p
      <4>1. /\ call'[q] = call[q] /\ call[q].write \in Numbers /\ call[q].write # n
            /\ writes[call[q].write].state
                  = IF call[q].at = "write" THEN "running" ELSE "applied"
        BY <1>1, <1>2, <2>1, <3>2 DEF ProfileInv, WritesUnderWay
      <4>2. \A r \in Phone : call'[r].at \in Writing /\ r # q =>
               call[r].at \in Writing /\ call'[r].write = call[r].write
        BY <1>2 DEF Writing, n
      <4> QED
        BY <1>3, <2>1, <4>1, <4>2 DEF ProfileInv, WritesUnderWay
    <3> QED
      BY <3>1, <3>2
  <2> QED
    BY <2>1 DEF WritesUnderWay
<1>7. WritesInOrder'
  <2>1. Len(writes') = Len(writes)
    BY <1>3, LenProperties, Typed DEF ProfileInv, ProfileTypeOK, Numbers
  <2> QED
    BY <1>3, <1>4, <2>1 DEF ProfileInv, WritesInOrder
<1>8. ReadsFresh'
  <2>1. ASSUME NEW q \in Phone, call'[q].at \in Reading
        PROVE  /\ call'[q] = call[q] /\ call[q].at \in Reading
               /\ call[q].after \subseteq Complete
    BY <1>2, <2>1 DEF ProfileInv, ReadsFresh, Reading
  <2> QED
    BY <1>3, <1>4, <2>1 DEF ProfileInv, ReadsFresh, Fresh
<1> QED
  BY <1>5, <1>6, <1>7, <1>8 DEF ProfileInv

LEMMA ApplyStep ==
    ASSUME ProfileInv, NEW p \in Phone, Apply(p)
    PROVE  ProfileInv'
<1> DEFINE n == call[p].write
           b == [call[p] EXCEPT !.at = "reply"]
<1>1. /\ call[p].at = "write" /\ call[p].at \in Writing /\ n \in Numbers
      /\ writes[n].state = "running" /\ n \in 1..MaxWrites
      /\ call[p] \in [at : Writing, write : 1..MaxWrites]
  BY CallShape DEF Apply, ProfileInv, ProfileTypeOK, WritesUnderWay, Writing
<1>2. b \in Call /\ b.at = "reply" /\ b.write = n
  BY <1>1 DEF Call
<1>3. /\ profile' = [profile EXCEPT ![writes[n].field] = n]
      /\ writes' = [writes EXCEPT ![n].state = "applied"]
      /\ call' = [call EXCEPT ![p] = b] /\ time' = time
  BY DEF Apply, ProfileInv, ProfileTypeOK
<1>4. writes[n].field \in Field
  BY <1>1, Typed DEF ProfileInv, Write
<1>5. /\ Numbers' = Numbers
      /\ \A m \in Numbers : /\ writes'[m].field = writes[m].field
                            /\ writes'[m].after = writes[m].after
                            /\ writes'[m].state = IF m = n THEN "applied" ELSE writes[m].state
  BY <1>1, <1>3, StateChange
<1> HIDE DEF n, b
<1>6. Done' = Done \cup {n}
  BY <1>1, <1>5 DEF Done
<1>7. profile' \in [Field -> 0..MaxWrites]
  <2>1. n \in 0..MaxWrites
    BY <1>1, Typed DEF ProfileInv
  <2> QED
    BY <1>3, <2>1 DEF ProfileInv, ProfileTypeOK
<1>8. \A m \in Numbers : n \notin writes[m].after
  BY <1>1 DEF ProfileInv, WritesInOrder, Complete
<1>9. RowsFresh'
  <2>1. ASSUME NEW f \in Field
        PROVE  /\ profile'[f] \in Numbers \cup {0}
               /\ \A m \in Done \cup {n} : writes'[m].field = f =>
                     profile'[f] # 0 /\ profile'[f] \notin writes'[m].after
    <3>1. Done \cup {n} \subseteq Numbers /\ n # 0
      BY <1>1, Typed DEF ProfileInv
    <3>2. CASE f = writes[n].field
      <4>1. profile'[f] = n
        BY <1>3, <3>2 DEF ProfileInv, ProfileTypeOK
      <4> QED
        BY <1>1, <1>5, <1>8, <3>1, <4>1
    <3>3. CASE f # writes[n].field
      <4>1. profile'[f] = profile[f]
        BY <1>3, <3>3 DEF ProfileInv, ProfileTypeOK
      <4>2. profile[f] \in Numbers \cup {0} /\ Fresh(profile[f], f, Done)
        BY DEF ProfileInv, RowsFresh
      <4>3. ASSUME NEW m \in Done \cup {n}, writes'[m].field = f
            PROVE  m \in Done /\ writes[m].field = f /\ writes'[m].after = writes[m].after
        BY <1>1, <1>5, <3>1, <3>3, <4>3
      <4>4. ASSUME NEW m \in Done, writes[m].field = f
            PROVE  profile[f] # 0 /\ profile[f] \notin writes[m].after
        BY <4>2, <4>4 DEF Fresh
      <4> QED
        BY <4>1, <4>2, <4>3, <4>4
    <3> QED
      BY <3>2, <3>3
  <2> QED
    BY <1>5, <1>6, <2>1 DEF RowsFresh, Fresh
<1> QED
  BY <1>1, <1>2, <1>3, <1>7, <1>9, WriteStep DEF n

LEMMA EndWriteStep ==
    ASSUME ProfileInv, NEW p \in Phone, ApplyFails(p) \/ Reply(p)
    PROVE  ProfileInv'
<1> DEFINE n == call[p].write
           st == IF call[p].at = "write" THEN "failed" ELSE "complete"
<1>1. /\ call[p].at \in Writing /\ n \in Numbers /\ st \in {"complete", "failed"}
      /\ writes[n].state = IF call[p].at = "write" THEN "running" ELSE "applied"
  BY DEF ApplyFails, Reply, ProfileInv, WritesUnderWay, Writing
<1>2. /\ writes' = [writes EXCEPT ![n].state = st]
      /\ call' = [call EXCEPT ![p] = NoCall] /\ UNCHANGED <<profile, time>>
  BY DEF ApplyFails, Reply
<1>3. NoCall \in Call /\ NoCall.at = "idle"
  BY DEF NoCall, Call
<1>4. /\ Numbers' = Numbers
      /\ \A m \in Numbers : /\ writes'[m].field = writes[m].field
                            /\ writes'[m].after = writes[m].after
                            /\ writes'[m].state = IF m = n THEN st ELSE writes[m].state
  <2>1. writes[n].state # "complete" /\ st \in {"applied", "complete", "failed"}
    BY <1>1
  <2>2. n \in Numbers /\ writes' = [writes EXCEPT ![n].state = st]
    BY <1>1, <1>2
  <2> HIDE DEF n, st
  <2> QED
    BY <2>1, <2>2, StateChange DEF ProfileInv
<1>5. Done' \subseteq Done /\ Done \subseteq Numbers
  <2>1. st = "complete" => n \in Done
    BY <1>1 DEF Done, Writing
  <2> HIDE DEF n, st
  <2> QED
    BY <1>1, <1>4, <2>1 DEF Done
<1>6. RowsFresh'
  BY <1>2, <1>4, <1>5 DEF ProfileInv, RowsFresh, Fresh
<1>7. profile' \in [Field -> 0..MaxWrites]
  BY <1>2 DEF ProfileInv, ProfileTypeOK
<1> HIDE DEF st
<1> QED
  BY <1>1, <1>2, <1>3, <1>6, <1>7, WriteStep

LEMMA ProfileNextInv == ProfileInv /\ [ProfileNext]_profileVars => ProfileInv'
<1> SUFFICES ASSUME ProfileInv, [ProfileNext]_profileVars PROVE ProfileInv'
  OBVIOUS
<1>1. CASE UNCHANGED profileVars
  BY <1>1 DEF profileVars, ProfileInv, ProfileTypeOK, WritesUnderWay, WritesInOrder, RowsFresh,
     ReadsFresh, Numbers, Done, Complete, Fresh
<1>2. CASE ProfileTick
  <2>1. ProfileTypeOK'
    BY <1>2, ProfileAssumption DEF ProfileTick, ProfileInv, ProfileTypeOK
  <2>2. WritesUnderWay' /\ RowsFresh' /\ ReadsFresh'
    BY <1>2 DEF ProfileTick, ProfileInv, WritesUnderWay, RowsFresh, ReadsFresh, Numbers, Done,
       Complete, Fresh
  <2>3. WritesInOrder'
    <3>1. \A n \in Numbers : writes[n].stamp \in Nat
      BY Typed DEF ProfileInv, Write
    <3>2. time \in Nat /\ time' = time + 1 /\ writes' = writes
      BY <1>2 DEF ProfileTick, ProfileInv, ProfileTypeOK
    <3> QED
      BY <3>1, <3>2 DEF ProfileInv, WritesInOrder, Numbers, Complete
  <2> QED
    BY <2>1, <2>2, <2>3 DEF ProfileInv
<1> QED
  BY <1>1, <1>2, BeginWriteStep, ApplyStep, EndWriteStep, LoadUserStep, GetRateUsStep, EndMeStep
  DEF ProfileNext

LEMMA ProfileInvSees == ProfileInv => LastWriteSeen
<1> SUFFICES ASSUME ProfileInv PROVE LastWriteSeen
  OBVIOUS
<1>1. ASSUME NEW f \in Field
      PROVE  /\ Fresh(profile[f], f, Complete)
             /\ \A m \in Complete : writes[m].field = f /\ writes[m].stamp > writes[profile[f]].stamp
                                      => m \notin writes[profile[f]].after
  <2>1. Fresh(profile[f], f, Complete) /\ Complete \subseteq Numbers
    BY Typed DEF ProfileInv, RowsFresh, Fresh
  <2>2. ASSUME NEW m \in Complete, writes[m].field = f, m \in writes[profile[f]].after
        PROVE  ~(writes[m].stamp > writes[profile[f]].stamp)
    <3>1. profile[f] \in Numbers /\ m \in Numbers
      BY <2>1, <2>2 DEF ProfileInv, RowsFresh, Fresh
    <3>2. writes[m].stamp <= writes[profile[f]].stamp
      BY <2>2, <3>1 DEF ProfileInv, WritesInOrder
    <3>3. writes[m].stamp \in Nat /\ writes[profile[f]].stamp \in Nat
      BY <3>1, Typed DEF ProfileInv, Write
    <3> QED
      BY <3>2, <3>3
  <2> QED
    BY <2>1, <2>2
<1>2. \A p \in Phone : call[p].at = "answer" =>
         \A f \in Field : Fresh(call[p].shown[f], f, call[p].after)
  BY DEF ProfileInv, ReadsFresh, Reading, Field
<1> QED
  BY <1>1, <1>2 DEF LastWriteSeen

-----------------------------------------------------------------------------
(* Both, as TLC runs them *)

LEMMA DevicesParts == DevicesSpec => Spec /\ []ProfileInv
<1>1. DevicesInit => Init /\ ProfileInv
  BY ProfileInitInv DEF DevicesInit
<1>2. [DevicesNext]_<<vars, profileVars, part>> => [Next]_vars /\ [ProfileNext]_profileVars
  BY DEF DevicesNext, vars, profileVars
<1> QED
  BY <1>1, <1>2, ProfileNextInv, PTL DEF DevicesSpec, Spec

\* A write that was answered is not undone by one that began before it, neither in
\* the tables nor in what GET /me shows, for any number of devices and writes.
THEOREM LastWriteIsSeen == DevicesSpec => []LastWriteSeen
BY DevicesParts, ProfileInvSees, PTL

\* Rows, requests and histories of both parts keep their types.
THEOREM DevicesTypeCorrect == DevicesSpec => []DevicesTypeOK
<1>1. PositionInv /\ ProfileInv => DevicesTypeOK
  BY DEF PositionInv, ProfileInv, DevicesTypeOK
<1> QED
  BY <1>1, DevicesParts, Positions, PTL
=============================================================================
