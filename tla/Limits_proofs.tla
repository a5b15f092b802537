----------------------------- MODULE Limits_proofs -----------------------------
(***************************************************************************)
(* Proofs about what requests may use up: the monthly allowance             *)
(* (TranslationQuota) and what rate limiters let in (Onboarding), for every  *)
(* number of users, clients, months and concurrent requests and all limits. *)
(***************************************************************************)
EXTENDS TranslationQuota, Onboarding, FiniteSetTheorems, SequenceTheorems, TLAPS

\* Rows and requests belong to registered users: registration finds no row.
KnownInv ==
    /\ \A k \in Key : row[k] # NoRow => k[1] \in known
    /\ \A r \in Req : req[r].at # "idle" => req[r].user \in known

\* A request past the look at the allowance has a row to charge.
RowInv ==
    /\ \A r \in Req : req[r].at = "charge" => KeyOf(r) \in Key
    /\ \A r \in Req : req[r].at \in {"provider", "charge", "answer"} /\ KeyOf(r) \in Key
          => row[KeyOf(r)] # NoRow

Used(k) == IF row[k] = NoRow THEN 0 ELSE row[k].used

\* What was delivered or is about to be was charged.
BackedInv == \A k \in Key : answered[k] + Cardinality(Answering(k)) <= Used(k)

IInv == /\ TypeOK
        /\ KnownInv
        /\ RowInv
        /\ OvershootBounded
        /\ BackedInv

-----------------------------------------------------------------------------
(* Counting: at most one request moves in a step. *)

\* Two finite sets that agree but for x differ in size by x's membership.
LEMMA OneElement ==
    ASSUME NEW S, NEW T, NEW x, IsFiniteSet(S), IsFiniteSet(T), S \ {x} = T \ {x}
    PROVE  /\ Cardinality(S) \in Nat
           /\ Cardinality(T) \in Nat
           /\ (x \in S <=> x \in T) => Cardinality(T) = Cardinality(S)
           /\ x \in S /\ x \notin T => Cardinality(T) = Cardinality(S) - 1
           /\ x \notin S /\ x \in T => Cardinality(T) = Cardinality(S) + 1
<1>1. Cardinality(S) \in Nat /\ Cardinality(T) \in Nat
  BY FS_CardinalityType
<1>2. /\ Cardinality(S \ {x}) = IF x \in S THEN Cardinality(S) - 1 ELSE Cardinality(S)
      /\ Cardinality(T \ {x}) = IF x \in T THEN Cardinality(T) - 1 ELSE Cardinality(T)
  BY FS_RemoveElement
<1> QED BY <1>1, <1>2

\* Sets of requests are finite and no larger than Req.
LEMMA RequestSets ==
    ASSUME NEW k
    PROVE  /\ IsFiniteSet(Admitted(k)) /\ IsFiniteSet(Answering(k))
           /\ Cardinality(Admitted(k)) \in Nat /\ Cardinality(Answering(k)) \in Nat
           /\ Cardinality(Admitted(k)) <= Cardinality(Req)
           /\ Cardinality(Req) \in Nat
<1>1. Admitted(k) \in SUBSET Req /\ Answering(k) \in SUBSET Req
  BY DEF Admitted, Answering
<1>2. IsFiniteSet(Req)
  BY TranslationQuotaAssumption
<1> QED BY <1>1, <1>2, FS_Subset, FS_CardinalityType

LEMMA RequestSetsNext ==
    ASSUME NEW k
    PROVE  /\ IsFiniteSet(Admitted(k)') /\ IsFiniteSet(Answering(k)')
           /\ Cardinality(Admitted(k)') \in Nat /\ Cardinality(Answering(k)') \in Nat
           /\ Cardinality(Admitted(k)') <= Cardinality(Req)
<1>1. Admitted(k)' \in SUBSET Req /\ Answering(k)' \in SUBSET Req
  BY DEF Admitted, Answering
<1>2. IsFiniteSet(Req)
  BY TranslationQuotaAssumption
<1> QED BY <1>1, <1>2, FS_Subset, FS_CardinalityType

\* When only request r moves, both counts change by r's membership alone.
LEMMA OneMoves ==
    ASSUME NEW r \in Req, NEW k, \A o \in Req \ {r} : req'[o] = req[o]
    PROVE  /\ (r \in Admitted(k) <=> r \in Admitted(k)')
                => Cardinality(Admitted(k)') = Cardinality(Admitted(k))
           /\ r \in Admitted(k) /\ r \notin Admitted(k)'
                => Cardinality(Admitted(k)') = Cardinality(Admitted(k)) - 1
           /\ r \notin Admitted(k) /\ r \in Admitted(k)'
                => Cardinality(Admitted(k)') = Cardinality(Admitted(k)) + 1
           /\ (r \in Answering(k) <=> r \in Answering(k)')
                => Cardinality(Answering(k)') = Cardinality(Answering(k))
           /\ r \in Answering(k) /\ r \notin Answering(k)'
                => Cardinality(Answering(k)') = Cardinality(Answering(k)) - 1
           /\ r \notin Answering(k) /\ r \in Answering(k)'
                => Cardinality(Answering(k)') = Cardinality(Answering(k)) + 1
<1>1. Admitted(k) \ {r} = Admitted(k)' \ {r}
  BY DEF Admitted, KeyOf
<1>2. Answering(k) \ {r} = Answering(k)' \ {r}
  BY DEF Answering, KeyOf
<1>3. /\ IsFiniteSet(Admitted(k)) /\ IsFiniteSet(Answering(k))
      /\ IsFiniteSet(Admitted(k)') /\ IsFiniteSet(Answering(k)')
  BY RequestSets, RequestSetsNext
<1>4. QED BY <1>1, <1>2, <1>3, OneElement

\* When no request moves, the counts stay.
LEMMA NoneMoves ==
    ASSUME NEW k, req' = req
    PROVE  Admitted(k)' = Admitted(k) /\ Answering(k)' = Answering(k)
BY DEF Admitted, Answering, KeyOf

-----------------------------------------------------------------------------
LEMMA InitIInv == Init => IInv
<1> SUFFICES ASSUME Init PROVE IInv
  OBVIOUS
<1>1. TypeOK
  BY TranslationQuotaAssumption DEF Init, TypeOK, Request, Phase, Month, NoMonth
<1>2. KnownInv /\ RowInv /\ OvershootBounded
  BY DEF Init, KnownInv, RowInv, OvershootBounded
<1>3. ASSUME NEW k \in Key PROVE answered[k] + Cardinality(Answering(k)) <= Used(k)
  <2>1. Answering(k) = {}
    BY DEF Init, Answering
  <2>2. Cardinality(Answering(k)) = 0
    BY <2>1, FS_EmptySet
  <2> QED BY <2>2 DEF Init, Used
<1> QED BY <1>1, <1>2, <1>3 DEF IInv, BackedInv

LEMMA TypeStep ==
    ASSUME TypeOK, KnownInv, RowInv, [Next]_vars
    PROVE  TypeOK'
<1> USE TranslationQuotaAssumption
<1>1. ASSUME NEW u \in User, InsertInitial(u) PROVE TypeOK'
  BY <1>1 DEF InsertInitial, TypeOK, NewRow, Row, Key
<1>2. ASSUME NEW u \in User, ProChanges(u) PROVE TypeOK'
  BY <1>2 DEF ProChanges, TypeOK
<1>3. ASSUME NEW r \in Req, NEW u \in User, TranslateBegin(r, u) PROVE TypeOK'
  BY <1>3 DEF TranslateBegin, TypeOK, Request, Phase
<1>4. ASSUME NEW r \in Req, NEW u \in User, ViewBegin(r, u) PROVE TypeOK'
  BY <1>4 DEF ViewBegin, TypeOK, Request, Phase
<1>5. ASSUME NEW r \in Req, NEW p \in Month, EnsureForTranslate(r, p) PROVE TypeOK'
  <2>1. row' \in [Key -> Row \cup {NoRow}]
    BY <1>5 DEF EnsureForTranslate, TypeOK, NewRow, Row, Key, Request
  <2>2. req' \in [Req -> Request]
    BY <1>5 DEF EnsureForTranslate, Finish, TypeOK, Request, Phase
  <2> QED BY <1>5, <2>1, <2>2 DEF EnsureForTranslate, TypeOK
<1>6. ASSUME NEW r \in Req, NEW p \in Month, EnsureForView(r, p) PROVE TypeOK'
  <2>1. row' \in [Key -> Row \cup {NoRow}]
    BY <1>6 DEF EnsureForView, TypeOK, NewRow, Row, Key, Request
  <2>2. req' \in [Req -> Request]
    BY <1>6 DEF EnsureForView, Finish, TypeOK, Request, Phase
  <2> QED BY <1>6, <2>1, <2>2 DEF EnsureForView, TypeOK
<1>7. ASSUME NEW r \in Req, TranslateOk(r) PROVE TypeOK'
  BY <1>7 DEF TranslateOk, Goto, TypeOK, Request, Phase
<1>8. ASSUME NEW r \in Req, TranslateFails(r) PROVE TypeOK'
  BY <1>8 DEF TranslateFails, Finish, TypeOK, Request, Phase
<1>9. ASSUME NEW r \in Req, IncrementUsedCount(r) PROVE TypeOK'
  <2>1. KeyOf(r) \in Key /\ row[KeyOf(r)] \in Row
    BY <1>9 DEF IncrementUsedCount, RowInv, TypeOK
  <2>2. row' \in [Key -> Row \cup {NoRow}]
    BY <1>9, <2>1 DEF IncrementUsedCount, TypeOK, Row
  <2> QED BY <1>9, <2>2 DEF IncrementUsedCount, Goto, TypeOK, Request, Phase
<1>10. ASSUME NEW r \in Req, IncrementFails(r) PROVE TypeOK'
  <2>1. KeyOf(r) \in Key /\ row[KeyOf(r)] \in Row
    BY <1>10 DEF IncrementFails, RowInv, TypeOK
  <2>2. row' \in [Key -> Row \cup {NoRow}]
    BY <1>10, <2>1 DEF IncrementFails, TypeOK, Row
  <2> QED BY <1>10, <2>2 DEF IncrementFails, Finish, TypeOK, Request, Phase
<1>11. ASSUME NEW r \in Req, Answer(r) PROVE TypeOK'
  <2>1. req' \in [Req -> Request]
    <3>1. req' = [req EXCEPT ![r].at = "idle", ![r].period = NoMonth]
      BY <1>11 DEF Answer, Finish
    <3> QED BY <3>1 DEF TypeOK, Request, Phase
  <2>2. answered' \in [Key -> Nat]
    <3>1. CASE req[r].period = NoMonth
      BY <1>11, <3>1 DEF Answer, TypeOK
    <3>2. CASE req[r].period # NoMonth
      <4>1. KeyOf(r) \in Key
        BY <3>2 DEF TypeOK, Request, Key, KeyOf
      <4>2. answered[KeyOf(r)] + 1 \in Nat
        BY <4>1 DEF TypeOK
      <4> QED BY <1>11, <3>2, <4>1, <4>2 DEF Answer, TypeOK
    <3> QED BY <3>1, <3>2
  <2> QED BY <1>11, <2>1, <2>2 DEF Answer, TypeOK
<1>12. ASSUME NEW r \in Req, Disconnect(r) PROVE TypeOK'
  BY <1>12 DEF Disconnect, Finish, TypeOK, Request, Phase
<1>13. CASE Restart
  BY <1>13 DEF Restart, TypeOK, Request, Phase
<1>14. CASE NextMonth
  BY <1>14 DEF NextMonth, TypeOK, Month
<1>15. CASE UNCHANGED vars
  BY <1>15 DEF vars, TypeOK
<1> QED BY <1>1, <1>2, <1>3, <1>4, <1>5, <1>6, <1>7, <1>8, <1>9, <1>10, <1>11, <1>12,
           <1>13, <1>14, <1>15 DEF Next

-----------------------------------------------------------------------------
(* One lemma per kind of step.  Rest is what TypeStep leaves to prove. *)
Rest == KnownInv /\ RowInv /\ OvershootBounded /\ BackedInv

\* Every row that exists is a record of two numbers.
LEMMA RowTyped ==
    ASSUME TypeOK, NEW k \in Key, row[k] # NoRow
    PROVE  row[k].limit \in Nat /\ row[k].used \in Nat
BY DEF TypeOK, Row

\* The counts of key k when no request moves and row k stays.
LEMMA KeyStays ==
    ASSUME IInv, NEW k \in Key, row'[k] = row[k], answered'[k] = answered[k],
           Cardinality(Admitted(k)') <= Cardinality(Admitted(k)),
           row[k] # NoRow /\ Admitted(k) = {} => Admitted(k)' = {},
           Cardinality(Answering(k)') <= Cardinality(Answering(k))
    PROVE  /\ row'[k] # NoRow =>
                IF row'[k].limit = 0 THEN row'[k].used = 0 /\ Admitted(k)' = {}
                ELSE row'[k].used + Cardinality(Admitted(k)')
                       <= row'[k].limit + Cardinality(Req) - 1
           /\ answered'[k] + Cardinality(Answering(k)') <= Used(k)'
<1>1. /\ Cardinality(Admitted(k)) \in Nat /\ Cardinality(Answering(k)) \in Nat
      /\ Cardinality(Admitted(k)') \in Nat /\ Cardinality(Answering(k)') \in Nat
      /\ Cardinality(Req) \in Nat
  BY RequestSets, RequestSetsNext
<1>2. row[k] # NoRow => row[k].limit \in Nat /\ row[k].used \in Nat
  BY RowTyped DEF IInv
<1>3. answered[k] \in Nat /\ answered[k] + Cardinality(Answering(k)) <= Used(k)
  BY DEF IInv, TypeOK, BackedInv
<1> QED BY <1>1, <1>2, <1>3 DEF IInv, OvershootBounded, Used

\* A new user's row: nothing was counted for that user before.
LEMMA RegisterStep ==
    ASSUME IInv, NEW u \in User, InsertInitial(u), TypeOK'
    PROVE  Rest'
<1>1. row[<<u, month>>] = NoRow /\ <<u, month>> \in Key
  BY DEF InsertInitial, IInv, KnownInv, TypeOK, Key
<1>2. \A k \in Key : row'[k] = IF k = <<u, month>> THEN NewRow ELSE row[k]
  BY <1>1 DEF InsertInitial, IInv, TypeOK
<1>3. NewRow # NoRow /\ NewRow.used = 0 /\ NewRow.limit \in Nat
  BY TranslationQuotaAssumption DEF NewRow, Row, IInv, TypeOK
<1>4. KnownInv' /\ RowInv'
  BY <1>1, <1>2, <1>3 DEF InsertInitial, IInv, KnownInv, RowInv, Key, KeyOf
<1>5. ASSUME NEW k \in Key
      PROVE  /\ row'[k] # NoRow =>
                   IF row'[k].limit = 0 THEN row'[k].used = 0 /\ Admitted(k)' = {}
                   ELSE row'[k].used + Cardinality(Admitted(k)')
                          <= row'[k].limit + Cardinality(Req) - 1
             /\ answered'[k] + Cardinality(Answering(k)') <= Used(k)'
  <2>1. /\ Admitted(k)' = Admitted(k) /\ Answering(k)' = Answering(k)
        /\ answered'[k] = answered[k]
    BY NoneMoves DEF InsertInitial
  <2>2. CASE k # <<u, month>>
    <3>1. Cardinality(Admitted(k)) \in Nat /\ Cardinality(Answering(k)) \in Nat
      BY RequestSets
    <3> QED BY <1>2, <2>1, <2>2, <3>1, KeyStays
  <2>3. CASE k = <<u, month>>
    <3>1. Admitted(k) = {} /\ Answering(k) = {}
      BY <2>3, <1>1 DEF IInv, RowInv, Admitted, Answering
    <3>2. /\ Cardinality(Admitted(k)) = 0 /\ Cardinality(Answering(k)) = 0
          /\ Cardinality(Req) \in Nat
      BY <3>1, FS_EmptySet, RequestSets
    <3>3. answered[k] + 0 <= 0 /\ answered[k] \in Nat
      BY <3>2, <2>3, <1>1 DEF IInv, BackedInv, Used, TypeOK
    <3>4. row'[k] = NewRow
      BY <1>2, <2>3
    <3>5. NewRow.limit # 0 => 0 + 0 <= NewRow.limit + Cardinality(Req) - 1
      BY <3>2, <1>3
    <3> QED BY <1>3, <2>1, <3>1, <3>2, <3>3, <3>4, <3>5 DEF Used
  <2> QED BY <2>2, <2>3
<1> QED BY <1>4, <1>5 DEF Rest, OvershootBounded, BackedInv

\* When no row and no delivery changes and the counts do not grow, all stays.
LEMMA QuietStep ==
    ASSUME IInv, UNCHANGED <<row, answered, known>>, KnownInv', RowInv',
           \A k \in Key : /\ Cardinality(Admitted(k)') <= Cardinality(Admitted(k))
                          /\ row[k] # NoRow /\ Admitted(k) = {} => Admitted(k)' = {}
                          /\ Cardinality(Answering(k)') <= Cardinality(Answering(k))
    PROVE  Rest'
<1>1. ASSUME NEW k \in Key
      PROVE  /\ row'[k] # NoRow =>
                   IF row'[k].limit = 0 THEN row'[k].used = 0 /\ Admitted(k)' = {}
                   ELSE row'[k].used + Cardinality(Admitted(k)')
                          <= row'[k].limit + Cardinality(Req) - 1
             /\ answered'[k] + Cardinality(Answering(k)') <= Used(k)'
  BY KeyStays
<1> QED BY <1>1 DEF Rest, OvershootBounded, BackedInv

\* The table and the requests are left alone.
LEMMA EnvironmentStep ==
    ASSUME IInv, UNCHANGED <<row, answered, known, req>>
    PROVE  Rest'
<1>1. KnownInv' /\ RowInv'
  BY DEF IInv, KnownInv, RowInv, KeyOf
<1>2. ASSUME NEW k \in Key
      PROVE  /\ Cardinality(Admitted(k)') <= Cardinality(Admitted(k))
             /\ row[k] # NoRow /\ Admitted(k) = {} => Admitted(k)' = {}
             /\ Cardinality(Answering(k)') <= Cardinality(Answering(k))
  <2>1. Admitted(k)' = Admitted(k) /\ Answering(k)' = Answering(k)
    BY NoneMoves
  <2>2. Cardinality(Admitted(k)) \in Nat /\ Cardinality(Answering(k)) \in Nat
    BY RequestSets
  <2> QED BY <2>1, <2>2
<1> QED BY <1>1, <1>2, QuietStep

\* A restart forgets every request.
LEMMA RestartStep ==
    ASSUME IInv, Restart
    PROVE  Rest'
<1>1. \A r \in Req : req'[r].at = "idle"
  BY DEF Restart, IInv, TypeOK, Request
<1>2. KnownInv' /\ RowInv'
  BY <1>1 DEF Restart, IInv, KnownInv, RowInv
<1>3. ASSUME NEW k \in Key
      PROVE  /\ Cardinality(Admitted(k)') <= Cardinality(Admitted(k))
             /\ row[k] # NoRow /\ Admitted(k) = {} => Admitted(k)' = {}
             /\ Cardinality(Answering(k)') <= Cardinality(Answering(k))
  <2>1. Admitted(k)' = {} /\ Answering(k)' = {}
    BY <1>1 DEF Admitted, Answering
  <2>2. Cardinality(Admitted(k)) \in Nat /\ Cardinality(Answering(k)) \in Nat
    BY RequestSets
  <2> QED BY <2>1, <2>2, FS_EmptySet
<1> QED BY <1>2, <1>3, QuietStep DEF Restart

\* One request leaves the counts, or stays out of them.
LEMMA LeaveStep ==
    ASSUME IInv, NEW r \in Req, UNCHANGED <<row, answered, known>>,
           \A o \in Req \ {r} : req'[o] = req[o],
           KnownInv', RowInv',
           \A k \in Key : /\ r \in Admitted(k)' => r \in Admitted(k)
                          /\ r \in Answering(k)' => r \in Answering(k)
    PROVE  Rest'
<1>1. ASSUME NEW k \in Key
      PROVE  /\ Cardinality(Admitted(k)') <= Cardinality(Admitted(k))
             /\ row[k] # NoRow /\ Admitted(k) = {} => Admitted(k)' = {}
             /\ Cardinality(Answering(k)') <= Cardinality(Answering(k))
  <2>1. Cardinality(Admitted(k)) \in Nat /\ Cardinality(Answering(k)) \in Nat
    BY RequestSets
  <2>2. Admitted(k)' \ {r} = Admitted(k) \ {r}
    BY DEF Admitted, KeyOf
  <2> QED BY <2>1, <2>2, OneMoves
<1> QED BY <1>1, QuietStep

\* The steps of a request that leave the table and the deliveries alone.
LEMMA RequestStep ==
    ASSUME IInv, TypeOK', NEW r \in Req,
           \/ \E u \in User : TranslateBegin(r, u) \/ ViewBegin(r, u)
           \/ TranslateOk(r)
           \/ TranslateFails(r)
           \/ Disconnect(r)
    PROVE  Rest'
<1> USE DEF IInv, KnownInv, RowInv, TypeOK, KeyOf, Key, Month, NoMonth, Admitted, Answering,
            Goto, Finish
<1>1. ASSUME NEW u \in User, TranslateBegin(r, u) PROVE Rest'
  BY <1>1, LeaveStep DEF TranslateBegin
<1>2. ASSUME NEW u \in User, ViewBegin(r, u) PROVE Rest'
  BY <1>2, LeaveStep DEF ViewBegin
<1>3. CASE TranslateOk(r)
  <2>1. /\ \A o \in Req \ {r} : req'[o] = req[o]
        /\ req[r].at = "provider" /\ UNCHANGED <<row, answered, known>>
        /\ req'[r].user = req[r].user /\ req'[r].period = req[r].period
        /\ req'[r].at = IF req[r].period = NoMonth THEN "answer" ELSE "charge"
    BY <1>3 DEF TranslateOk, Request
  <2>2. KnownInv' /\ RowInv'
    BY <2>1 DEF Request
  <2>3. ASSUME NEW k \in Key
        PROVE  /\ r \in Admitted(k)' => r \in Admitted(k)
               /\ r \in Answering(k)' => r \in Answering(k)
    BY <2>1
  <2> HIDE DEF IInv, KnownInv, RowInv, TypeOK, Admitted, Answering
  <2> QED BY <2>1, <2>2, <2>3, LeaveStep
<1>4. CASE TranslateFails(r)
  BY <1>4, LeaveStep DEF TranslateFails
<1>5. CASE Disconnect(r)
  BY <1>5, LeaveStep DEF Disconnect
<1> QED BY <1>1, <1>2, <1>3, <1>4, <1>5

\* Without a row nothing is admitted, answered or delivered.
LEMMA FreshKey ==
    ASSUME IInv, NEW k \in Key, row[k] = NoRow
    PROVE  /\ Admitted(k) = {} /\ Answering(k) = {} /\ answered[k] = 0
           /\ Cardinality(Admitted(k)) = 0 /\ Cardinality(Answering(k)) = 0
<1>1. Admitted(k) = {} /\ Answering(k) = {}
  BY DEF IInv, RowInv, Admitted, Answering
<1>2. Cardinality(Admitted(k)) = 0 /\ Cardinality(Answering(k)) = 0
  BY <1>1, FS_EmptySet
<1>3. answered[k] \in Nat /\ answered[k] + 0 <= 0
  BY <1>2 DEF IInv, BackedInv, Used, TypeOK
<1> QED BY <1>1, <1>2, <1>3

\* The look at the allowance: the row is there afterwards, and the request is
\* let through only on a row with something left.
LEMMA EnsureStep ==
    ASSUME IInv, TypeOK', NEW r \in Req, NEW p \in Month,
           EnsureForTranslate(r, p) \/ EnsureForView(r, p)
    PROVE  Rest'
<1> DEFINE e == <<req[r].user, p>>
<1>1. e \in Key /\ req[r].user \in known
  BY DEF EnsureForTranslate, EnsureForView, IInv, TypeOK, KnownInv, Request, Key
<1>2. PICK q \in Row : q = IF row[e] = NoRow THEN NewRow ELSE row[e]
  <2>1. NewRow \in Row
    BY TranslationQuotaAssumption DEF NewRow, Row, IInv, TypeOK
  <2>2. (IF row[e] = NoRow THEN NewRow ELSE row[e]) \in Row
    BY <1>1, <2>1 DEF IInv, TypeOK
  <2> QED BY <2>2
<1>3. q # NoRow /\ q.limit \in Nat /\ q.used \in Nat
  BY <1>2, TranslationQuotaAssumption DEF Row
<1>4. \A k \in Key : row'[k] = IF k = e THEN q ELSE row[k]
  BY <1>1, <1>2 DEF EnsureForTranslate, EnsureForView, IInv, TypeOK
<1>5. /\ \A o \in Req \ {r} : req'[o] = req[o]
      /\ UNCHANGED <<answered, known>>
      /\ req'[r].at = "idle" \/ (req'[r].at = "provider" /\ KeyOf(r)' = e /\ q.used < q.limit)
      /\ req'[r].at \in {"idle", "provider"} /\ req'[r].user = req[r].user
      /\ req[r].at \in {"view", "ensure"}
  <2>1. r \in DOMAIN req /\ row'[e] = q /\ req[r] \in Request
    BY <1>1, <1>4 DEF IInv, TypeOK
  <2>2. CASE EnsureForView(r, p)
    BY <2>1, <2>2 DEF EnsureForView, Finish, IInv, TypeOK, Request
  <2>3. CASE EnsureForTranslate(r, p)
    <3>1. CASE q.used < q.limit
      <4>1. req' = [req EXCEPT ![r].at = "provider", ![r].period = p]
        BY <2>1, <2>3, <3>1 DEF EnsureForTranslate
      <4> QED BY <2>1, <2>3, <3>1, <4>1 DEF EnsureForTranslate, KeyOf, IInv, TypeOK, Request
    <3>2. CASE ~(q.used < q.limit)
      <4>1. Finish(r)
        BY <2>1, <2>3, <3>2 DEF EnsureForTranslate
      <4> QED BY <2>1, <2>3, <4>1 DEF EnsureForTranslate, Finish, IInv, TypeOK, Request
    <3> QED BY <3>1, <3>2
  <2> QED BY <2>2, <2>3
<1>6. KnownInv'
  BY <1>1, <1>3, <1>4, <1>5 DEF IInv, KnownInv
<1>7. RowInv'
  BY <1>1, <1>3, <1>4, <1>5 DEF IInv, RowInv, KeyOf
<1>8. ASSUME NEW k \in Key
      PROVE  /\ row'[k] # NoRow =>
                   IF row'[k].limit = 0 THEN row'[k].used = 0 /\ Admitted(k)' = {}
                   ELSE row'[k].used + Cardinality(Admitted(k)')
                          <= row'[k].limit + Cardinality(Req) - 1
             /\ answered'[k] + Cardinality(Answering(k)') <= Used(k)'
  <2>1. r \notin Admitted(k) /\ r \notin Answering(k) /\ r \notin Answering(k)'
    BY <1>5 DEF Admitted, Answering
  <2>2. Cardinality(Answering(k)') = Cardinality(Answering(k)) /\ answered'[k] = answered[k]
    BY <1>5, <2>1, OneMoves
  <2>3. /\ Cardinality(Admitted(k)) \in Nat /\ Cardinality(Answering(k)) \in Nat
        /\ Cardinality(Admitted(k)') \in Nat /\ Cardinality(Admitted(k)') <= Cardinality(Req)
        /\ Cardinality(Req) \in Nat
    BY RequestSets, RequestSetsNext
  <2>4. CASE k # e
    <3>1. r \notin Admitted(k)'
      BY <1>5, <2>4 DEF Admitted
    <3>2. Cardinality(Admitted(k)') = Cardinality(Admitted(k)) /\ Admitted(k)' = Admitted(k)
      <4>1. Admitted(k)' = Admitted(k)
        BY <1>5, <2>1, <3>1 DEF Admitted, KeyOf
      <4> QED BY <4>1
    <3>3. row'[k] = row[k]
      BY <1>4, <2>4
    <3> QED BY <2>2, <2>3, <3>2, <3>3, KeyStays
  <2>5. CASE k = e
    <3>1. row'[k] = q
      BY <1>4, <2>5
    <3>2. answered[k] + Cardinality(Answering(k)) <= q.used
      <4>1. CASE row[k] = NoRow
        BY <4>1, <1>3, FreshKey
      <4>2. CASE row[k] # NoRow
        BY <4>2, <1>2, <2>5 DEF IInv, BackedInv, Used
      <4> QED BY <4>1, <4>2
    <3>3. CASE r \in Admitted(k)'
      <4>1. q.used < q.limit
        BY <1>5, <3>3 DEF Admitted
      <4> QED BY <1>3, <2>2, <2>3, <3>1, <3>2, <4>1 DEF Used
    <3>4. CASE r \notin Admitted(k)'
      <4>1. Admitted(k)' = Admitted(k)
        BY <1>5, <2>1, <3>4 DEF Admitted, KeyOf
      <4>2. IF q.limit = 0 THEN q.used = 0 /\ Admitted(k) = {}
            ELSE q.used + Cardinality(Admitted(k)) <= q.limit + Cardinality(Req) - 1
        <5>1. CASE row[k] = NoRow
          <6>1. q.used = 0
            BY <1>2, <2>5, <5>1 DEF NewRow
          <6>2. Admitted(k) = {} /\ Cardinality(Admitted(k)) = 0
            BY <5>1, FreshKey
          <6>3. q.limit \in Nat /\ Cardinality(Req) \in Nat
            BY <1>3, <2>3
          <6> HIDE DEF e
          <6> QED BY <6>1, <6>2, <6>3
        <5>2. CASE row[k] # NoRow
          BY <5>2, <1>2, <2>5 DEF IInv, OvershootBounded
        <5> QED BY <5>1, <5>2
      <4> QED BY <1>3, <2>2, <3>1, <3>2, <4>1, <4>2 DEF Used
    <3> QED BY <3>3, <3>4
  <2> QED BY <2>4, <2>5
<1> QED BY <1>6, <1>7, <1>8 DEF Rest, OvershootBounded, BackedInv

\* The charge, whether or not the handler learns of it: used_count goes up by
\* one as the request leaves the admitted ones.
LEMMA ChargeStep ==
    ASSUME IInv, TypeOK', NEW r \in Req, IncrementUsedCount(r) \/ IncrementFails(r)
    PROVE  Rest'
<1> DEFINE e == KeyOf(r)
<1>1. e \in Key /\ row[e] # NoRow /\ req[r].user \in known /\ req[r].at = "charge"
  BY DEF IncrementUsedCount, IncrementFails, IInv, KnownInv, RowInv
<1>2. row[e] \in Row /\ row[e].limit \in Nat /\ row[e].used \in Nat
  BY <1>1 DEF IInv, TypeOK, Row
<1>3. PICK n \in {0, 1} :
        /\ row' = [row EXCEPT ![e].used = row[e].used + n]
        /\ req'[r].at = "answer" => n = 1
  <2>1. CASE UNCHANGED row
    <3>1. row = [row EXCEPT ![e].used = row[e].used + 0]
      BY <1>1, <1>2 DEF IInv, TypeOK, Row
    <3>2. req'[r].at # "answer"
      <4>1. CASE IncrementFails(r)
        BY <4>1 DEF IncrementFails, Finish, IInv, TypeOK, Request
      <4>2. CASE IncrementUsedCount(r)
        <5>1. row'[e].used = row[e].used + 1
          BY <4>2, <1>1, <1>2 DEF IncrementUsedCount, IInv, TypeOK, Row
        <5> QED BY <5>1, <2>1, <1>2
      <4> QED BY <4>1, <4>2
    <3> QED BY <2>1, <3>1, <3>2
  <2>2. CASE row' = [row EXCEPT ![e].used = row[e].used + 1]
    BY <2>2
  <2> QED BY <2>1, <2>2 DEF IncrementUsedCount, IncrementFails
<1>4. /\ \A o \in Req \ {r} : req'[o] = req[o]
      /\ UNCHANGED <<answered, known>>
      /\ req'[r].at \in {"answer", "idle"} /\ req'[r].user = req[r].user
      /\ req'[r].at = "answer" => KeyOf(r)' = e
  BY DEF IncrementUsedCount, IncrementFails, Goto, Finish, IInv, TypeOK, Request, KeyOf
<1>5. /\ \A k \in Key : k # e => row'[k] = row[k]
      /\ row'[e].limit = row[e].limit /\ row'[e].used = row[e].used + n
      /\ row'[e] \in Row
  BY <1>1, <1>2, <1>3 DEF IInv, TypeOK, Row
<1>6. \A k \in Key : row'[k] = NoRow <=> row[k] = NoRow
  BY <1>1, <1>5, TranslationQuotaAssumption
<1>7. KnownInv'
  BY <1>1, <1>4, <1>6 DEF IInv, KnownInv
<1>8. RowInv'
  BY <1>1, <1>4, <1>6 DEF IInv, RowInv, KeyOf
<1>9. ASSUME NEW k \in Key
      PROVE  /\ row'[k] # NoRow =>
                   IF row'[k].limit = 0 THEN row'[k].used = 0 /\ Admitted(k)' = {}
                   ELSE row'[k].used + Cardinality(Admitted(k)')
                          <= row'[k].limit + Cardinality(Req) - 1
             /\ answered'[k] + Cardinality(Answering(k)') <= Used(k)'
  <2>1. r \notin Admitted(k)' /\ r \notin Answering(k)
    BY <1>1, <1>4 DEF Admitted, Answering
  <2>2. /\ Cardinality(Admitted(k)) \in Nat /\ Cardinality(Answering(k)) \in Nat
        /\ Cardinality(Admitted(k)') \in Nat /\ Cardinality(Answering(k)') \in Nat
        /\ Cardinality(Req) \in Nat
    BY RequestSets, RequestSetsNext
  <2>3. CASE k # e
    <3>1. r \notin Admitted(k) /\ r \notin Answering(k)'
      BY <1>4, <2>3 DEF Admitted, Answering
    <3>2. Admitted(k)' = Admitted(k) /\ Answering(k)' = Answering(k)
      BY <1>4, <2>1, <3>1 DEF Admitted, Answering, KeyOf
    <3>3. row'[k] = row[k] /\ answered'[k] = answered[k]
      BY <1>4, <1>5, <2>3
    <3>4. /\ Cardinality(Admitted(k)') <= Cardinality(Admitted(k))
          /\ Cardinality(Answering(k)') <= Cardinality(Answering(k))
      BY <2>2, <3>2
    <3> QED BY <3>2, <3>3, <3>4, KeyStays
  <2>4. CASE k = e
    <3>1. r \in Admitted(k)
      BY <1>1, <2>4 DEF Admitted
    <3>2. Cardinality(Admitted(k)') = Cardinality(Admitted(k)) - 1
      BY <1>4, <2>1, <3>1, OneMoves
    <3>3. Cardinality(Answering(k)') <= Cardinality(Answering(k)) + n
      <4>1. CASE r \in Answering(k)'
        <5>1. n = 1
          BY <1>3, <4>1 DEF Answering
        <5> QED BY <5>1, <4>1, <1>4, <2>1, <2>2, OneMoves
      <4>2. CASE r \notin Answering(k)'
        BY <4>2, <1>4, <2>1, <2>2, OneMoves
      <4> QED BY <4>1, <4>2
    <3>4. /\ row[k].limit # 0
          /\ row[k].used + Cardinality(Admitted(k)) <= row[k].limit + Cardinality(Req) - 1
      BY <1>1, <2>4, <3>1 DEF IInv, OvershootBounded
    <3>5. /\ answered'[k] = answered[k] /\ answered[k] \in Nat
          /\ answered[k] + Cardinality(Answering(k)) <= row[k].used
      BY <1>1, <1>4, <2>4 DEF IInv, BackedInv, Used, TypeOK
    <3>6. row'[k].limit = row[k].limit /\ row'[k].used = row[k].used + n /\ row'[k] # NoRow
      BY <1>1, <1>5, <1>6, <2>4
    <3>7. row[k].limit \in Nat /\ row[k].used \in Nat
      BY <1>2, <2>4
    <3>8. row'[k].used + Cardinality(Admitted(k)') <= row'[k].limit + Cardinality(Req) - 1
      BY <2>2, <3>2, <3>4, <3>6, <3>7
    <3>9. answered'[k] + Cardinality(Answering(k)') <= row'[k].used
      BY <2>2, <3>3, <3>5, <3>6, <3>7
    <3> QED BY <3>4, <3>6, <3>8, <3>9 DEF Used
  <2> QED BY <2>3, <2>4
<1> QED BY <1>7, <1>8, <1>9 DEF Rest, OvershootBounded, BackedInv

\* The reply: what was about to be delivered is delivered.
LEMMA AnswerStep ==
    ASSUME IInv, TypeOK', NEW r \in Req, Answer(r)
    PROVE  Rest'
<1> DEFINE e == KeyOf(r)
<1>1. /\ \A o \in Req \ {r} : req'[o] = req[o]
      /\ UNCHANGED <<row, known>>
      /\ req[r].at = "answer" /\ req'[r].at = "idle"
  BY DEF Answer, Finish, IInv, TypeOK, Request
<1>2. KnownInv' /\ RowInv'
  BY <1>1 DEF IInv, KnownInv, RowInv, KeyOf
<1>3. \A k \in Key : answered'[k] = IF k = e THEN answered[k] + 1 ELSE answered[k]
  <2>1. CASE req[r].period = NoMonth
    <3>1. e \notin Key
      BY <2>1 DEF Key, KeyOf, Month, NoMonth
    <3> QED BY <2>1, <3>1 DEF Answer
  <2>2. CASE req[r].period # NoMonth
    <3>1. answered' = [answered EXCEPT ![e] = answered[e] + 1]
      BY <2>2 DEF Answer
    <3> QED BY <3>1 DEF IInv, TypeOK
  <2> QED BY <2>1, <2>2
<1>4. ASSUME NEW k \in Key
      PROVE  /\ row'[k] # NoRow =>
                   IF row'[k].limit = 0 THEN row'[k].used = 0 /\ Admitted(k)' = {}
                   ELSE row'[k].used + Cardinality(Admitted(k)')
                          <= row'[k].limit + Cardinality(Req) - 1
             /\ answered'[k] + Cardinality(Answering(k)') <= Used(k)'
  <2>1. r \notin Admitted(k) /\ r \notin Admitted(k)' /\ r \notin Answering(k)'
    BY <1>1 DEF Admitted, Answering
  <2>2. Admitted(k)' = Admitted(k)
    BY <1>1, <2>1 DEF Admitted, KeyOf
  <2>3. Cardinality(Answering(k)) \in Nat /\ Cardinality(Answering(k)') \in Nat
    BY RequestSets, RequestSetsNext
  <2>4. answered'[k] + Cardinality(Answering(k)') <= answered[k] + Cardinality(Answering(k))
    <3>1. answered[k] \in Nat
      BY DEF IInv, TypeOK
    <3>2. CASE k = e
      <4>1. r \in Answering(k)
        BY <1>1, <3>2 DEF Answering
      <4>2. Cardinality(Answering(k)') = Cardinality(Answering(k)) - 1
        BY <1>1, <2>1, <4>1, OneMoves
      <4> QED BY <1>3, <2>3, <3>1, <3>2, <4>2
    <3>3. CASE k # e
      <4>1. r \notin Answering(k)
        BY <3>3 DEF Answering
      <4>2. Cardinality(Answering(k)') = Cardinality(Answering(k))
        BY <1>1, <2>1, <4>1, OneMoves
      <4> QED BY <1>3, <2>3, <3>1, <3>3, <4>2
    <3> QED BY <3>2, <3>3
  <2>5. Used(k)' = Used(k) /\ Used(k) \in Nat /\ answered'[k] \in Nat /\ answered[k] \in Nat
    BY <1>1 DEF IInv, TypeOK, Row, Used
  <2>6. answered'[k] + Cardinality(Answering(k)') <= Used(k)'
    BY <2>3, <2>4, <2>5 DEF IInv, BackedInv
  <2>7. row'[k] = row[k]
    BY <1>1
  <2> QED BY <2>2, <2>6, <2>7 DEF IInv, OvershootBounded
<1> QED BY <1>2, <1>4 DEF Rest, OvershootBounded, BackedInv

LEMMA NextIInv == IInv /\ [Next]_vars => IInv'
<1> SUFFICES ASSUME IInv, [Next]_vars PROVE IInv'
  OBVIOUS
<1>1. TypeOK'
  BY TypeStep DEF IInv
<1>2. Rest'
  <2>1. ASSUME NEW u \in User, InsertInitial(u) PROVE Rest'
    BY <1>1, <2>1, RegisterStep
  <2>2. CASE NextMonth \/ \E u \in User : ProChanges(u)
    BY <2>2, EnvironmentStep DEF NextMonth, ProChanges
  <2>3. CASE Restart
    BY <2>3, RestartStep
  <2>4. ASSUME NEW r \in Req,
               \/ \E u \in User : TranslateBegin(r, u) \/ ViewBegin(r, u)
               \/ TranslateOk(r) \/ TranslateFails(r) \/ Disconnect(r)
        PROVE  Rest'
    BY <1>1, <2>4, RequestStep
  <2>5. ASSUME NEW r \in Req, NEW p \in Month,
               EnsureForTranslate(r, p) \/ EnsureForView(r, p)
        PROVE  Rest'
    BY <1>1, <2>5, EnsureStep
  <2>6. ASSUME NEW r \in Req, IncrementUsedCount(r) \/ IncrementFails(r) PROVE Rest'
    BY <1>1, <2>6, ChargeStep
  <2>7. ASSUME NEW r \in Req, Answer(r) PROVE Rest'
    BY <1>1, <2>7, AnswerStep
  <2>8. CASE UNCHANGED vars
    BY <2>8, EnvironmentStep DEF vars
  <2> QED BY <2>1, <2>2, <2>3, <2>4, <2>5, <2>6, <2>7, <2>8 DEF Next
<1> QED BY <1>1, <1>2 DEF IInv, Rest

-----------------------------------------------------------------------------
\* The inductive invariant holds of every behaviour of the quota handlers.
THEOREM Inductive == Spec => []IInv
<1> QED BY InitIInv, NextIInv, PTL DEF Spec

\* Types, for every instance: a count never leaves the naturals.
THEOREM TypeCorrect == Spec => []TypeOK
<1>1. IInv => TypeOK
  BY DEF IInv
<1> QED BY <1>1, Inductive, PTL

\* However many requests run at once, they overshoot a month's limit by their
\* number less one at the most, and never a limit of zero.
THEOREM Overshoot == Spec => []OvershootBounded
<1>1. IInv => OvershootBounded
  BY DEF IInv
<1> QED BY <1>1, Inductive, PTL

\* Every translation a free user received was charged to its month.
THEOREM Charged == Spec => []AnswersAreCharged
<1>1. IInv => AnswersAreCharged
  <2> SUFFICES ASSUME IInv, NEW k \in Key, answered[k] > 0
               PROVE  row[k] # NoRow /\ answered[k] <= row[k].used
    BY DEF AnswersAreCharged
  <2>1. answered[k] \in Nat /\ Cardinality(Answering(k)) \in Nat
    BY RequestSets DEF IInv, TypeOK
  <2>2. row[k] # NoRow
    BY FreshKey
  <2>3. answered[k] + Cardinality(Answering(k)) <= row[k].used /\ row[k].used \in Nat
    BY <2>2, RowTyped DEF IInv, BackedInv, Used
  <2> QED BY <2>1, <2>2, <2>3
<1> QED BY <1>1, Inductive, PTL

\* Rows keep their limit and are only ever charged.
THEOREM OnlyCharged == Spec => RowsOnlyCharged
<1>1. IInv /\ [Next]_vars => [RowOnlyCharged]_row
  <2> SUFFICES ASSUME IInv, Next, NEW k \in Key, row[k] # NoRow, row' # row
               PROVE  /\ row'[k] # NoRow /\ row'[k].limit = row[k].limit
                      /\ row'[k].used \in {row[k].used, row[k].used + 1}
    BY DEF RowOnlyCharged, vars
  <2>1. row[k] \in Row
    BY DEF IInv, TypeOK
  <2>2. ASSUME NEW u \in User, InsertInitial(u) PROVE row'[k] = row[k]
    BY <2>2 DEF InsertInitial, IInv, KnownInv, TypeOK, Key
  <2>3. ASSUME NEW r \in Req, NEW p \in Month,
               EnsureForTranslate(r, p) \/ EnsureForView(r, p)
        PROVE  row'[k] = row[k]
    BY <2>3 DEF EnsureForTranslate, EnsureForView, IInv, TypeOK
  <2>4. ASSUME NEW r \in Req, IncrementUsedCount(r) \/ IncrementFails(r)
        PROVE  \/ row'[k] = row[k]
               \/ row'[k] = [row[k] EXCEPT !.used = row[k].used + 1]
    BY <2>4 DEF IncrementUsedCount, IncrementFails, IInv, TypeOK
  <2>5. row'[k] = row[k] \/ row'[k] = [row[k] EXCEPT !.used = row[k].used + 1]
    BY <2>2, <2>3, <2>4 DEF Next, ProChanges, TranslateBegin, ViewBegin, TranslateOk,
       TranslateFails, Answer, Disconnect, Restart, NextMonth
  <2>6. row'[k] \in Row /\ row'[k].limit = row[k].limit
        /\ row'[k].used \in {row[k].used, row[k].used + 1}
    BY <2>1, <2>5 DEF Row
  <2> QED BY <2>6, TranslationQuotaAssumption
<1> QED BY <1>1, Inductive, PTL DEF Spec, RowsOnlyCharged

-----------------------------------------------------------------------------
(* Rate limiters: counting requests by the instant at which they came. *)

Times(q, instants) == Cardinality({n \in DOMAIN q : q[n] \in instants})
Since(a) == {i \in Instant : i >= a}
Until(b) == {i \in Instant : i < b}

\* Instants are numbers.
LEMMA CameAt ==
    ASSUME NEW q \in Seq(Instant)
    PROVE  \A n \in DOMAIN q : q[n] \in Nat
<1>1. Instant \subseteq Nat
  BY OnboardingAssumption DEF Instant
<1>2. \A n \in DOMAIN q : q[n] \in Instant
  OBVIOUS
<1> HIDE DEF Instant
<1> QED
  BY <1>1, <1>2

LEMMA TimesFinite ==
    ASSUME NEW q \in Seq(Instant), NEW S
    PROVE  /\ IsFiniteSet({n \in DOMAIN q : q[n] \in S})
           /\ Times(q, S) \in Nat
<1>1. IsFiniteSet(1..Len(q)) /\ DOMAIN q = 1..Len(q)
  BY FS_Interval
<1>2. IsFiniteSet({n \in DOMAIN q : q[n] \in S})
  BY <1>1, FS_Subset
<1> QED
  BY <1>2, FS_CardinalityType DEF Times

LEMMA TimesNat == \A q \in Seq(Instant) : \A S : Times(q, S) \in Nat
BY TimesFinite

\* No more requests come at fewer instants.
LEMMA TimesFewer ==
    ASSUME NEW q \in Seq(Instant), NEW S, NEW T,
           \A n \in DOMAIN q : q[n] \in S => q[n] \in T
    PROVE  Times(q, S) <= Times(q, T)
<1>1. {n \in DOMAIN q : q[n] \in S} \subseteq {n \in DOMAIN q : q[n] \in T}
  OBVIOUS
<1> QED
  BY <1>1, TimesFinite, FS_Subset DEF Times

LEMMA TimesNone ==
    ASSUME NEW q \in Seq(Instant), NEW S, \A n \in DOMAIN q : q[n] \notin S
    PROVE  Times(q, S) = 0
<1>1. {n \in DOMAIN q : q[n] \in S} = {}
  OBVIOUS
<1> QED
  BY <1>1, FS_EmptySet DEF Times

\* One request more is one more at its instant.
LEMMA TimesAppend ==
    ASSUME NEW q \in Seq(Instant), NEW i \in Instant, NEW S
    PROVE  /\ Append(q, i) \in Seq(Instant)
           /\ Times(Append(q, i), S) = Times(q, S) + IF i \in S THEN 1 ELSE 0
<1> DEFINE r == Append(q, i)
           A == {n \in DOMAIN q : q[n] \in S}
           B == {n \in DOMAIN r : r[n] \in S}
<1>1. /\ r \in Seq(Instant) /\ Len(q) \in Nat /\ DOMAIN q = 1..Len(q)
      /\ DOMAIN r = 1..(Len(q) + 1) /\ r[Len(q) + 1] = i
      /\ \A n \in 1..Len(q) : r[n] = q[n]
  OBVIOUS
<1>2. IsFiniteSet(A) /\ IsFiniteSet(B)
  BY <1>1, TimesFinite
<1>3. A \ {Len(q) + 1} = B \ {Len(q) + 1} /\ Len(q) + 1 \notin A
  BY <1>1
<1>4. Len(q) + 1 \in B <=> i \in S
  BY <1>1
<1> HIDE DEF A, B
<1>5. Cardinality(B) = Cardinality(A) + IF i \in S THEN 1 ELSE 0
  BY <1>2, <1>3, <1>4, OneElement
<1>6. Times(q, S) = Cardinality(A) /\ Times(r, S) = Cardinality(B)
  BY DEF Times, A, B
<1> QED
  BY <1>1, <1>5, <1>6

LEMMA AllOfAppend ==
    ASSUME NEW q \in Seq(Instant), NEW i \in Instant, NEW P,
           \A n \in DOMAIN q : q[n] \in P, i \in P
    PROVE  \A n \in DOMAIN Append(q, i) : Append(q, i)[n] \in P
OBVIOUS

\* What a request, let in at the instant c, adds to those that came and were let
\* in: if it came before, nothing.
Longer(q, came, c) == IF came = c THEN Append(q, c) ELSE q

LEMMA TimesLonger ==
    ASSUME NEW q \in Seq(Instant), NEW c \in Instant, NEW came, NEW S
    PROVE  /\ Longer(q, came, c) \in Seq(Instant)
           /\ Times(Longer(q, came, c), S) <= Times(q, S) + 1
           /\ c \notin S => Times(Longer(q, came, c), S) = Times(q, S)
<1>1. CASE came = c
  <2>1. Longer(q, came, c) = Append(q, c)
    BY <1>1 DEF Longer
  <2> QED
    BY <2>1, TimesAppend, TimesNat
<1>2. CASE came # c
  <2>1. Longer(q, came, c) = q
    BY <1>2 DEF Longer
  <2> QED
    BY <2>1, TimesNat
<1> QED
  BY <1>1, <1>2

\* Limits for whole numbers of windows.
LEMMA Multiples ==
    ASSUME NEW m \in Nat, NEW a \in Int, NEW b \in Int
    PROVE  /\ m * a \in Int /\ m * (a + 1) = m * a + m
           /\ a >= b => m * a >= m * b
OBVIOUS

LEMMA WindowsIn ==
    ASSUME NEW d \in Nat \ {0}, NEW x \in Nat, NEW y \in Nat
    PROVE  /\ x \div d \in Nat
           /\ y >= x => y \div d >= x \div d
           /\ y >= x + d => y \div d >= x \div d + 1
OBVIOUS

-----------------------------------------------------------------------------
(* One counter: the requests q that came and were let in, the entry e of the *)
(* limiter, its limit m, and the restarts r before.                         *)

CountOf(e) == IF e = NoEntry THEN 0 ELSE e.count

\* s is where the window of e began; or, after a restart, an instant of the last
\* window that all that is yet to come has behind it.
WindowOK(q, e, m, r, s) ==
    /\ e # NoEntry => /\ e.reset = s + Window /\ e.count <= m
                      /\ \A n \in DOMAIN q : q[n] <= s + Window
    /\ Times(q, Since(s)) <= CountOf(e) + m * r
    /\ Times(q, Since(s - Window)) <= CountOf(e) + m * (r + 1)

\* For a token issued at a: windows begin at least a window's length and an
\* instant apart, but for restarts.
LifeOK(q, e, m, r, s, a) ==
    /\ a <= s
    /\ Times(q, Until(a + TTL)) <= CountOf(e) + m * (r + (s - a) \div (Window + 1))

\* What Allow makes of an entry.
Opens(e, now, f) == /\ e # NoEntry => now > e.reset
                    /\ f = [count |-> 1, reset |-> now + Window]
Counts(e, m, now, f) == /\ e # NoEntry /\ now <= e.reset /\ e.count < m
                        /\ f = [e EXCEPT !.count = @ + 1]

LEMMA OpensKeeps ==
    ASSUME NEW q \in Seq(Instant), NEW e \in Entry \cup {NoEntry}, NEW f,
           NEW m \in Nat \ {0}, NEW r \in Nat, NEW s \in Nat, NEW now \in Nat,
           NEW c \in Instant, now <= c, s <= c, WindowOK(q, e, m, r, s),
           e = NoEntry => s <= now /\ \A n \in DOMAIN q : q[n] <= now,
           Opens(e, now, f),
           NEW p, p = Longer(q, now, c)
    PROVE  /\ WindowOK(p, f, m, r, now)
           /\ \A a \in Nat : LifeOK(q, e, m, r, s, a) => LifeOK(p, f, m, r, now, a)
<1>1. Window \in Nat /\ NoEntry \notin [count : Nat, reset : Nat]
  BY WindowAssumption
<1>2. /\ f # NoEntry /\ f.count = 1 /\ f.reset = now + Window /\ CountOf(f) = 1
      /\ CountOf(e) \in Nat /\ CountOf(e) <= m
  BY <1>1 DEF Opens, CountOf, Entry, WindowOK
<1>3. p \in Seq(Instant) /\ \A S : Times(p, S) <= Times(q, S) + 1
  <2>1. p \in Seq(Instant)
    BY TimesLonger
  <2>2. ASSUME NEW S PROVE Times(p, S) <= Times(q, S) + 1
    BY TimesLonger
  <2> QED
    BY <2>1, <2>2
<1>4. \A n \in DOMAIN q : q[n] \in Nat
  BY CameAt
<1>5. now >= s /\ (e # NoEntry => now > s + Window)
  BY <1>1 DEF Opens, WindowOK
<1>6. \A n \in DOMAIN p : p[n] <= now + Window
  <2>1. \A n \in DOMAIN q : q[n] \in 0..(now + Window)
    BY <1>1, <1>4, <1>5 DEF WindowOK
  <2>2. now = c => c \in 0..(now + Window)
    BY <1>1
  <2>3. \A n \in DOMAIN p : p[n] \in 0..(now + Window)
    BY <2>1, <2>2, AllOfAppend DEF Longer
  <2> QED
    BY <2>3
<1>7. m * r \in Nat /\ m * (r + 1) = m * r + m
  BY Multiples
<1>8. Times(p, Since(now)) <= 1 + m * r
  <2>1. CASE e = NoEntry
    <3>1. Times(q, Since(now)) <= Times(q, Since(s))
      BY <1>4, <1>5, TimesFewer DEF Since, Instant
    <3>2. Times(q, Since(s)) <= m * r
      BY <1>7, <2>1 DEF WindowOK, CountOf
    <3> QED
      BY <1>3, <1>7, <3>1, <3>2, TimesNat
  <2>2. CASE e # NoEntry
    <3>1. \A n \in DOMAIN q : q[n] \notin Since(now)
      BY <1>1, <1>4, <1>5, <2>2 DEF WindowOK, Since
    <3>2. Times(q, Since(now)) = 0
      BY <3>1, TimesNone
    <3>3. Times(p, Since(now)) <= 1
      BY <1>3, <3>2
    <3> QED
      BY <1>3, <1>7, <3>3, TimesNat
  <2> QED
    BY <2>1, <2>2
<1>9. Times(p, Since(now - Window)) <= 1 + m * (r + 1)
  <2>1. CASE e = NoEntry
    <3>1. Times(q, Since(now - Window)) <= Times(q, Since(s - Window))
      BY <1>1, <1>4, <1>5, TimesFewer DEF Since, Instant
    <3>2. Times(q, Since(s - Window)) <= m * (r + 1)
      BY <1>7, <2>1 DEF WindowOK, CountOf
    <3> QED
      BY <1>3, <1>7, <3>1, <3>2, TimesNat
  <2>2. CASE e # NoEntry
    <3>1. Times(q, Since(now - Window)) <= Times(q, Since(s))
      BY <1>1, <1>4, <1>5, <2>2, TimesFewer DEF Since, Instant
    <3>2. Times(q, Since(s)) <= m + m * r
      BY <1>2, <1>7, TimesNat DEF WindowOK
    <3> QED
      BY <1>3, <1>7, <3>1, <3>2, TimesNat
  <2> QED
    BY <2>1, <2>2
<1>10. ASSUME NEW a \in Nat, LifeOK(q, e, m, r, s, a) PROVE LifeOK(p, f, m, r, now, a)
  <2> DEFINE x == (s - a) \div (Window + 1)
             y == (now - a) \div (Window + 1)
  <2>1. s - a \in Nat /\ now - a \in Nat /\ Window + 1 \in Nat \ {0}
    BY <1>1, <1>5, <1>10 DEF LifeOK
  <2>2. x \in Nat /\ y \in Nat /\ y >= x /\ (e # NoEntry => y >= x + 1)
    BY <1>1, <1>5, <2>1, WindowsIn
  <2>3. Times(q, Until(a + TTL)) <= CountOf(e) + m * (r + x)
    BY <1>10 DEF LifeOK
  <2> HIDE DEF x, y
  <2>4. CountOf(e) + m * (r + x) <= m * (r + y)
    <3>1. /\ m * (r + x) \in Int /\ m * (r + y) \in Int /\ m * (r + y) >= m * (r + x)
          /\ m * ((r + x) + 1) = m * (r + x) + m
          /\ r + y >= (r + x) + 1 => m * (r + y) >= m * ((r + x) + 1)
      BY <2>2, Multiples
    <3>2. CASE e = NoEntry
      BY <3>1, <3>2 DEF CountOf
    <3>3. CASE e # NoEntry
      <4>1. m * (r + y) >= m * (r + x) + m
        BY <2>2, <3>1, <3>3
      <4> QED
        BY <1>2, <3>1, <4>1
    <3> QED
      BY <3>2, <3>3
  <2>5. m * (r + x) \in Int /\ m * (r + y) \in Int
    BY <2>2, Multiples
  <2>6. Times(p, Until(a + TTL)) <= 1 + m * (r + y)
    BY <1>2, <1>3, <2>3, <2>4, <2>5, TimesNat
  <2>7. a <= now
    BY <1>5, <1>10 DEF LifeOK
  <2> QED
    BY <1>2, <2>6, <2>7 DEF LifeOK, y
<1> QED
  BY <1>2, <1>6, <1>8, <1>9, <1>10 DEF WindowOK

LEMMA CountsKeeps ==
    ASSUME NEW q \in Seq(Instant), NEW e \in Entry \cup {NoEntry}, NEW f,
           NEW m \in Nat \ {0}, NEW r \in Nat, NEW s \in Nat, NEW now \in Nat,
           NEW c \in Instant, now <= c, WindowOK(q, e, m, r, s),
           Counts(e, m, now, f),
           NEW p, p = Longer(q, now, c)
    PROVE  /\ WindowOK(p, f, m, r, s)
           /\ \A a \in Nat : LifeOK(q, e, m, r, s, a) => LifeOK(p, f, m, r, s, a)
<1>1. Window \in Nat /\ NoEntry \notin [count : Nat, reset : Nat]
  BY WindowAssumption
<1>2. /\ f # NoEntry /\ f.count = e.count + 1 /\ f.reset = e.reset /\ f.count <= m
      /\ CountOf(e) \in Nat /\ CountOf(f) = CountOf(e) + 1
  BY <1>1 DEF Counts, CountOf, Entry
<1>3. p \in Seq(Instant) /\ \A S : Times(p, S) <= Times(q, S) + 1
  <2>1. p \in Seq(Instant)
    BY TimesLonger
  <2>2. ASSUME NEW S PROVE Times(p, S) <= Times(q, S) + 1
    BY TimesLonger
  <2> QED
    BY <2>1, <2>2
<1>4. \A n \in DOMAIN p : p[n] <= s + Window
  <2>1. e.reset = s + Window /\ \A n \in DOMAIN q : q[n] \in 0..(s + Window)
    BY CameAt DEF WindowOK, Counts
  <2>2. now = c => c \in 0..(s + Window)
    BY <1>1, <2>1 DEF Counts
  <2>3. \A n \in DOMAIN p : p[n] \in 0..(s + Window)
    BY <2>1, <2>2, AllOfAppend DEF Longer
  <2> QED
    BY <2>3
<1>5. m * r \in Int /\ m * (r + 1) \in Int
  BY Multiples
<1>6. WindowOK(p, f, m, r, s)
  <2>1. ASSUME NEW S, NEW b \in Int, Times(q, S) <= CountOf(e) + b
        PROVE  Times(p, S) <= CountOf(f) + b
    BY <1>2, <1>3, <2>1, TimesNat
  <2>2. e.reset = s + Window
    BY DEF Counts, WindowOK
  <2>3. /\ Times(p, Since(s)) <= CountOf(f) + m * r
        /\ Times(p, Since(s - Window)) <= CountOf(f) + m * (r + 1)
    BY <1>5, <2>1 DEF WindowOK
  <2> QED
    BY <1>2, <1>4, <2>2, <2>3 DEF WindowOK
<1>7. ASSUME NEW a \in Nat, LifeOK(q, e, m, r, s, a) PROVE LifeOK(p, f, m, r, s, a)
  <2> DEFINE x == (s - a) \div (Window + 1)
  <2>1. x \in Nat
    <3>1. s - a \in Nat /\ Window + 1 \in Nat \ {0}
      BY <1>1, <1>7 DEF LifeOK
    <3> QED
      BY <3>1, WindowsIn
  <2>2. m * (r + x) \in Int
    BY <2>1, Multiples
  <2> QED
    BY <1>2, <1>3, <1>7, <2>2, TimesNat DEF LifeOK
<1> QED
  BY <1>6, <1>7

\* A restart forgets the count, and costs a limit.
LEMMA ForgetKeeps ==
    ASSUME NEW q \in Seq(Instant), NEW e \in Entry \cup {NoEntry},
           NEW m \in Nat \ {0}, NEW r \in Nat, NEW s \in Nat, WindowOK(q, e, m, r, s)
    PROVE  /\ WindowOK(q, NoEntry, m, r + 1, s)
           /\ \A a \in Nat : LifeOK(q, e, m, r, s, a) => LifeOK(q, NoEntry, m, r + 1, s, a)
<1>1. Window \in Nat
  BY WindowAssumption
<1>2. CountOf(e) \in Nat /\ CountOf(e) <= m /\ CountOf(NoEntry) = 0
  BY DEF CountOf, Entry, WindowOK
<1>3. /\ m * r \in Int /\ m * (r + 1) = m * r + m
      /\ m * ((r + 1) + 1) = m * (r + 1) + m
  BY Multiples
<1>4. WindowOK(q, NoEntry, m, r + 1, s)
  BY <1>2, <1>3, TimesNat DEF WindowOK
<1>5. ASSUME NEW a \in Nat, LifeOK(q, e, m, r, s, a) PROVE LifeOK(q, NoEntry, m, r + 1, s, a)
  <2> DEFINE x == (s - a) \div (Window + 1)
  <2>1. x \in Nat
    BY <1>1, <1>5, WindowsIn DEF LifeOK
  <2> HIDE DEF x
  <2>2. (r + 1) + x = (r + x) + 1
    BY <2>1
  <2>3. m * (r + x) \in Int /\ m * ((r + 1) + x) = m * (r + x) + m
    BY <2>1, <2>2, Multiples
  <2>4. Times(q, Until(a + TTL)) <= CountOf(e) + m * (r + x)
    BY <1>5 DEF LifeOK, x
  <2>5. Times(q, Until(a + TTL)) <= CountOf(NoEntry) + m * ((r + 1) + x)
    BY <1>2, <2>3, <2>4, TimesNat
  <2> QED
    BY <1>5, <2>5 DEF LifeOK, x
<1> QED
  BY <1>4, <1>5

-----------------------------------------------------------------------------
(* The routes behind the limiters: the inductive invariant. *)

TokenKey(t) == <<"token", t>>
Waits(w, k) == job[w].at = "limit" /\ job[w].key = k
Waiting(k) == {w \in Worker : Waits(w, k)}

\* A request is for a token or a device, as its route has it.
JobOK(j, c) ==
    j.at # "idle" =>
       /\ j.key[1] \in {"session", "translate", "token"} => j.whose \in Token
       /\ j.key[1] \in {"event", "device"} => j.whose \in Device
       /\ j.at = "issue" => j.key[1] = "session"
       /\ j.at = "validate" => j.key[1] = "translate"
       /\ j.now # NoTime => j.now <= c
JobInv == \A w \in Worker : JobOK(job[w], clock)

\* Who waits for a new counter has all behind that was let in with the old one.
CounterOK(k, s) ==
    /\ WindowOK(admitted[k], windows[k], LimitOf(k), restarts, s)
    /\ windows[k] = NoEntry =>
          \A w \in Worker : Waits(w, k) /\ job[w].now # NoTime =>
             s <= job[w].now /\ \A n \in DOMAIN admitted[k] : admitted[k][n] <= job[w].now
    /\ \A t \in Token : k = TokenKey(t) /\ issued[t] # NoTime =>
          LifeOK(admitted[k], windows[k], LimitOf(k), restarts, s, issued[t])
CounterInv ==
    \A k \in LimitKey :
       /\ \A n \in DOMAIN admitted[k] : admitted[k][n] <= clock
       /\ LimitOf(k) > 0 => \E s \in 0..clock : CounterOK(k, s)

UnissuedOK(t) ==
    /\ admitted[TokenKey(t)] = <<>> /\ rows[t] = NoToken /\ windows[TokenKey(t)] = NoEntry
    /\ \A w \in Worker : ~Waits(w, TokenKey(t))

\* A request that passed the check in time can be late at the limiter, but only
\* one of each worker.
Late(t) == Times(admitted[TokenKey(t)], Since(issued[t] + TTL))
LateOK(t) ==
    clock >= issued[t] + TTL =>
       Late(t) + Cardinality(Waiting(TokenKey(t))) <= Cardinality(Worker)

InLife(t) == Times(admitted[TokenKey(t)], Until(issued[t] + TTL))
MostWindows == (TTL + Window) \div (Window + 1)
IssuedOK(t) ==
    /\ issued[t] <= clock /\ rows[t] \in {issued[t] + TTL, NoToken}
    /\ rows[t] = NoToken => clock > issued[t] + TTL
    /\ \A n \in DOMAIN admitted[TokenKey(t)] : admitted[TokenKey(t)][n] >= issued[t]
    /\ TokenLimit > 0 => InLife(t) <= TokenLimit * (MostWindows + restarts)
    /\ LateOK(t)
TokenInv == \A t \in Token : IF issued[t] = NoTime THEN UnissuedOK(t) ELSE IssuedOK(t)

OnboardingInv == OnboardingTypeOK /\ JobInv /\ CounterInv /\ TokenInv

\* The keys of the limiters, and their limits.
LEMMA Keys ==
    /\ \A k \in LimitKey : /\ LimitOf(k) \in Nat
                           /\ k[1] \in {"session", "translate", "token", "event", "device"}
    /\ \A t \in Token : TokenKey(t) \in LimitKey /\ LimitOf(TokenKey(t)) = TokenLimit
    /\ \A t \in Token, u \in Token : TokenKey(t) = TokenKey(u) => t = u
<1>1. /\ {SessionLimit, TranslateLimit, TokenLimit, EventLimit, DeviceLimit} \subseteq Nat
  BY OnboardingAssumption
<1>2. ASSUME NEW k \in LimitKey
      PROVE  k[1] \in {"session", "translate", "token", "event", "device"}
  BY DEF LimitKey
<1>3. ASSUME NEW k \in LimitKey PROVE LimitOf(k) \in Nat
  BY <1>1, <1>2 DEF LimitOf
<1>4. \A t \in Token : TokenKey(t) \in LimitKey /\ LimitOf(TokenKey(t)) = TokenLimit
  BY DEF LimitKey, TokenKey, LimitOf
<1>5. \A t \in Token, u \in Token : TokenKey(t) = TokenKey(u) => t = u
  BY DEF TokenKey
<1> QED
  BY <1>2, <1>3, <1>4, <1>5

LEMMA Requests ==
    ASSUME NEW j \in Job \cup {Idle}
    PROVE  /\ j.at # "idle" <=> j \in Job
           /\ j.at \in {"idle", "limit", "issue", "validate"}
BY DEF Job, Idle

LEMMA OnboardingTyped ==
    ASSUME OnboardingTypeOK
    PROVE  /\ clock \in Nat /\ clock \in Instant /\ restarts \in Nat
           /\ \A k \in LimitKey : /\ admitted[k] \in Seq(Instant)
                                  /\ windows[k] \in Entry \cup {NoEntry}
           /\ \A t \in Token : issued[t] # NoTime => issued[t] \in Nat
           /\ \A w \in Worker : /\ job[w] \in Job \cup {Idle}
                                /\ job[w].at # "idle" /\ job[w].now # NoTime => job[w].now \in Nat
<1>1. clock \in Instant /\ clock \in Nat /\ restarts \in Nat
  BY OnboardingAssumption DEF OnboardingTypeOK, Instant
<1>2. \A k \in LimitKey : admitted[k] \in Seq(Instant) /\ windows[k] \in Entry \cup {NoEntry}
  BY DEF OnboardingTypeOK, WindowTypeOK
<1>3. \A t \in Token : issued[t] # NoTime => issued[t] \in Nat
  BY DEF OnboardingTypeOK, Instant
<1>4. ASSUME NEW w \in Worker
      PROVE  /\ job[w] \in Job \cup {Idle}
             /\ job[w].at # "idle" /\ job[w].now # NoTime => job[w].now \in Nat
  <2>1. job[w] \in Job \cup {Idle}
    BY DEF OnboardingTypeOK
  <2>2. \A j \in Job : j.now \in Instant \cup {NoTime}
    BY DEF Job
  <2> QED
    BY <2>1, <2>2, Requests DEF Instant
<1> QED
  BY <1>1, <1>2, <1>3, <1>4

LEMMA WorkersFinite ==
    /\ Cardinality(Worker) \in Nat
    /\ \A S \in SUBSET Worker : IsFiniteSet(S) /\ Cardinality(S) \in Nat
                                  /\ Cardinality(S) <= Cardinality(Worker)
<1>1. IsFiniteSet(Worker)
  BY OnboardingAssumption
<1> QED
  BY <1>1, FS_Subset, FS_CardinalityType

LEMMA OnboardingInitInv == OnboardingInit => OnboardingInv
<1> SUFFICES ASSUME OnboardingInit PROVE OnboardingInv
  OBVIOUS
<1>1. OnboardingTypeOK
  BY OnboardingAssumption
  DEF OnboardingInit, OnboardingTypeOK, WindowInit, WindowTypeOK, Instant
<1>2. JobInv
  BY DEF OnboardingInit, JobInv, JobOK, Idle
<1>3. ASSUME NEW k \in LimitKey
      PROVE  /\ \A n \in DOMAIN admitted[k] : admitted[k][n] <= clock
             /\ \E s \in 0..clock : CounterOK(k, s)
  <2>1. admitted[k] = <<>> /\ windows[k] = NoEntry /\ clock = 0 /\ restarts = 0
    BY <1>3 DEF OnboardingInit, WindowInit
  <2>2. \A S : Times(admitted[k], S) = 0
    <3>1. <<>> \in Seq(Instant) /\ \A S : \A n \in DOMAIN <<>> : <<>>[n] \notin S
      OBVIOUS
    <3> QED
      BY <2>1, <3>1, TimesNone
  <2>3. LimitOf(k) * 0 \in Nat /\ LimitOf(k) * 1 \in Nat
    BY Keys
  <2>4. WindowOK(admitted[k], windows[k], LimitOf(k), restarts, 0)
    BY <2>1, <2>2, <2>3 DEF WindowOK, CountOf
  <2>5. CounterOK(k, 0)
    BY <2>4 DEF CounterOK, OnboardingInit, Waits, Idle
  <2> QED
    BY <2>1, <2>5
<1>4. ASSUME NEW t \in Token PROVE issued[t] = NoTime /\ UnissuedOK(t)
  BY Keys DEF OnboardingInit, WindowInit, UnissuedOK, Waits, Idle
<1> QED
  BY <1>1, <1>2, <1>3, <1>4 DEF OnboardingInv, CounterInv, TokenInv

-----------------------------------------------------------------------------
(* Every step keeps it. *)

\* A request goes on to b, and nothing else changes: one in front of a limiter
\* has not read the time or reads it now, and one in front of the limiter of a
\* token that is no longer usable was there before.
LEMMA JobStep ==
    ASSUME OnboardingInv, NEW w \in Worker, NEW b \in Job \cup {Idle},
           job' = [job EXCEPT ![w] = b],
           UNCHANGED <<windows, rows, clock, issued, admitted, restarts>>,
           JobOK(b, clock),
           b.at = "limit" => b.now \in {NoTime, clock},
           \A t \in Token : b.at = "limit" /\ b.key = TokenKey(t) =>
              issued[t] # NoTime /\ (clock < issued[t] + TTL \/ Waits(w, TokenKey(t)))
    PROVE  OnboardingInv'
<1> USE DEF OnboardingInv
<1>1. OnboardingTypeOK'
  BY DEF OnboardingTypeOK, WindowTypeOK
<1>2. \A v \in Worker : job'[v] = IF v = w THEN b ELSE job[v]
  BY DEF OnboardingTypeOK
<1>3. JobInv'
  BY <1>2 DEF JobInv
<1>4. CounterInv'
  <2> SUFFICES ASSUME NEW k \in LimitKey
               PROVE  /\ \A n \in DOMAIN admitted[k] : admitted[k][n] <= clock
                      /\ LimitOf(k) > 0 => \E s \in 0..clock : CounterOK(k, s)'
    BY DEF CounterInv
  <2>1. \A n \in DOMAIN admitted[k] : admitted[k][n] <= clock
    BY DEF CounterInv
  <2>2. ASSUME LimitOf(k) > 0 PROVE \E s \in 0..clock : CounterOK(k, s)'
    <3>1. PICK s \in 0..clock : CounterOK(k, s)
      BY <2>2 DEF CounterInv
    <3>2. ASSUME NEW v \in Worker, windows[k] = NoEntry, Waits(v, k)', job'[v].now # NoTime
          PROVE  s <= job'[v].now /\ \A n \in DOMAIN admitted[k] : admitted[k][n] <= job'[v].now
      <4>1. CASE v = w
        <5>1. job'[v].now = clock
          BY <1>2, <3>2, <4>1 DEF Waits
        <5> QED
          BY <2>1, <5>1
      <4>2. CASE v # w
        BY <1>2, <3>1, <3>2, <4>2 DEF CounterOK, Waits
      <4> QED
        BY <4>1, <4>2
    <3>3. CounterOK(k, s)'
      BY <3>1, <3>2 DEF CounterOK
    <3> QED
      BY <3>3
  <2> QED
    BY <2>1, <2>2
<1>5. TokenInv'
  <2> SUFFICES ASSUME NEW t \in Token
               PROVE  IF issued[t] = NoTime THEN UnissuedOK(t)' ELSE IssuedOK(t)'
    BY DEF TokenInv
  <2>1. CASE issued[t] = NoTime
    BY <1>2, <2>1 DEF TokenInv, UnissuedOK, Waits
  <2>2. CASE issued[t] # NoTime
    <3>1. IssuedOK(t)
      BY <2>2 DEF TokenInv
    <3>2. ASSUME clock >= issued[t] + TTL
          PROVE  Late(t) + Cardinality(Waiting(TokenKey(t))') <= Cardinality(Worker)
      <4>1. Waiting(TokenKey(t))' \subseteq Waiting(TokenKey(t))
        <5>1. clock \in Nat /\ issued[t] \in Nat /\ TTL \in Nat
          BY <2>2, OnboardingTyped, OnboardingAssumption
        <5>2. b.at = "limit" /\ b.key = TokenKey(t) => Waits(w, TokenKey(t))
          BY <3>2, <5>1
        <5> QED
          BY <1>2, <5>2 DEF Waiting, Waits
      <4>2. Waiting(TokenKey(t)) \in SUBSET Worker
        BY DEF Waiting
      <4>3. Cardinality(Waiting(TokenKey(t))') <= Cardinality(Waiting(TokenKey(t)))
        BY <4>1, <4>2, WorkersFinite, FS_Subset
      <4>4. Late(t) + Cardinality(Waiting(TokenKey(t))) <= Cardinality(Worker)
        BY <3>1, <3>2 DEF IssuedOK, LateOK
      <4>5. Late(t) \in Nat
        BY Keys, OnboardingTyped, TimesNat DEF Late
      <4>6. /\ Cardinality(Waiting(TokenKey(t))') \in Nat
            /\ Cardinality(Waiting(TokenKey(t))) \in Nat /\ Cardinality(Worker) \in Nat
        BY <4>1, <4>2, WorkersFinite
      <4> QED
        BY <4>3, <4>4, <4>5, <4>6
    <3>3. LateOK(t)'
      BY <3>2 DEF LateOK, Late, Times, Since
    <3>4. IssuedOK(t)'
      BY <3>1, <3>3 DEF IssuedOK, InLife, Times, Until
    <3> QED
      BY <2>2, <3>4
  <2> QED
    BY <2>1, <2>2
<1> QED
  BY <1>1, <1>3, <1>4, <1>5

LEMMA BeginKeeps ==
    ASSUME OnboardingInv, NEW w \in Worker, NEW kind \in {"session", "translate"},
           NEW ip \in IP, NEW t \in Token, Begin(w, kind, ip, t)
    PROVE  OnboardingInv'
<1> DEFINE b == ToLimiter(<<kind, ip>>, t)
<1>1. <<kind, ip>> \in LimitKey
  BY DEF LimitKey
<1>2. b \in Job /\ b.key[1] = kind /\ b.whose = t /\ b.now = NoTime /\ b.at = "limit"
  BY <1>1 DEF ToLimiter, Job
<1>3. JobOK(b, clock)
  BY <1>2 DEF JobOK
<1>4. \A u \in Token : b.key # TokenKey(u)
  BY <1>2 DEF TokenKey
<1>5. /\ job' = [job EXCEPT ![w] = b]
      /\ UNCHANGED <<windows, rows, clock, issued, admitted, restarts>>
  BY DEF Begin
<1> HIDE DEF b
<1> QED
  BY <1>2, <1>3, <1>4, <1>5, JobStep

LEMMA BeginEventKeeps ==
    ASSUME OnboardingInv, NEW w \in Worker, NEW ip \in IP, NEW d \in Device,
           BeginEvent(w, ip, d)
    PROVE  OnboardingInv'
<1> DEFINE b == ToLimiter(<<"event", ip>>, d)
<1>1. <<"event", ip>> \in LimitKey
  BY DEF LimitKey
<1>2. b \in Job /\ b.key[1] = "event" /\ b.whose = d /\ b.now = NoTime /\ b.at = "limit"
  BY <1>1 DEF ToLimiter, Job
<1>3. JobOK(b, clock)
  BY <1>2 DEF JobOK
<1>4. \A u \in Token : b.key # TokenKey(u)
  BY <1>2 DEF TokenKey
<1>5. /\ job' = [job EXCEPT ![w] = b]
      /\ UNCHANGED <<windows, rows, clock, issued, admitted, restarts>>
  BY DEF BeginEvent
<1> HIDE DEF b
<1> QED
  BY <1>2, <1>3, <1>4, <1>5, JobStep

LEMMA ReadsClockKeeps ==
    ASSUME OnboardingInv, NEW w \in Worker, ReadsClock(w)
    PROVE  OnboardingInv'
<1> DEFINE j == job[w]
           b == [j EXCEPT !.now = clock]
<1>1. j \in Job /\ JobOK(j, clock) /\ clock \in Instant /\ clock \in Nat
  BY Requests, OnboardingTyped DEF OnboardingInv, JobInv, ReadsClock
<1>2. /\ b \in Job /\ b.at = "limit" /\ b.key = j.key /\ b.whose = j.whose
      /\ b.now = clock /\ j.at = "limit"
  BY <1>1 DEF ReadsClock, Job
<1>3. JobOK(b, clock)
  BY <1>1, <1>2 DEF JobOK
<1>4. ASSUME NEW t \in Token, b.key = TokenKey(t)
      PROVE  issued[t] # NoTime /\ Waits(w, TokenKey(t))
  BY <1>2, <1>4 DEF Waits, OnboardingInv, TokenInv, UnissuedOK
<1>5. /\ job' = [job EXCEPT ![w] = b]
      /\ UNCHANGED <<windows, rows, clock, issued, admitted, restarts>>
  BY DEF ReadsClock
<1> HIDE DEF b
<1> QED
  BY <1>2, <1>3, <1>4, <1>5, JobStep

LEMMA EndKeeps ==
    ASSUME OnboardingInv, NEW w \in Worker, job' = [job EXCEPT ![w] = Idle],
           UNCHANGED <<windows, rows, clock, issued, admitted, restarts>>
    PROVE  OnboardingInv'
<1>1. Idle \in Job \cup {Idle} /\ Idle.at # "limit" /\ JobOK(Idle, clock)
  BY DEF Idle, JobOK
<1> QED
  BY <1>1, JobStep

LEMMA ValidateKeeps ==
    ASSUME OnboardingInv, NEW w \in Worker, ValidateAndTouch(w)
    PROVE  OnboardingInv'
<1> DEFINE t == job[w].whose
           b == ToLimiter(TokenKey(t), t)
<1>1. job[w].at = "validate" /\ Usable(t)
  BY DEF ValidateAndTouch
<1>2. t \in Token
  BY <1>1, OnboardingTyped, Requests DEF OnboardingInv, JobInv, JobOK
<1>3. b \in Job /\ b.key = TokenKey(t) /\ b.whose = t /\ b.now = NoTime /\ b.at = "limit"
  BY <1>2, Keys DEF ToLimiter, Job
<1>4. JobOK(b, clock)
  BY <1>2, <1>3 DEF JobOK, TokenKey
<1>5. issued[t] # NoTime /\ clock < issued[t] + TTL
  <2>1. issued[t] # NoTime
    BY <1>1, <1>2 DEF OnboardingInv, TokenInv, UnissuedOK, Usable
  <2>2. rows[t] = issued[t] + TTL /\ rows[t] > clock
    BY <1>1, <1>2, <2>1 DEF OnboardingInv, TokenInv, IssuedOK, Usable
  <2>3. issued[t] + TTL \in Nat /\ clock \in Nat
    BY <1>2, <2>1, OnboardingTyped, OnboardingAssumption DEF OnboardingInv
  <2> QED
    BY <2>1, <2>2, <2>3
<1>6. \A u \in Token : b.key = TokenKey(u) => u = t
  BY <1>2, <1>3, Keys
<1>7. /\ job' = [job EXCEPT ![w] = b]
      /\ UNCHANGED <<windows, rows, clock, issued, admitted, restarts>>
  BY DEF ValidateAndTouch, TokenKey
<1> HIDE DEF b
<1> QED
  BY <1>3, <1>4, <1>5, <1>6, <1>7, JobStep

\* The counter of a new token.
LEMMA FirstCounter ==
    ASSUME NEW m \in Nat, NEW r \in Nat, NEW s \in Nat
    PROVE  /\ WindowOK(<<>>, NoEntry, m, r, s)
           /\ LifeOK(<<>>, NoEntry, m, r, s, s)
<1>1. ASSUME NEW S PROVE Times(<<>>, S) = 0
  <2>1. <<>> \in Seq(Instant) /\ \A n \in DOMAIN <<>> : <<>>[n] \notin S
    OBVIOUS
  <2> QED
    BY <2>1, TimesNone
<1>2. m * r \in Nat /\ m * (r + 1) \in Nat
  <2>1. m * (r + 1) = m * r + m /\ m * r >= m * 0
    BY Multiples
  <2> QED
    BY <2>1
<1>3. (s - s) \div (Window + 1) = 0
  BY WindowAssumption
<1>4. /\ CountOf(NoEntry) = 0 /\ Times(<<>>, Since(s)) = 0
      /\ Times(<<>>, Since(s - Window)) = 0 /\ Times(<<>>, Until(s + TTL)) = 0
  BY <1>1 DEF CountOf
<1> QED
  BY <1>2, <1>3, <1>4 DEF WindowOK, LifeOK

LEMMA IssueKeeps ==
    ASSUME OnboardingInv, NEW w \in Worker, Issue(w)
    PROVE  OnboardingInv'
<1> USE DEF OnboardingInv
<1> DEFINE t == job[w].whose
<1>1. /\ job[w].at = "issue" /\ issued[t] = NoTime
      /\ rows' = [rows EXCEPT ![t] = clock + TTL]
      /\ issued' = [issued EXCEPT ![t] = clock]
      /\ job' = [job EXCEPT ![w] = Idle]
      /\ UNCHANGED <<windows, clock, admitted, restarts>>
  BY DEF Issue
<1>2. t \in Token
  BY <1>1, OnboardingTyped, Requests DEF JobInv, JobOK
<1> HIDE DEF t
<1>3. clock \in Instant /\ clock \in Nat /\ clock # NoTime /\ TTL \in Nat \ {0} /\ restarts \in Nat
  BY OnboardingTyped, OnboardingAssumption
<1>4. OnboardingTypeOK'
  BY <1>1, <1>2, <1>3 DEF OnboardingTypeOK, WindowTypeOK
<1>5. \A v \in Worker : job'[v] = IF v = w THEN Idle ELSE job[v]
  BY <1>1 DEF OnboardingTypeOK
<1>6. /\ issued'[t] = clock /\ rows'[t] = clock + TTL
      /\ \A u \in Token : u # t => issued'[u] = issued[u] /\ rows'[u] = rows[u]
  BY <1>1, <1>2 DEF OnboardingTypeOK
<1>7. \A v \in Worker, k \in LimitKey : Waits(v, k)' <=> Waits(v, k)
  BY <1>1, <1>5 DEF Waits, Idle
<1>8. JobInv'
  BY <1>1, <1>5 DEF JobInv, JobOK, Idle
<1>9. UnissuedOK(t)
  BY <1>1, <1>2 DEF TokenInv
<1>10. CounterInv'
  <2> SUFFICES ASSUME NEW k \in LimitKey, LimitOf(k) > 0
               PROVE  \E s \in 0..clock : CounterOK(k, s)'
    BY <1>1 DEF CounterInv
  <2>1. CASE k = TokenKey(t)
    <3>1. /\ admitted[k] = <<>> /\ windows[k] = NoEntry
          /\ \A v \in Worker : ~Waits(v, k)'
      BY <1>7, <1>9, <2>1 DEF UnissuedOK
    <3>2. /\ WindowOK(<<>>, NoEntry, LimitOf(k), restarts, clock)
          /\ LifeOK(<<>>, NoEntry, LimitOf(k), restarts, clock, clock)
      BY <1>3, Keys, FirstCounter
    <3>3. \A u \in Token : k = TokenKey(u) => u = t
      BY <1>2, <2>1, Keys
    <3>4. ASSUME NEW s, s = clock PROVE CounterOK(k, s)'
      BY <1>1, <1>6, <3>1, <3>2, <3>3, <3>4 DEF CounterOK
    <3> QED
      BY <1>3, <3>4
  <2>2. CASE k # TokenKey(t)
    <3>1. PICK s \in 0..clock : CounterOK(k, s)
      BY DEF CounterInv
    <3>2. ASSUME NEW v \in Worker, Waits(v, k)' PROVE Waits(v, k) /\ job'[v] = job[v]
      BY <1>1, <1>5, <1>7, <3>2 DEF Waits
    <3>3. CounterOK(k, s)'
      BY <1>1, <1>6, <2>2, <3>1, <3>2 DEF CounterOK
    <3> QED
      BY <3>3
  <2> QED
    BY <2>1, <2>2
<1>11. TokenInv'
  <2> SUFFICES ASSUME NEW u \in Token
               PROVE  (IF issued[u] = NoTime THEN UnissuedOK(u) ELSE IssuedOK(u))'
    BY DEF TokenInv
  <2>1. CASE u = t
    <3>1. admitted'[TokenKey(u)] = <<>>
      BY <1>1, <1>9, <2>1 DEF UnissuedOK
    <3>2. InLife(u)' = 0
      <4>1. <<>> \in Seq(Instant)
            /\ \A n \in DOMAIN <<>> : <<>>[n] \notin Until(clock + TTL)
        OBVIOUS
      <4>2. Times(<<>>, Until(clock + TTL)) = 0
        BY <4>1, TimesNone
      <4>3. InLife(u)' = Times(admitted'[TokenKey(u)], Until(issued'[u] + TTL))
        BY DEF InLife, Times, Until
      <4> QED
        BY <1>6, <2>1, <3>1, <4>2, <4>3
    <3>3. TokenLimit > 0 => TokenLimit * (MostWindows + restarts) >= 0
      <4>1. MostWindows \in Nat /\ TokenLimit \in Nat
        BY WindowAssumption, OnboardingAssumption, WindowsIn DEF MostWindows
      <4>2. TokenLimit * (MostWindows + restarts) >= TokenLimit * 0
        BY <1>3, <4>1, Multiples
      <4> QED
        BY <4>1, <4>2
    <3>4. ~(clock >= clock + TTL) /\ clock + TTL # NoToken
      BY <1>3, OnboardingAssumption
    <3> QED
      BY <1>1, <1>3, <1>6, <2>1, <3>1, <3>2, <3>3, <3>4 DEF IssuedOK, LateOK, MostWindows
  <2>2. CASE u # t
    <3>1. Waiting(TokenKey(u))' = Waiting(TokenKey(u))
      BY <1>7, Keys DEF Waiting
    <3>2. LateOK(u)' <=> LateOK(u)
      BY <1>1, <1>6, <2>2, <3>1 DEF LateOK, Late, Times, Since
    <3>3. InLife(u)' = InLife(u)
      BY <1>1, <1>6, <2>2 DEF InLife, Times, Until
    <3>4. IF issued[u] = NoTime THEN UnissuedOK(u) ELSE IssuedOK(u)
      BY DEF TokenInv
    <3>5. CASE issued[u] = NoTime
      BY <1>1, <1>6, <1>7, <2>2, <3>4, <3>5, Keys DEF UnissuedOK
    <3>6. CASE issued[u] # NoTime
      BY <1>1, <1>6, <2>2, <3>2, <3>3, <3>4, <3>6 DEF IssuedOK, MostWindows
    <3> QED
      BY <3>5, <3>6
  <2> QED
    BY <2>1, <2>2
<1> QED
  BY <1>4, <1>8, <1>10, <1>11

LEMMA CleanupOldKeeps ==
    ASSUME OnboardingInv, CleanupOld
    PROVE  OnboardingInv'
<1> USE DEF OnboardingInv
<1>1. /\ UNCHANGED <<windows, job, clock, issued, admitted, restarts>>
      /\ \A t \in Token : rows'[t] = IF rows[t] # NoToken /\ rows[t] + Retention < clock
                                     THEN NoToken ELSE rows[t]
  BY DEF CleanupOld
<1>2. OnboardingTypeOK'
  BY DEF CleanupOld, OnboardingTypeOK, WindowTypeOK
<1>3. JobInv'
  BY <1>1 DEF JobInv
<1>4. CounterInv'
  <2> SUFFICES ASSUME NEW k \in LimitKey, LimitOf(k) > 0
               PROVE  \E s \in 0..clock : CounterOK(k, s)'
    BY <1>1 DEF CounterInv
  <2>1. PICK s \in 0..clock : CounterOK(k, s)
    BY DEF CounterInv
  <2>2. CounterOK(k, s)'
    BY <1>1, <2>1 DEF CounterOK, Waits
  <2> QED
    BY <2>2
<1>5. TokenInv'
  <2> SUFFICES ASSUME NEW t \in Token
               PROVE  IF issued[t] = NoTime THEN UnissuedOK(t)' ELSE IssuedOK(t)'
    BY <1>1 DEF TokenInv
  <2>1. CASE issued[t] = NoTime
    BY <1>1, <2>1 DEF TokenInv, UnissuedOK, Waits
  <2>2. CASE issued[t] # NoTime
    <3>1. IssuedOK(t)
      BY <2>2 DEF TokenInv
    <3>2. issued[t] + TTL \in Nat /\ Retention \in Nat /\ clock \in Nat
      BY <2>2, OnboardingTyped, OnboardingAssumption
    <3>3. /\ rows'[t] \in {issued[t] + TTL, NoToken}
          /\ rows'[t] = NoToken => clock > issued[t] + TTL
      BY <1>1, <3>1, <3>2 DEF IssuedOK
    <3>4. LateOK(t)'
      BY <1>1, <3>1 DEF IssuedOK, LateOK, Late, Waiting, Waits
    <3> QED
      BY <1>1, <2>2, <3>1, <3>3, <3>4 DEF IssuedOK, InLife
  <2> QED
    BY <2>1, <2>2
<1> QED
  BY <1>2, <1>3, <1>4, <1>5

LEMMA ProcessRestartKeeps ==
    ASSUME OnboardingInv, ProcessRestart
    PROVE  OnboardingInv'
<1> USE DEF OnboardingInv
<1>1. /\ \A w \in Worker : job'[w] = Idle
      /\ \A k \in LimitKey : windows'[k] = NoEntry
      /\ restarts' = restarts + 1
      /\ UNCHANGED <<rows, clock, issued, admitted>>
  BY DEF ProcessRestart, Forget, OnboardingTypeOK, WindowTypeOK
<1>2. \A w \in Worker, k \in LimitKey : ~Waits(w, k)'
  BY <1>1 DEF Waits, Idle
<1>3. OnboardingTypeOK'
  <2>1. restarts + 1 \in 0..MaxRestarts
    BY OnboardingAssumption DEF ProcessRestart, OnboardingTypeOK
  <2> QED
    BY <2>1 DEF ProcessRestart, Forget, OnboardingTypeOK, WindowTypeOK
<1>4. JobInv'
  BY <1>1 DEF JobInv, JobOK, Idle
<1>5. restarts \in Nat
  BY OnboardingTyped
<1>6. CounterInv'
  <2> SUFFICES ASSUME NEW k \in LimitKey, LimitOf(k) > 0
               PROVE  \E s \in 0..clock : CounterOK(k, s)'
    BY <1>1 DEF CounterInv
  <2>1. PICK s \in 0..clock : CounterOK(k, s)
    BY DEF CounterInv
  <2>2. /\ LimitOf(k) \in Nat \ {0} /\ s \in Nat
        /\ admitted[k] \in Seq(Instant) /\ windows[k] \in Entry \cup {NoEntry}
    BY Keys, OnboardingTyped
  <2>3. WindowOK(admitted[k], NoEntry, LimitOf(k), restarts + 1, s)
    BY <1>5, <2>1, <2>2, ForgetKeeps DEF CounterOK
  <2>4. ASSUME NEW t \in Token, k = TokenKey(t), issued[t] # NoTime
        PROVE  LifeOK(admitted[k], NoEntry, LimitOf(k), restarts + 1, s, issued[t])
    <3>1. issued[t] \in Nat
      BY <2>4, OnboardingTyped
    <3>2. LifeOK(admitted[k], windows[k], LimitOf(k), restarts, s, issued[t])
      BY <2>1, <2>4 DEF CounterOK
    <3> QED
      BY <1>5, <2>1, <2>2, <3>1, <3>2, ForgetKeeps DEF CounterOK
  <2>5. CounterOK(k, s)'
    BY <1>1, <1>2, <2>3, <2>4 DEF CounterOK
  <2> QED
    BY <2>5
<1>7. TokenInv'
  <2> SUFFICES ASSUME NEW t \in Token
               PROVE  IF issued[t] = NoTime THEN UnissuedOK(t)' ELSE IssuedOK(t)'
    BY <1>1 DEF TokenInv
  <2>1. CASE issued[t] = NoTime
    BY <1>1, <1>2, <2>1, Keys DEF TokenInv, UnissuedOK
  <2>2. CASE issued[t] # NoTime
    <3>1. IssuedOK(t)
      BY <2>2 DEF TokenInv
    <3>2. LateOK(t)'
      <4>1. Waiting(TokenKey(t))' = {}
        BY <1>2, Keys DEF Waiting
      <4>2. Cardinality(Waiting(TokenKey(t))') = 0 /\ Cardinality(Waiting(TokenKey(t))) \in Nat
        <5>1. Waiting(TokenKey(t)) \in SUBSET Worker
          BY DEF Waiting
        <5> QED
          BY <4>1, <5>1, WorkersFinite, FS_EmptySet
      <4>3. Late(t)' = Late(t) /\ Late(t) \in Nat
        BY <1>1, Keys, OnboardingTyped, TimesNat DEF Late
      <4>4. clock >= issued[t] + TTL =>
               Late(t) + Cardinality(Waiting(TokenKey(t))) <= Cardinality(Worker)
        BY <3>1 DEF IssuedOK, LateOK
      <4>5. Cardinality(Worker) \in Nat
        BY WorkersFinite
      <4>6. clock >= issued[t] + TTL => Late(t) + 0 <= Cardinality(Worker)
        BY <4>2, <4>3, <4>4, <4>5
      <4> QED
        BY <1>1, <4>2, <4>3, <4>6 DEF LateOK
    <3>3. TokenLimit > 0 => InLife(t) <= TokenLimit * (MostWindows + (restarts + 1))
      <4>1. MostWindows \in Nat /\ TokenLimit \in Nat
        BY WindowAssumption, OnboardingAssumption, WindowsIn DEF MostWindows
      <4>2. /\ TokenLimit * (MostWindows + (restarts + 1)) >= TokenLimit * (MostWindows + restarts)
            /\ TokenLimit * (MostWindows + (restarts + 1)) \in Int
            /\ TokenLimit * (MostWindows + restarts) \in Int
        <5>1. MostWindows + (restarts + 1) >= MostWindows + restarts
          BY <1>5, <4>1
        <5> QED
          BY <1>5, <4>1, <5>1, Multiples
      <4>3. InLife(t) \in Nat
        BY Keys, OnboardingTyped, TimesNat DEF InLife
      <4> QED
        BY <3>1, <4>2, <4>3 DEF IssuedOK
    <3>4. TokenLimit > 0 => (InLife(t) <= TokenLimit * (MostWindows + restarts))'
      <4>1. InLife(t)' = InLife(t)
        BY <1>1 DEF InLife
      <4> QED
        BY <1>1, <3>3, <4>1 DEF MostWindows
    <3> QED
      BY <1>1, <2>2, <3>1, <3>2, <3>4 DEF IssuedOK
  <2> QED
    BY <2>1, <2>2
<1> QED
  BY <1>3, <1>4, <1>6, <1>7

LEMMA TickKeeps ==
    ASSUME OnboardingInv, Tick
    PROVE  OnboardingInv'
<1> USE DEF OnboardingInv
<1>1. clock' = clock + 1 /\ clock < MaxClock /\ clock \in Nat
      /\ UNCHANGED <<windows, rows, job, issued, admitted, restarts>>
  BY OnboardingTyped DEF Tick
<1>2. OnboardingTypeOK'
  <2>1. clock' \in Instant
    BY <1>1, OnboardingAssumption DEF Instant
  <2> QED
    BY <1>1, <2>1 DEF OnboardingTypeOK, WindowTypeOK
<1>3. JobInv'
  <2> SUFFICES ASSUME NEW w \in Worker PROVE JobOK(job[w], clock + 1)
    BY <1>1 DEF JobInv
  <2>1. JobOK(job[w], clock)
    BY DEF JobInv
  <2>2. job[w].at # "idle" /\ job[w].now # NoTime => job[w].now \in Nat
    BY OnboardingTyped
  <2> QED
    BY <1>1, <2>1, <2>2 DEF JobOK
<1>4. \A k \in LimitKey : \A n \in DOMAIN admitted[k] : admitted[k][n] \in 0..clock
  BY OnboardingTyped, CameAt DEF CounterInv
<1>5. CounterInv'
  <2> SUFFICES ASSUME NEW k \in LimitKey
               PROVE  /\ \A n \in DOMAIN admitted[k] : admitted[k][n] <= clock + 1
                      /\ LimitOf(k) > 0 => \E s \in 0..(clock + 1) : CounterOK(k, s)'
    BY <1>1 DEF CounterInv
  <2>1. \A n \in DOMAIN admitted[k] : admitted[k][n] <= clock + 1
    BY <1>1, <1>4
  <2>2. ASSUME LimitOf(k) > 0 PROVE \E s \in 0..(clock + 1) : CounterOK(k, s)'
    <3>1. PICK s \in 0..clock : CounterOK(k, s)
      BY <2>2 DEF CounterInv
    <3>2. CounterOK(k, s)'
      BY <1>1, <3>1 DEF CounterOK, Waits
    <3>3. s \in 0..(clock + 1)
      BY <1>1
    <3> QED
      BY <3>2, <3>3
  <2> QED
    BY <2>1, <2>2
<1>6. TokenInv'
  <2> SUFFICES ASSUME NEW t \in Token
               PROVE  IF issued[t] = NoTime THEN UnissuedOK(t)' ELSE IssuedOK(t)'
    BY <1>1 DEF TokenInv
  <2>1. CASE issued[t] = NoTime
    BY <1>1, <2>1 DEF TokenInv, UnissuedOK, Waits
  <2>2. CASE issued[t] # NoTime
    <3>1. IssuedOK(t)
      BY <2>2 DEF TokenInv
    <3>2. issued[t] \in Nat /\ TTL \in Nat
      BY <2>2, OnboardingTyped, OnboardingAssumption
    <3>3. Late(t)' = Late(t) /\ Waiting(TokenKey(t))' = Waiting(TokenKey(t))
      BY <1>1 DEF Late, Waiting, Waits
    <3>4. ASSUME clock < issued[t] + TTL
          PROVE  Late(t) + Cardinality(Waiting(TokenKey(t))) <= Cardinality(Worker)
      <4>1. \A n \in DOMAIN admitted[TokenKey(t)] :
               admitted[TokenKey(t)][n] \notin Since(issued[t] + TTL)
        BY <1>1, <1>4, <3>2, <3>4, Keys DEF Since
      <4>2. Late(t) = 0
        BY <4>1, Keys, OnboardingTyped, TimesNone DEF Late
      <4>3. Waiting(TokenKey(t)) \in SUBSET Worker
        BY DEF Waiting
      <4> QED
        BY <4>2, <4>3, WorkersFinite
    <3>5. LateOK(t)'
      BY <1>1, <3>1, <3>2, <3>3, <3>4 DEF IssuedOK, LateOK
    <3>6. InLife(t)' = InLife(t)
      BY <1>1 DEF InLife
    <3> QED
      BY <1>1, <2>2, <3>1, <3>2, <3>5, <3>6 DEF IssuedOK
  <2> QED
    BY <2>1, <2>2
<1> QED
  BY <1>2, <1>3, <1>5, <1>6

\* As long as a token lives, no more windows have begun than fit into its life.
LEMMA LifeBound ==
    ASSUME NEW q \in Seq(Instant), NEW e \in Entry \cup {NoEntry},
           NEW m \in Nat \ {0}, NEW r \in Nat, NEW s \in Nat, NEW a \in Nat, NEW c \in Nat,
           WindowOK(q, e, m, r, s), LifeOK(q, e, m, r, s, a), s <= c, c < a + TTL
    PROVE  Times(q, Until(a + TTL)) <= m * (MostWindows + r)
<1> DEFINE x == (s - a) \div (Window + 1)
<1>1. s - a \in Nat /\ Window + 1 \in Nat \ {0} /\ TTL + Window \in Nat
      /\ TTL + Window >= (s - a) + (Window + 1)
  BY WindowAssumption, OnboardingAssumption DEF LifeOK
<1>2. x \in Nat /\ MostWindows \in Nat /\ MostWindows >= x + 1
  BY <1>1, WindowsIn DEF MostWindows
<1>3. CountOf(e) \in Nat /\ CountOf(e) <= m
  BY DEF CountOf, Entry, WindowOK
<1>4. Times(q, Until(a + TTL)) <= CountOf(e) + m * (r + x)
  BY DEF LifeOK
<1> HIDE DEF x
<1>5. /\ m * (r + x) \in Int /\ m * ((r + x) + 1) = m * (r + x) + m
      /\ m * (MostWindows + r) \in Int /\ m * (MostWindows + r) >= m * ((r + x) + 1)
  <2>1. MostWindows + r >= (r + x) + 1
    BY <1>2
  <2> QED
    BY <1>2, <2>1, Multiples
<1> QED
  BY <1>3, <1>4, <1>5, TimesNat

\* What happens to the counters when w is let in.
LEMMA AdmitCounts ==
    ASSUME OnboardingInv, NEW w \in Worker, Admit(w), NEW k, k = job[w].key,
           NEW now, now = job[w].now
    PROVE  /\ job[w] \in Job /\ Waits(w, k) /\ now # NoTime
           /\ k \in LimitKey /\ now \in Nat /\ now <= clock
           /\ rows' = rows /\ clock' = clock /\ issued' = issued /\ restarts' = restarts
           /\ \A x \in LimitKey \ {k} : admitted'[x] = admitted[x] /\ windows'[x] = windows[x]
           /\ admitted'[k] = Longer(admitted[k], now, clock)
           /\ \/ LimitOf(k) = 0 /\ windows'[k] = windows[k]
              \/ LimitOf(k) > 0 /\ Opens(windows[k], now, windows'[k])
              \/ LimitOf(k) > 0 /\ Counts(windows[k], LimitOf(k), now, windows'[k])
           /\ admitted' \in [LimitKey -> Seq(Instant)]
           /\ windows' \in [LimitKey -> Entry \cup {NoEntry}]
<1> USE DEF OnboardingInv
<1>1. /\ job[w].at = "limit" /\ now # NoTime /\ Allow(k, LimitOf(k), now)
      /\ admitted' = IF now = clock THEN [admitted EXCEPT ![k] = Append(@, clock)] ELSE admitted
      /\ UNCHANGED <<rows, clock, issued, restarts>>
  BY DEF Admit
<1>2. job[w] \in Job /\ now \in Nat /\ now <= clock
  BY <1>1, OnboardingTyped, Requests DEF JobInv, JobOK
<1>3. k \in LimitKey
  BY <1>2 DEF Job
<1>4. /\ windows \in [LimitKey -> Entry \cup {NoEntry}]
      /\ admitted \in [LimitKey -> Seq(Instant)] /\ clock \in Instant
  BY DEF OnboardingTypeOK, WindowTypeOK
<1>5. \A x \in LimitKey \ {k} : admitted'[x] = admitted[x]
  BY <1>1, <1>4
<1>6. admitted'[k] = Longer(admitted[k], now, clock)
  BY <1>1, <1>3, <1>4 DEF Longer
<1>7. admitted' \in [LimitKey -> Seq(Instant)]
  <2>1. Append(admitted[k], clock) \in Seq(Instant)
    BY <1>3, <1>4
  <2> QED
    BY <1>1, <1>4, <2>1
<1> DEFINE e == windows[k]
           opened == [count |-> 1, reset |-> now + Window]
           counted == [e EXCEPT !.count = @ + 1]
<1>8. \/ LimitOf(k) = 0 /\ windows' = windows
      \/ /\ LimitOf(k) > 0 /\ (e # NoEntry => now > e.reset)
         /\ windows' = [windows EXCEPT ![k] = opened]
      \/ /\ LimitOf(k) > 0 /\ e # NoEntry /\ ~(now > e.reset) /\ e.count < LimitOf(k)
         /\ windows' = [windows EXCEPT ![k] = counted]
  <2>1. [windows EXCEPT ![k].count = @ + 1] = [windows EXCEPT ![k] = counted]
    OBVIOUS
  <2>2. Over(k, now) <=> (e # NoEntry => now > e.reset)
    BY DEF Over
  <2> HIDE DEF counted, e
  <2>3. e = windows[k]
    BY DEF e
  <2> QED
    BY <1>1, <2>1, <2>2, <2>3 DEF Allow
<1>9. opened \in Entry /\ (e # NoEntry => counted \in Entry /\ e.reset \in Nat)
  <2>1. opened \in Entry
    BY <1>2, WindowAssumption DEF Entry
  <2>2. ASSUME e \in Entry PROVE counted \in Entry /\ e.reset \in Nat
    <3> HIDE DEF e
    <3> QED
      BY <2>2 DEF Entry
  <2>3. e \in Entry \cup {NoEntry}
    BY <1>3, <1>4
  <2> QED
    BY <2>1, <2>2, <2>3
<1> HIDE DEF opened, counted
<1>11. \/ LimitOf(k) = 0 /\ windows'[k] = e
       \/ LimitOf(k) > 0 /\ Opens(e, now, windows'[k])
       \/ LimitOf(k) > 0 /\ Counts(e, LimitOf(k), now, windows'[k])
  <2>1. /\ windows' = [windows EXCEPT ![k] = opened] => windows'[k] = opened
        /\ windows' = [windows EXCEPT ![k] = counted] => windows'[k] = counted
    BY <1>3, <1>4
  <2> QED
    BY <1>2, <1>8, <1>9, <2>1 DEF Opens, Counts, opened, counted
<1>12. \A x \in LimitKey \ {k} : windows'[x] = windows[x]
  BY <1>4, <1>8
<1>13. windows' \in [LimitKey -> Entry \cup {NoEntry}]
  BY <1>4, <1>8, <1>9
<1>10. Waits(w, k)
  BY <1>1 DEF Waits
<1> QED
  BY <1>1, <1>2, <1>3, <1>5, <1>6, <1>7, <1>10, <1>11, <1>12, <1>13

\* Where w is then: done, or on its way to its token or, with an event, in front
\* of the limiter of its device.
LEMMA AdmittedGoesOn ==
    ASSUME OnboardingInv, NEW w \in Worker, Admit(w), NEW b, b = job'[w]
    PROVE  /\ b \in Job \cup {Idle} /\ JobOK(b, clock)
           /\ b.at = "limit" => b.now = NoTime /\ \A t \in Token : b.key # TokenKey(t)
           /\ \A v \in Worker \ {w} : job'[v] = job[v]
<1> USE DEF OnboardingInv
<1> DEFINE j == job[w]
<1>1. j \in Job /\ j.at = "limit" /\ JobOK(j, clock)
  BY OnboardingTyped, Requests DEF Admit, JobInv
<1>2. /\ b = CASE j.key[1] = "session" -> [j EXCEPT !.at = "issue"]
               [] j.key[1] = "translate" -> [j EXCEPT !.at = "validate"]
               [] j.key[1] = "event" -> ToLimiter(<<"device", j.whose>>, j.whose)
               [] j.key[1] \in {"token", "device"} -> Idle
      /\ \A v \in Worker \ {w} : job'[v] = job[v]
  BY DEF Admit, OnboardingTypeOK
<1>3. j.key[1] \in {"session", "translate", "token", "event", "device"}
  BY <1>1, Keys DEF Job
<1>4. CASE j.key[1] = "session"
  <2>1. b = [j EXCEPT !.at = "issue"]
    BY <1>2, <1>4
  <2>2. b \in Job /\ b.at = "issue" /\ b.key = j.key /\ b.whose = j.whose /\ b.now = j.now
    BY <1>1, <2>1 DEF Job
  <2> QED
    BY <1>1, <1>2, <1>4, <2>2 DEF JobOK
<1>5. CASE j.key[1] = "translate"
  <2>1. b = [j EXCEPT !.at = "validate"]
    BY <1>2, <1>5
  <2>2. b \in Job /\ b.at = "validate" /\ b.key = j.key /\ b.whose = j.whose /\ b.now = j.now
    BY <1>1, <2>1 DEF Job
  <2> QED
    BY <1>1, <1>2, <1>5, <2>2 DEF JobOK
<1>6. CASE j.key[1] = "event"
  <2>1. b = ToLimiter(<<"device", j.whose>>, j.whose) /\ j.whose \in Device
    BY <1>1, <1>2, <1>6 DEF JobOK
  <2>2. <<"device", j.whose>> \in LimitKey
    BY <2>1 DEF LimitKey
  <2>3. /\ b \in Job /\ b.at = "limit" /\ b.key[1] = "device"
        /\ b.whose = j.whose /\ b.now = NoTime
    BY <2>1, <2>2 DEF ToLimiter, Job
  <2>4. JobOK(b, clock)
    BY <2>1, <2>3 DEF JobOK
  <2>5. \A t \in Token : b.key # TokenKey(t)
    BY <2>3 DEF TokenKey
  <2> QED
    BY <1>2, <2>3, <2>4, <2>5
<1>7. CASE j.key[1] \in {"token", "device"}
  BY <1>2, <1>7 DEF Idle, JobOK
<1> QED
  BY <1>3, <1>4, <1>5, <1>6, <1>7

LEMMA AdmitKeeps ==
    ASSUME OnboardingInv, NEW w \in Worker, Admit(w)
    PROVE  OnboardingInv'
<1> USE DEF OnboardingInv
<1>1. PICK k, now, b : k = job[w].key /\ now = job[w].now /\ b = job'[w]
  OBVIOUS
<1>2. /\ job[w] \in Job /\ Waits(w, k) /\ now # NoTime
      /\ k \in LimitKey /\ now \in Nat /\ now <= clock
      /\ UNCHANGED <<rows, clock, issued, restarts>>
      /\ \A x \in LimitKey \ {k} : admitted'[x] = admitted[x] /\ windows'[x] = windows[x]
      /\ admitted'[k] = Longer(admitted[k], now, clock)
      /\ admitted' \in [LimitKey -> Seq(Instant)]
      /\ windows' \in [LimitKey -> Entry \cup {NoEntry}]
  BY <1>1, AdmitCounts
<1>3. \/ LimitOf(k) = 0 /\ windows'[k] = windows[k]
      \/ LimitOf(k) > 0 /\ Opens(windows[k], now, windows'[k])
      \/ LimitOf(k) > 0 /\ Counts(windows[k], LimitOf(k), now, windows'[k])
  BY <1>1, AdmitCounts
<1>4. /\ b \in Job \cup {Idle} /\ JobOK(b, clock)
      /\ b.at = "limit" => b.now = NoTime /\ \A t \in Token : b.key # TokenKey(t)
      /\ \A v \in Worker \ {w} : job'[v] = job[v]
  BY <1>1, AdmittedGoesOn
<1>5. clock \in Instant /\ clock \in Nat /\ restarts \in Nat
  BY OnboardingTyped
<1>6. OnboardingTypeOK'
  <2>1. job' \in [Worker -> Job \cup {Idle}]
    <3>1. PICK c : job' = [job EXCEPT ![w] = c]
      BY DEF Admit
    <3>2. job \in [Worker -> Job \cup {Idle}]
      BY DEF OnboardingTypeOK
    <3>3. c = b
      BY <1>1, <3>1, <3>2
    <3> QED
      BY <1>4, <3>1, <3>2, <3>3
  <2> QED
    BY <1>2, <2>1 DEF OnboardingTypeOK, WindowTypeOK
<1>7. JobInv'
  BY <1>1, <1>2, <1>4 DEF JobInv
<1>8. ASSUME NEW v \in Worker, NEW t \in Token, Waits(v, TokenKey(t))'
      PROVE  v # w /\ Waits(v, TokenKey(t))
  BY <1>1, <1>4, <1>8 DEF Waits
<1>9. CounterInv'
  <2> SUFFICES ASSUME NEW x \in LimitKey
               PROVE  /\ \A n \in DOMAIN admitted'[x] : admitted'[x][n] <= clock
                      /\ LimitOf(x) > 0 => \E s \in 0..clock : CounterOK(x, s)'
    BY <1>2 DEF CounterInv
  <2>1. \A n \in DOMAIN admitted[x] : admitted[x][n] \in 0..clock
    BY <1>5, CameAt, OnboardingTyped DEF CounterInv
  <2>2. CASE x # k
    <3>1. ASSUME LimitOf(x) > 0 PROVE \E s \in 0..clock : CounterOK(x, s)'
      <4>1. PICK s \in 0..clock : CounterOK(x, s)
        BY <3>1 DEF CounterInv
      <4>2. ASSUME NEW v \in Worker, Waits(v, x)', job'[v].now # NoTime
            PROVE  Waits(v, x) /\ job'[v] = job[v]
        BY <1>1, <1>4, <4>2 DEF Waits
      <4>3. CounterOK(x, s)'
        BY <1>2, <2>2, <4>1, <4>2 DEF CounterOK
      <4> QED
        BY <4>3
    <3> QED
      BY <1>2, <2>1, <2>2, <3>1
  <2>3. CASE x = k
    <3>1. \A n \in DOMAIN admitted'[k] : admitted'[k][n] \in 0..clock
      <4>1. clock \in 0..clock /\ admitted[k] \in Seq(Instant)
        BY <1>2, <1>5, OnboardingTyped
      <4> QED
        BY <1>2, <1>5, <2>1, <2>3, <4>1, AllOfAppend DEF Longer
    <3>2. ASSUME LimitOf(k) > 0 PROVE \E s \in 0..clock : CounterOK(k, s)'
      <4>1. PICK s \in 0..clock : CounterOK(k, s)
        BY <1>2, <3>2 DEF CounterInv
      <4>2. /\ LimitOf(k) \in Nat \ {0} /\ s \in Nat /\ s <= clock
            /\ admitted[k] \in Seq(Instant) /\ windows[k] \in Entry \cup {NoEntry}
            /\ \A t \in Token : issued[t] # NoTime => issued[t] \in Nat
        BY <1>2, <1>5, <3>2, Keys, OnboardingTyped
      <4>3. WindowOK(admitted[k], windows[k], LimitOf(k), restarts, s)
        BY <4>1 DEF CounterOK
      <4>4. ASSUME NEW z \in 0..clock,
                   WindowOK(admitted'[k], windows'[k], LimitOf(k), restarts, z),
                   windows'[k] # NoEntry,
                   \A a \in Nat : LifeOK(admitted[k], windows[k], LimitOf(k), restarts, s, a)
                      => LifeOK(admitted'[k], windows'[k], LimitOf(k), restarts, z, a)
            PROVE  CounterOK(k, z)'
        <5>1. ASSUME NEW t \in Token, k = TokenKey(t), issued[t] # NoTime
              PROVE  LifeOK(admitted'[k], windows'[k], LimitOf(k), restarts, z, issued[t])
          BY <4>1, <4>2, <4>4, <5>1 DEF CounterOK
        <5> QED
          BY <1>2, <4>4, <5>1 DEF CounterOK
      <4>5. CASE Opens(windows[k], now, windows'[k])
        <5>1. windows[k] = NoEntry =>
                 s <= now /\ \A n \in DOMAIN admitted[k] : admitted[k][n] <= now
          BY <1>1, <1>2, <4>1 DEF CounterOK
        <5>2. windows'[k] # NoEntry
          BY <1>2, <4>5, WindowAssumption DEF Opens
        <5>3. now \in 0..clock
          BY <1>2, <1>5
        <5>4. CounterOK(k, now)'
          BY <1>2, <1>5, <4>2, <4>3, <4>4, <4>5, <5>1, <5>2, <5>3, OpensKeeps
        <5> QED
          BY <5>3, <5>4
      <4>6. CASE Counts(windows[k], LimitOf(k), now, windows'[k])
        <5>1. windows'[k] # NoEntry
          <6>1. ASSUME NEW e \in Entry PROVE [e EXCEPT !.count = @ + 1] \in Entry
            BY DEF Entry
          <6> QED
            BY <4>2, <4>6, <6>1, WindowAssumption DEF Counts, Entry
        <5>2. CounterOK(k, s)'
          BY <1>2, <1>5, <4>2, <4>3, <4>4, <4>6, <5>1, CountsKeeps
        <5> QED
          BY <5>2
      <4> QED
        BY <1>3, <4>2, <4>5, <4>6
    <3> QED
      BY <2>3, <3>1, <3>2
  <2> QED
    BY <2>2, <2>3
<1>10. TokenInv'
  <2> SUFFICES ASSUME NEW t \in Token
               PROVE  IF issued[t] = NoTime THEN UnissuedOK(t)' ELSE IssuedOK(t)'
    BY <1>2 DEF TokenInv
  <2>1. TokenKey(t) \in LimitKey /\ LimitOf(TokenKey(t)) = TokenLimit
    BY Keys
  <2>2. CASE issued[t] = NoTime
    <3>1. UnissuedOK(t)
      BY <2>2 DEF TokenInv
    <3>2. TokenKey(t) # k
      BY <1>2, <3>1 DEF UnissuedOK
    <3> QED
      BY <1>2, <1>8, <2>1, <2>2, <3>1, <3>2 DEF UnissuedOK
  <2>3. CASE issued[t] # NoTime
    <3>1. IssuedOK(t)
      BY <2>3 DEF TokenInv
    <3>2. issued[t] \in Nat /\ TTL \in Nat
      BY <2>3, OnboardingTyped, OnboardingAssumption
    <3>3. admitted[TokenKey(t)] \in Seq(Instant) /\ admitted'[TokenKey(t)] \in Seq(Instant)
      BY <1>2, <2>1, OnboardingTyped
    <3>4. \A n \in DOMAIN admitted'[TokenKey(t)] : admitted'[TokenKey(t)][n] >= issued[t]
      <4>1. CASE TokenKey(t) # k
        BY <1>2, <2>1, <3>1, <4>1 DEF IssuedOK
      <4>2. CASE TokenKey(t) = k
        <5> DEFINE P == {i \in Nat : i >= issued[t]}
        <5>1. \A n \in DOMAIN admitted[k] : admitted[k][n] \in P
          BY <3>1, <3>3, <4>2, CameAt DEF IssuedOK
        <5>2. clock \in P
          BY <1>5, <3>1 DEF IssuedOK
        <5>3. \A n \in DOMAIN admitted'[k] : admitted'[k][n] \in P
          <6> HIDE DEF P
          <6> QED
            BY <1>2, <1>5, <3>3, <4>2, <5>1, <5>2, AllOfAppend DEF Longer
        <5> QED
          BY <4>2, <5>3
      <4> QED
        BY <4>1, <4>2
    <3>5. TokenLimit > 0 => InLife(t)' <= TokenLimit * (MostWindows + restarts)
      <4> SUFFICES ASSUME TokenLimit > 0
                   PROVE  InLife(t)' <= TokenLimit * (MostWindows + restarts)
        OBVIOUS
      <4>1. InLife(t)' = Times(admitted'[TokenKey(t)], Until(issued[t] + TTL))
        BY <1>2 DEF InLife, Times, Until
      <4>2. CASE TokenKey(t) # k
        BY <1>2, <2>1, <3>1, <4>1, <4>2 DEF IssuedOK, InLife
      <4>3. CASE TokenKey(t) = k /\ clock >= issued[t] + TTL
        <5>1. clock \notin Until(issued[t] + TTL)
          BY <1>5, <3>2, <4>3 DEF Until
        <5>2. InLife(t)' = InLife(t)
          BY <1>2, <1>5, <3>3, <4>1, <4>3, <5>1, TimesLonger DEF InLife
        <5> QED
          BY <3>1, <5>2 DEF IssuedOK
      <4>4. CASE clock < issued[t] + TTL
        <5>1. PICK s \in 0..clock : CounterOK(TokenKey(t), s)'
          BY <1>2, <1>9, <2>1 DEF CounterInv
        <5>2. /\ WindowOK(admitted'[TokenKey(t)], windows'[TokenKey(t)], TokenLimit, restarts, s)
              /\ LifeOK(admitted'[TokenKey(t)], windows'[TokenKey(t)], TokenLimit, restarts, s,
                        issued[t])
          BY <1>2, <2>1, <2>3, <5>1 DEF CounterOK
        <5>3. /\ windows'[TokenKey(t)] \in Entry \cup {NoEntry} /\ TokenLimit \in Nat \ {0}
              /\ s \in Nat /\ s <= clock
          BY <1>2, <1>5, <2>1, OnboardingAssumption
        <5>4. Times(admitted'[TokenKey(t)], Until(issued[t] + TTL))
                 <= TokenLimit * (MostWindows + restarts)
          BY <1>5, <3>2, <3>3, <4>4, <5>2, <5>3, LifeBound
        <5> QED
          BY <4>1, <5>4
      <4> QED
        BY <1>5, <3>2, <4>2, <4>3, <4>4
    <3>6. ASSUME clock >= issued[t] + TTL
          PROVE  Late(t)' + Cardinality(Waiting(TokenKey(t))') <= Cardinality(Worker)
      <4> DEFINE A == Waiting(TokenKey(t))
                 B == Waiting(TokenKey(t))'
      <4>1. A \in SUBSET Worker /\ B \subseteq A /\ w \notin B
        BY <1>8 DEF Waiting
      <4>2. /\ IsFiniteSet(A) /\ IsFiniteSet(B)
            /\ Cardinality(A) \in Nat /\ Cardinality(B) \in Nat /\ Cardinality(Worker) \in Nat
            /\ Cardinality(B) <= Cardinality(A)
        BY <4>1, WorkersFinite, FS_Subset
      <4>3. Late(t)' = Times(admitted'[TokenKey(t)], Since(issued[t] + TTL))
        BY <1>2 DEF Late, Times, Since
      <4>4. Late(t) \in Nat /\ Late(t)' \in Nat
        BY <3>3, <4>3, TimesNat DEF Late
      <4>5. Late(t) + Cardinality(A) <= Cardinality(Worker)
        BY <3>1, <3>6 DEF IssuedOK, LateOK
      <4>6. CASE TokenKey(t) # k
        <5>1. Late(t)' = Late(t)
          BY <1>2, <2>1, <4>3, <4>6 DEF Late
        <5> QED
          BY <4>2, <4>4, <4>5, <5>1
      <4>7. CASE TokenKey(t) = k
        <5>1. w \in A
          BY <1>2, <4>7 DEF Waiting
        <5>2. Cardinality(B) <= Cardinality(A) - 1
          <6>1. B \subseteq A \ {w}
            BY <4>1
          <6>2. /\ IsFiniteSet(A \ {w}) /\ Cardinality(A \ {w}) = Cardinality(A) - 1
            BY <4>2, <5>1, FS_RemoveElement
          <6>3. Cardinality(B) <= Cardinality(A \ {w})
            BY <6>1, <6>2, FS_Subset
          <6> QED
            BY <6>2, <6>3
        <5>3. Late(t)' <= Late(t) + 1
          BY <1>2, <1>5, <3>3, <4>3, <4>7, TimesLonger DEF Late
        <5> QED
          BY <4>2, <4>4, <4>5, <5>2, <5>3
      <4> QED
        BY <4>6, <4>7
    <3>7. LateOK(t)'
      BY <1>2, <3>6 DEF LateOK
    <3> QED
      BY <1>2, <2>3, <3>1, <3>4, <3>5, <3>7 DEF IssuedOK, MostWindows
  <2> QED
    BY <2>2, <2>3
<1> QED
  BY <1>6, <1>7, <1>9, <1>10

LEMMA OnboardingStep == OnboardingInv /\ [OnboardingNext]_onboardingVars => OnboardingInv'
<1> SUFFICES ASSUME OnboardingInv, [OnboardingNext]_onboardingVars PROVE OnboardingInv'
  OBVIOUS
<1>1. ASSUME NEW w \in Worker, NEW kind \in {"session", "translate"}, NEW ip \in IP,
             NEW t \in Token, Begin(w, kind, ip, t)
      PROVE  OnboardingInv'
  BY <1>1, BeginKeeps
<1>2. ASSUME NEW w \in Worker, NEW ip \in IP, NEW d \in Device, BeginEvent(w, ip, d)
      PROVE  OnboardingInv'
  BY <1>2, BeginEventKeeps
<1>3. ASSUME NEW w \in Worker, ReadsClock(w) PROVE OnboardingInv'
  BY <1>3, ReadsClockKeeps
<1>4. ASSUME NEW w \in Worker, Admit(w) PROVE OnboardingInv'
  BY <1>4, AdmitKeeps
<1>5. ASSUME NEW w \in Worker, Refuse(w) \/ ValidateFails(w) \/ Abort(w) PROVE OnboardingInv'
  <2>1. /\ job' = [job EXCEPT ![w] = Idle]
        /\ UNCHANGED <<windows, rows, clock, issued, admitted, restarts>>
    BY <1>5 DEF Refuse, ValidateFails, Abort
  <2> QED
    BY <2>1, EndKeeps
<1>6. ASSUME NEW w \in Worker, Issue(w) PROVE OnboardingInv'
  BY <1>6, IssueKeeps
<1>7. ASSUME NEW w \in Worker, ValidateAndTouch(w) PROVE OnboardingInv'
  BY <1>7, ValidateKeeps
<1>8. ASSUME CleanupOld PROVE OnboardingInv'
  BY <1>8, CleanupOldKeeps
<1>9. ASSUME ProcessRestart PROVE OnboardingInv'
  BY <1>9, ProcessRestartKeeps
<1>10. ASSUME Tick PROVE OnboardingInv'
  BY <1>10, TickKeeps
<1>11. ASSUME UNCHANGED onboardingVars PROVE OnboardingInv'
  BY <1>11
  DEF onboardingVars, OnboardingInv, OnboardingTypeOK, WindowTypeOK, JobInv, CounterInv,
      CounterOK, Waits, TokenInv, UnissuedOK, IssuedOK, LateOK, Late, Waiting, InLife
<1> QED
  BY <1>1, <1>2, <1>3, <1>4, <1>5, <1>6, <1>7, <1>8, <1>9, <1>10, <1>11 DEF OnboardingNext

\* Requests at the instants of S come at those of T or of U.
LEMMA TimesSplit ==
    ASSUME NEW q \in Seq(Instant), NEW S, NEW T, NEW U,
           \A n \in DOMAIN q : q[n] \in S => q[n] \in T \/ q[n] \in U
    PROVE  Times(q, S) <= Times(q, T) + Times(q, U)
<1> DEFINE A == {n \in DOMAIN q : q[n] \in S}
           B == {n \in DOMAIN q : q[n] \in T}
           C == {n \in DOMAIN q : q[n] \in U}
<1>1. IsFiniteSet(A) /\ IsFiniteSet(B) /\ IsFiniteSet(C) /\ A \subseteq B \cup C
  BY TimesFinite
<1>2. Times(q, S) = Cardinality(A) /\ Times(q, T) = Cardinality(B) /\ Times(q, U) = Cardinality(C)
  BY DEF Times
<1> HIDE DEF A, B, C
<1>3. /\ IsFiniteSet(B \cup C)
      /\ Cardinality(B \cup C) = Cardinality(B) + Cardinality(C) - Cardinality(B \cap C)
  BY <1>1, FS_Union
<1>4. IsFiniteSet(B \cap C) /\ B \cap C \subseteq B
  BY <1>1, FS_Subset
<1>5. Cardinality(A) <= Cardinality(B \cup C)
  BY <1>1, <1>3, FS_Subset
<1>6. /\ Cardinality(A) \in Nat /\ Cardinality(B) \in Nat /\ Cardinality(C) \in Nat
      /\ Cardinality(B \cap C) \in Nat
  BY <1>1, <1>4, FS_CardinalityType
<1> QED
  BY <1>2, <1>3, <1>5, <1>6

LEMMA BurstsAreBounded == OnboardingInv => BurstBounded
<1> SUFFICES ASSUME OnboardingInv, NEW k \in LimitKey, LimitOf(k) > 0,
                    NEW lately, lately = {i \in Instant : i <= clock /\ clock <= i + Window}
             PROVE  InAt(k, lately) <= LimitOf(k) * (2 + restarts)
  BY DEF BurstBounded
<1>1. PICK s \in 0..clock : CounterOK(k, s)
  BY DEF OnboardingInv, CounterInv
<1>2. WindowOK(admitted[k], windows[k], LimitOf(k), restarts, s)
  BY <1>1 DEF CounterOK
<1>3. /\ admitted[k] \in Seq(Instant) /\ windows[k] \in Entry \cup {NoEntry}
      /\ restarts \in Nat /\ LimitOf(k) \in Nat \ {0} /\ clock \in Nat /\ Window \in Nat
  BY Keys, OnboardingTyped, WindowAssumption DEF OnboardingInv
<1>4. CountOf(windows[k]) \in Nat /\ CountOf(windows[k]) <= LimitOf(k)
  BY <1>2, <1>3 DEF CountOf, Entry, WindowOK
<1>5. Times(admitted[k], lately) <= Times(admitted[k], Since(s - Window))
  <2>1. \A i \in Instant : i \in lately => i \in Since(s - Window)
    BY <1>3 DEF Since, Instant
  <2>2. \A n \in DOMAIN admitted[k] : admitted[k][n] \in Instant
    BY <1>3
  <2> QED
    BY <1>3, <2>1, <2>2, TimesFewer
<1>6. Times(admitted[k], Since(s - Window)) <= CountOf(windows[k]) + LimitOf(k) * (restarts + 1)
  BY <1>2 DEF WindowOK
<1>7. /\ LimitOf(k) * (restarts + 1) \in Int
      /\ LimitOf(k) * (2 + restarts) = LimitOf(k) * (restarts + 1) + LimitOf(k)
  <2>1. 2 + restarts = (restarts + 1) + 1
    BY <1>3
  <2> QED
    BY <1>3, <2>1, Multiples
<1>8. InAt(k, lately) = Times(admitted[k], lately)
  BY DEF InAt, Times
<1> QED
  BY <1>3, <1>4, <1>5, <1>6, <1>7, <1>8, TimesNat

LEMMA BudgetIsKept == OnboardingInv => TokenBudget
<1> SUFFICES ASSUME OnboardingInv, NEW t \in Token, TokenLimit > 0,
                    NEW life, life = {i \in Instant : issued[t] # NoTime /\ issued[t] <= i
                                                         /\ i < issued[t] + TTL},
                    NEW q, q = admitted[TokenKey(t)]
             PROVE  /\ clock \in life => Usable(t)
                    /\ Times(q, Instant) - Times(q, Instant \ life)
                          <= TokenLimit * (MostWindows + restarts)
                    /\ Times(q, Instant \ life) <= Cardinality(Worker)
                    /\ issued[t] = NoTime => Times(q, Instant) = 0
  BY DEF TokenBudget, InAt, Times, TokenKey, MostWindows
<1>1. /\ q \in Seq(Instant) /\ clock \in Nat /\ clock \in Instant /\ restarts \in Nat
      /\ issued[t] # NoTime => issued[t] \in Nat
      /\ TTL \in Nat \ {0} /\ NoToken \notin Nat
  BY Keys, OnboardingTyped, OnboardingAssumption DEF OnboardingInv
<1>2. CASE issued[t] = NoTime
  <2>1. q = <<>> /\ clock \notin life
    BY <1>2 DEF OnboardingInv, TokenInv, UnissuedOK
  <2>2. Times(q, Instant) = 0 /\ Times(q, Instant \ life) = 0
    <3>1. ASSUME NEW S PROVE Times(q, S) = 0
      <4>1. \A n \in DOMAIN q : q[n] \notin S
        BY <2>1
      <4> QED
        BY <1>1, <4>1, TimesNone
    <3> QED
      BY <3>1
  <2>3. TokenLimit * (MostWindows + restarts) >= 0
    <3>1. MostWindows \in Nat /\ TokenLimit \in Nat
      BY WindowAssumption, OnboardingAssumption, WindowsIn DEF MostWindows
    <3>2. TokenLimit * (MostWindows + restarts) >= TokenLimit * 0
      BY <1>1, <3>1, Multiples
    <3> QED
      BY <3>1, <3>2
  <2> QED
    BY <2>1, <2>2, <2>3, WorkersFinite
<1>3. CASE issued[t] # NoTime
  <2>1. IssuedOK(t)
    BY <1>3 DEF OnboardingInv, TokenInv
  <2>2. \A n \in DOMAIN q : q[n] \in Instant /\ q[n] \in Nat /\ q[n] >= issued[t] /\ q[n] <= clock
    <3>1. \A n \in DOMAIN q : q[n] \in Instant /\ q[n] \in Nat
      BY <1>1, CameAt
    <3>2. \A n \in DOMAIN q : q[n] >= issued[t] /\ q[n] <= clock
      BY <2>1, Keys DEF IssuedOK, OnboardingInv, CounterInv
    <3> QED
      BY <3>1, <3>2
  <2>3. clock \in life => Usable(t)
    BY <1>1, <1>3, <2>1 DEF IssuedOK, Usable
  <2>4. Times(q, Instant) <= Times(q, Instant \ life) + Times(q, Until(issued[t] + TTL))
    <3>1. \A i \in Instant : i \in Instant \ life \/ i \in Until(issued[t] + TTL)
      BY DEF Until
    <3>2. \A n \in DOMAIN q : q[n] \in Instant \ life \/ q[n] \in Until(issued[t] + TTL)
      BY <2>2, <3>1
    <3> QED
      BY <1>1, <3>2, TimesSplit
  <2>5. Times(q, Until(issued[t] + TTL)) <= TokenLimit * (MostWindows + restarts)
    BY <2>1 DEF IssuedOK, InLife
  <2>6. Times(q, Instant) - Times(q, Instant \ life) <= TokenLimit * (MostWindows + restarts)
    <3>1. TokenLimit * (MostWindows + restarts) \in Int
      BY <1>1, WindowAssumption, OnboardingAssumption, WindowsIn, Multiples DEF MostWindows
    <3> QED
      BY <1>1, <2>4, <2>5, <3>1, TimesNat
  <2>7. Times(q, Instant \ life) <= Late(t)
    <3>1. \A n \in DOMAIN q : q[n] \in Instant \ life => q[n] \in Since(issued[t] + TTL)
      BY <1>1, <1>3, <2>2 DEF Since
    <3> QED
      BY <1>1, <3>1, TimesFewer DEF Late
  <2>8. Late(t) <= Cardinality(Worker)
    <3>1. CASE clock >= issued[t] + TTL
      <4>1. Late(t) + Cardinality(Waiting(TokenKey(t))) <= Cardinality(Worker)
        BY <2>1, <3>1 DEF IssuedOK, LateOK
      <4>2. Waiting(TokenKey(t)) \in SUBSET Worker
        BY DEF Waiting
      <4> QED
        BY <1>1, <4>1, <4>2, WorkersFinite, TimesNat DEF Late
    <3>2. CASE clock < issued[t] + TTL
      <4>1. \A n \in DOMAIN q : q[n] \notin Since(issued[t] + TTL)
        BY <1>1, <1>3, <2>2, <3>2 DEF Since
      <4>2. Late(t) = 0
        BY <1>1, <4>1, TimesNone DEF Late
      <4> QED
        BY <4>2, WorkersFinite
    <3> QED
      BY <1>1, <1>3, <3>1, <3>2
  <2>9. Times(q, Instant \ life) <= Cardinality(Worker)
    BY <1>1, <2>7, <2>8, WorkersFinite, TimesNat DEF Late
  <2> QED
    BY <1>3, <2>3, <2>6, <2>9
<1> QED
  BY <1>2, <1>3

-----------------------------------------------------------------------------
(* Theorems *)

\* The inductive invariant: a window of every limiter, where it began and what it
\* let in since; for every token, what was let in during its life and after it.
THEOREM OnboardingInductive == OnboardingSpec => []OnboardingInv
BY OnboardingInitInv, OnboardingStep, PTL DEF OnboardingSpec

\* The state of the limiters, the tokens and their requests has the types that
\* are meant.
THEOREM OnboardingTypes == OnboardingSpec => []OnboardingTypeOK
<1>1. OnboardingInv => OnboardingTypeOK
  BY DEF OnboardingInv
<1> QED
  BY <1>1, OnboardingInductive, PTL

\* None of the five limiters (Allow) lets in more than twice its limit within a
\* window's length, and a limit for every restart of the process, however many
\* requests are between reading the time and the mutex.
THEOREM Bursts == OnboardingSpec => []BurstBounded
BY BurstsAreBounded, OnboardingInductive, PTL

\* A token that was issued is usable until it expires, whatever CleanupOld
\* does, and worth the limit for every window that fits into its life; who
\* passed the check in time can be late, but not more often than there are
\* requests at once; and without having been issued it is worth nothing.
THEOREM Budget == OnboardingSpec => []TokenBudget
BY BudgetIsKept, OnboardingInductive, PTL
=============================================================================
