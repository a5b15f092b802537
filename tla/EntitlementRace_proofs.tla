---------------------- MODULE EntitlementRace_proofs ----------------------
(***************************************************************************)
(* Proofs about EntitlementRace and Metrics, for any numbers of users,       *)
(* sources, slots, concurrent requests, accounts, devices and events.       *)
(***************************************************************************)
EXTENDS MCEntitlementRace, FiniteSetTheorems, FunctionTheorems, WellFoundedInduction, TLAPS

\* Any nonempty set of numbers has a least one.
LEMMA Least ==
    ASSUME NEW T \in SUBSET Nat, T # {}
    PROVE  \E m \in T : \A n \in T : m <= n
<1> DEFINE R == OpToRel(<, Nat)
<1>1. PICK x \in T : \A y \in T : ~ (<<y, x>> \in R)
  BY NatLessThanWellFounded, WFMin
<1>2. ASSUME NEW y \in Nat, y < x, x \in Nat PROVE <<y, x>> \in R
  BY <1>2 DEF OpToRel
<1> HIDE DEF R
<1>3. \A y \in T : ~(y < x)
  BY <1>1, <1>2
<1> QED
  BY <1>1, <1>3

\* A grant finds a slot that holds no row and that no open transaction has seen.
LEMMA NextSlotFree ==
    ASSUME NEW i \in Slot, FreeSlot(i)
    PROVE  NextSlot \in Slot /\ FreeSlot(NextSlot)
<1> DEFINE T == {j \in Slot : FreeSlot(j)}
<1>1. T \in SUBSET Nat /\ T # {}
  BY EntitlementAssumption DEF Slot
<1>2. PICK m \in T : \A n \in T : m <= n
  BY <1>1, Least
<1>3. m \in Slot /\ FreeSlot(m) /\ \A j \in Slot : FreeSlot(j) => m <= j
  BY <1>2
<1> HIDE DEF T
<1> QED
  BY <1>3 DEF NextSlot

-----------------------------------------------------------------------------
(* Who sees and locks what. *)

\* What an open transaction saw is active still, or was revoked; its slots are
\* not given to other rows.  Once it holds its locks, it revokes all of it.
TxInv ==
    \A w \in Worker :
       /\ tx[w].locked \subseteq tx[w].seen
       /\ \A i \in tx[w].seen : active[i] # NoRow =>
             /\ active[i].user = tx[w].user /\ active[i].source = tx[w].source
             /\ tx[w].at = "updated" => i \in tx[w].locked

\* A transaction that overlaps no other of its user and source has seen every
\* row of theirs there is.
LoneInv ==
    \A w \in Worker \ mixed : tx[w].at # "none" =>
       /\ Overlapping(w, tx[w].user, tx[w].source) = {}
       /\ ActiveRows(tx[w].user, tx[w].source) \subseteq tx[w].seen

\* granted[i] is the request that inserted the row in slot i.
Same(i, j) == active[i].user = active[j].user /\ active[i].source = active[j].source

\* Of a user and source, no two active rows were inserted by one request: when
\* it began the second time, it saw the first, and then revoked it.
GrantedApart(granted) ==
    /\ \A i, j \in Slot :
          active[i] # NoRow /\ active[j] # NoRow /\ Same(i, j) /\ granted[i] = granted[j] => i = j
    /\ \A w \in Worker, i \in Slot :
          /\ tx[w].at # "none" /\ active[i] # NoRow /\ granted[i] = w
          /\ active[i].user = tx[w].user /\ active[i].source = tx[w].source
          => i \in tx[w].seen
OwnerInv == IF Worker = {} THEN \A i \in Slot : active[i] = NoRow
            ELSE \E granted \in [Slot -> Worker] : GrantedApart(granted)

RaceInv == TypeOK /\ TxInv /\ LoneInv /\ OwnerInv

LEMMA RaceInit == Init => RaceInv
<1> SUFFICES ASSUME Init PROVE RaceInv
  OBVIOUS
<1>1. TypeOK /\ TxInv /\ LoneInv
  BY DEF Init, EntInit, TypeOK, EntTypeOK, TxInv, LoneInv, NoTx
<1>2. ASSUME NEW w \in Worker PROVE \E granted \in [Slot -> Worker] : GrantedApart(granted)
  <2>1. [i \in Slot |-> w] \in [Slot -> Worker] /\ GrantedApart([i \in Slot |-> w])
    BY DEF Init, EntInit, NoTx, GrantedApart
  <2> QED
    BY <2>1
<1> QED
  BY <1>1, <1>2 DEF RaceInv, OwnerInv, Init, EntInit

\* What the records of transactions are made of.
LEMMA TxShape ==
    ASSUME TypeOK, NEW w \in Worker
    PROVE  /\ tx[w] \in Tx \cup {NoTx}
           /\ tx[w].seen \subseteq Slot /\ tx[w].locked \subseteq Slot
           /\ tx[w].at # "none" <=> tx[w] \in Tx
           /\ tx[w].at # "none" => tx[w].user \in User /\ tx[w].source \in Source
BY DEF TypeOK, EntTypeOK, Tx, NoTx

LEMMA StartStep ==
    ASSUME RaceInv, NEW w \in Worker, NEW u \in User, NEW src \in Source, Start(w, u, src)
    PROVE  RaceInv'
<1> DEFINE t == [at |-> "update", user |-> u, source |-> src,
                 seen |-> ActiveRows(u, src), locked |-> {}]
<1>1. ActiveRows(u, src) \subseteq Slot
  BY DEF ActiveRows
<1>2. t \in Tx /\ t.at = "update" /\ t.user = u /\ t.source = src
      /\ t.seen = ActiveRows(u, src) /\ t.locked = {}
  BY <1>1 DEF Tx
<1>3. /\ tx[w].at = "none" /\ tx' = [tx EXCEPT ![w] = t] /\ UNCHANGED <<active, clock>>
      /\ mixed' = IF Overlapping(w, u, src) = {} THEN mixed
                  ELSE mixed \cup Overlapping(w, u, src) \cup {w}
  BY DEF Start, RevokeActive
<1> HIDE DEF t
<1>4. \A v \in Worker : tx'[v] = IF v = w THEN t ELSE tx[v]
  BY <1>3 DEF RaceInv, TypeOK, EntTypeOK
<1>5. TypeOK'
  BY <1>2, <1>3 DEF RaceInv, TypeOK, EntTypeOK, Overlapping
<1>6. TxInv'
  BY <1>2, <1>3, <1>4 DEF RaceInv, TxInv, ActiveRows
<1>7. LoneInv'
  <2> SUFFICES ASSUME NEW v \in Worker \ mixed', tx'[v].at # "none"
               PROVE  /\ \A q \in Worker \ {v} :
                            ~(/\ tx'[q].at # "none" /\ tx'[q].user = tx'[v].user
                              /\ tx'[q].source = tx'[v].source)
                      /\ \A i \in Slot : /\ active[i] # NoRow /\ active[i].user = tx'[v].user
                                         /\ active[i].source = tx'[v].source
                                         => i \in tx'[v].seen
    BY <1>3 DEF LoneInv, Overlapping, ActiveRows
  <2>1. v \notin mixed
    BY <1>3
  <2>2. CASE v = w
    BY <1>2, <1>3, <1>4, <2>2 DEF Overlapping, ActiveRows
  <2>3. CASE v # w
    <3>1. v \notin Overlapping(w, u, src)
      BY <1>3
    <3>2. ~(tx[v].user = u /\ tx[v].source = src)
      BY <1>4, <2>3, <3>1 DEF Overlapping
    <3> QED
      BY <1>2, <1>4, <2>1, <2>3, <3>2 DEF RaceInv, LoneInv, Overlapping, ActiveRows
  <2> QED
    BY <2>2, <2>3
<1>8. OwnerInv'
  <2>1. PICK granted \in [Slot -> Worker] : GrantedApart(granted)
    BY DEF RaceInv, OwnerInv
  <2>2. GrantedApart(granted)'
    BY <1>2, <1>3, <1>4, <2>1 DEF GrantedApart, Same, ActiveRows
  <2> QED
    BY <2>1, <2>2 DEF OwnerInv
<1> QED
  BY <1>5, <1>6, <1>7, <1>8 DEF RaceInv

LEMMA UpdatedStep ==
    ASSUME RaceInv, NEW w \in Worker, Updated(w)
    PROVE  RaceInv'
<1> DEFINE t == [tx[w] EXCEPT !.at = "updated",
                              !.locked = {i \in tx[w].seen : active[i] # NoRow}]
<1>1. tx[w] \in Tx /\ tx[w].at = "update"
  BY TxShape DEF RaceInv, Updated, LockRows
<1>2. /\ t \in Tx /\ t.at = "updated" /\ t.user = tx[w].user /\ t.source = tx[w].source
      /\ t.seen = tx[w].seen /\ t.locked = {i \in tx[w].seen : active[i] # NoRow}
  BY <1>1 DEF Tx
<1>3. tx' = [tx EXCEPT ![w] = t] /\ UNCHANGED <<active, clock, mixed>>
  BY DEF Updated, LockRows
<1> HIDE DEF t
<1>4. \A v \in Worker : tx'[v] = IF v = w THEN t ELSE tx[v]
  BY <1>3 DEF RaceInv, TypeOK, EntTypeOK
<1>5. TypeOK'
  BY <1>2, <1>3 DEF RaceInv, TypeOK, EntTypeOK
<1>6. TxInv'
  BY <1>2, <1>3, <1>4 DEF RaceInv, TxInv
<1>7. \A v \in Worker : /\ tx'[v].at # "none" <=> tx[v].at # "none"
                        /\ tx'[v].seen = tx[v].seen
                        /\ tx[v].at # "none" =>
                              tx'[v].user = tx[v].user /\ tx'[v].source = tx[v].source
  BY <1>1, <1>2, <1>4
<1>8. LoneInv'
  BY <1>3, <1>7 DEF RaceInv, LoneInv, Overlapping, ActiveRows
<1>9. OwnerInv'
  <2> SUFFICES ASSUME NEW granted \in [Slot -> Worker], GrantedApart(granted)
               PROVE  GrantedApart(granted)'
    BY DEF RaceInv, OwnerInv
  <2> QED
    BY <1>3, <1>7 DEF GrantedApart, Same
<1> QED
  BY <1>5, <1>6, <1>8, <1>9 DEF RaceInv

\* What the end of a transaction leaves of the others, when no row of a slot
\* that one of them has seen is replaced by another row.
LEMMA EndStep ==
    ASSUME RaceInv, NEW w \in Worker, tx[w].at # "none",
           tx' = [tx EXCEPT ![w] = NoTx], mixed' = mixed \ {w}, clock' = clock,
           active' \in [Slot -> Row \cup {NoRow}],
           \A i \in Slot : active'[i] # active[i] =>
              \/ active'[i] = NoRow
              \/ /\ active'[i].user = tx[w].user /\ active'[i].source = tx[w].source
                 /\ \A v \in Worker : i \notin tx[v].seen
    PROVE  TypeOK' /\ TxInv' /\ LoneInv'
<1>1. \A v \in Worker : tx'[v] = IF v = w THEN NoTx ELSE tx[v]
  BY DEF RaceInv, TypeOK, EntTypeOK
<1>2. TypeOK'
  BY DEF RaceInv, TypeOK, EntTypeOK
<1>3. \A v \in Worker : \A i \in tx[v].seen :
         i \in Slot /\ (active'[i] = NoRow \/ active'[i] = active[i])
  BY TxShape DEF RaceInv
<1>4. TxInv'
  BY <1>1, <1>3 DEF RaceInv, TxInv, NoTx
<1>5. LoneInv'
  <2> SUFFICES ASSUME NEW v \in Worker \ mixed', tx'[v].at # "none"
               PROVE  /\ Overlapping(v, tx[v].user, tx[v].source)' = {}
                      /\ \A i \in Slot : /\ active'[i] # NoRow
                                         /\ active'[i].user = tx[v].user
                                         /\ active'[i].source = tx[v].source
                                         => i \in tx[v].seen
    BY <1>1 DEF LoneInv, ActiveRows, Overlapping, NoTx
  <2>1. v # w /\ v \in Worker \ mixed /\ tx'[v] = tx[v] /\ tx[v].at # "none"
    BY <1>1 DEF NoTx
  <2>2. /\ Overlapping(v, tx[v].user, tx[v].source) = {}
        /\ ActiveRows(tx[v].user, tx[v].source) \subseteq tx[v].seen
    BY <2>1 DEF RaceInv, LoneInv
  <2>3. ~(tx[w].user = tx[v].user /\ tx[w].source = tx[v].source)
    BY <2>1, <2>2 DEF Overlapping
  <2>4. Overlapping(v, tx[v].user, tx[v].source)' = {}
    BY <1>1, <2>1, <2>2 DEF Overlapping, NoTx
  <2>5. ASSUME NEW i \in Slot, active'[i] # NoRow, active'[i].user = tx[v].user,
               active'[i].source = tx[v].source
        PROVE  i \in tx[v].seen
    <3>1. active'[i] = active[i]
      BY <2>3, <2>5
    <3> QED
      BY <2>2, <2>5, <3>1 DEF ActiveRows
  <2> QED
    BY <2>4, <2>5
<1> QED
  BY <1>2, <1>4, <1>5

LEMMA GrantShape ==
    ASSUME TypeOK, NEW w \in Worker, NEW x \in Expiry, Grant(w, x)
    PROVE  \E n \in Slot, new \in Row :
              /\ new.user = tx[w].user /\ new.source = tx[w].source /\ new.expires = x
              /\ active[n] = NoRow /\ new # NoRow /\ \A v \in Worker : n \notin tx[v].seen
              /\ active' = [i \in Slot |-> IF i = n THEN new
                                           ELSE IF i \in tx[w].locked THEN NoRow ELSE active[i]]
              /\ tx[w].at = "updated" /\ tx' = [tx EXCEPT ![w] = NoTx]
              /\ mixed' = mixed \ {w} /\ clock' = clock
<1> DEFINE n == NextSlot
           new == [user |-> tx[w].user, source |-> tx[w].source, expires |-> x]
<1>1. n \in Slot /\ FreeSlot(n)
  BY NextSlotFree DEF Grant, CommitGrant
<1>2. active[n] = NoRow /\ \A v \in Worker : n \notin tx[v].seen
  BY <1>1 DEF FreeSlot
<1>3. tx[w].at = "updated" /\ tx[w].user \in User /\ tx[w].source \in Source
  BY TxShape DEF Grant, CommitGrant
<1>4. new \in Row /\ new.user = tx[w].user /\ new.source = tx[w].source /\ new.expires = x
  BY <1>3, ExpiryAssumption DEF Row
<1>5. new # NoRow
  BY <1>4, EntitlementAssumption DEF Row
<1>6. /\ active' = [i \in Slot |-> IF i = n THEN new
                                   ELSE IF i \in tx[w].locked THEN NoRow ELSE active[i]]
      /\ tx' = [tx EXCEPT ![w] = NoTx] /\ mixed' = mixed \ {w} /\ clock' = clock
  BY DEF Grant, CommitGrant, EndTx
<1> HIDE DEF n, new
<1> QED
  BY <1>1, <1>2, <1>3, <1>4, <1>5, <1>6

LEMMA GrantStep ==
    ASSUME RaceInv, NEW w \in Worker, NEW x \in Expiry, Grant(w, x)
    PROVE  RaceInv'
<1>1. PICK n \in Slot, new \in Row :
         /\ new.user = tx[w].user /\ new.source = tx[w].source
         /\ active[n] = NoRow /\ new # NoRow /\ \A v \in Worker : n \notin tx[v].seen
         /\ active' = [i \in Slot |-> IF i = n THEN new
                                      ELSE IF i \in tx[w].locked THEN NoRow ELSE active[i]]
         /\ tx[w].at = "updated" /\ tx' = [tx EXCEPT ![w] = NoTx]
         /\ mixed' = mixed \ {w} /\ clock' = clock
  BY GrantShape DEF RaceInv
<1>2. active' \in [Slot -> Row \cup {NoRow}]
  BY <1>1 DEF RaceInv, TypeOK, EntTypeOK
<1>3. /\ active'[n] = new
      /\ \A i \in Slot : i # n => /\ i \in tx[w].locked => active'[i] = NoRow
                                  /\ i \notin tx[w].locked => active'[i] = active[i]
  BY <1>1
<1>4. TypeOK' /\ TxInv' /\ LoneInv'
  BY <1>1, <1>2, <1>3, EndStep
<1>5. \A v \in Worker : tx'[v] = IF v = w THEN NoTx ELSE tx[v]
  BY <1>1 DEF RaceInv, TypeOK, EntTypeOK
<1>6. OwnerInv'
  <2>1. PICK granted \in [Slot -> Worker] : GrantedApart(granted)
    BY DEF RaceInv, OwnerInv
  <2> DEFINE g == [granted EXCEPT ![n] = w]
  <2>2. g \in [Slot -> Worker] /\ g[n] = w /\ \A i \in Slot : i # n => g[i] = granted[i]
    BY <2>1
  <2> HIDE DEF g
  <2>3. ASSUME NEW i \in Slot, i # n, active'[i] # NoRow
        PROVE  /\ active'[i] = active[i]
               /\ ~(/\ active[i].user = new.user /\ active[i].source = new.source
                    /\ granted[i] = w)
    <3>1. active'[i] = active[i] /\ i \notin tx[w].locked
      BY <1>3, <2>3
    <3>2. i \notin tx[w].seen
      BY <1>1, <2>3, <3>1 DEF RaceInv, TxInv
    <3> QED
      BY <1>1, <2>1, <2>3, <3>1, <3>2 DEF GrantedApart
  <2>4. ASSUME NEW i \in Slot, NEW j \in Slot, active'[i] # NoRow, active'[j] # NoRow,
               active'[i].user = active'[j].user, active'[i].source = active'[j].source,
               g[i] = g[j]
        PROVE  i = j
    <3>1. CASE i = n /\ j # n
      BY <1>3, <2>2, <2>3, <2>4, <3>1
    <3>2. CASE i # n /\ j = n
      BY <1>3, <2>2, <2>3, <2>4, <3>2
    <3>3. CASE i # n /\ j # n
      BY <2>1, <2>2, <2>3, <2>4, <3>3 DEF GrantedApart, Same
    <3> QED
      BY <3>1, <3>2, <3>3
  <2>5. ASSUME NEW v \in Worker, NEW i \in Slot, tx'[v].at # "none", active'[i] # NoRow,
               g[i] = v, active'[i].user = tx'[v].user, active'[i].source = tx'[v].source
        PROVE  i \in tx'[v].seen
    <3>1. v # w /\ tx'[v] = tx[v]
      BY <1>5, <2>5 DEF NoTx
    <3>2. i # n
      BY <2>2, <2>5, <3>1
    <3> QED
      BY <2>1, <2>2, <2>3, <2>5, <3>1, <3>2 DEF GrantedApart
  <2>6. GrantedApart(g)'
    BY <2>4, <2>5 DEF GrantedApart, Same
  <2> QED
    BY <2>2, <2>6 DEF OwnerInv
<1> QED
  BY <1>4, <1>6 DEF RaceInv

LEMMA RevokeStep ==
    ASSUME RaceInv, NEW w \in Worker, Revoke(w) \/ Rollback(w)
    PROVE  RaceInv'
<1>1. /\ tx[w].at # "none" /\ tx' = [tx EXCEPT ![w] = NoTx] /\ mixed' = mixed \ {w}
      /\ clock' = clock
  BY DEF Revoke, CommitRevoke, Rollback, EndTx
<1>2. /\ active' \in [Slot -> Row \cup {NoRow}]
      /\ \A i \in Slot : active'[i] = active[i] \/ active'[i] = NoRow
  BY DEF Revoke, CommitRevoke, Rollback, RaceInv, TypeOK, EntTypeOK
<1>3. TypeOK' /\ TxInv' /\ LoneInv'
  BY <1>1, <1>2, EndStep
<1>4. \A v \in Worker : tx'[v] = IF v = w THEN NoTx ELSE tx[v]
  BY <1>1 DEF RaceInv, TypeOK, EntTypeOK
<1>5. OwnerInv'
  <2> SUFFICES ASSUME NEW granted \in [Slot -> Worker], GrantedApart(granted)
               PROVE  GrantedApart(granted)'
    BY DEF RaceInv, OwnerInv
  <2>1. \A i \in Slot : active'[i] # NoRow => active'[i] = active[i] /\ active[i] # NoRow
    BY <1>2
  <2>2. \A v \in Worker : tx'[v].at # "none" => tx'[v] = tx[v]
    BY <1>4 DEF NoTx
  <2> QED
    BY <2>1, <2>2 DEF GrantedApart, Same
<1> QED
  BY <1>3, <1>5 DEF RaceInv

LEMMA RaceNext == RaceInv /\ [Next]_vars => RaceInv'
<1> SUFFICES ASSUME RaceInv, [Next]_vars PROVE RaceInv'
  OBVIOUS
<1>1. CASE UNCHANGED vars
  <2>1. TypeOK' /\ TxInv' /\ LoneInv'
    BY <1>1 DEF vars, RaceInv, TypeOK, EntTypeOK, TxInv, LoneInv, Overlapping, ActiveRows
  <2>2. \A granted : GrantedApart(granted) => GrantedApart(granted)'
    BY <1>1 DEF vars, GrantedApart, Same
  <2>3. OwnerInv'
    BY <1>1, <2>2 DEF RaceInv, OwnerInv, vars
  <2> QED
    BY <2>1, <2>3 DEF RaceInv
<1> QED
  BY <1>1, StartStep, UpdatedStep, GrantStep, RevokeStep DEF Next

LEMMA Races == Spec => []RaceInv
BY RaceInit, RaceNext, PTL DEF Spec

\* Concurrent grants can leave a user several active rows of one source, but
\* never more than there are concurrent requests.
THEOREM RowsBounded == Spec => []ActiveRowsBounded
<1>1. ASSUME RaceInv, NEW u \in User, NEW src \in Source
      PROVE  Cardinality(ActiveRows(u, src)) <= Cardinality(Worker)
  <2> DEFINE rows == ActiveRows(u, src)
  <2>1. rows \subseteq Slot
    BY DEF ActiveRows
  <2>2. CASE Worker = {}
    <3>1. rows = {}
      BY <1>1, <2>2 DEF RaceInv, OwnerInv, ActiveRows
    <3> QED
      BY <2>2, <3>1, FS_EmptySet
  <2>3. CASE Worker # {}
    <3>1. PICK granted \in [Slot -> Worker] : GrantedApart(granted)
      BY <1>1, <2>3 DEF RaceInv, OwnerInv
    <3> DEFINE f == [i \in rows |-> granted[i]]
    <3>2. \A i, j \in rows : granted[i] = granted[j] => i = j
      BY <3>1 DEF GrantedApart, Same, ActiveRows
    <3> HIDE DEF rows
    <3>3. f \in Injection(rows, Worker)
      BY <2>1, <3>1, <3>2 DEF Injection, IsInjective
    <3> QED
      BY <3>3, FS_Injection, EntitlementAssumption DEF rows
  <2> QED
    BY <2>2, <2>3
<1>2. RaceInv => ActiveRowsBounded
  BY <1>1 DEF ActiveRowsBounded
<1> QED
  BY <1>2, Races, PTL

-----------------------------------------------------------------------------
\* A commit of w is its own grant or revocation.
LEMMA CommitStep ==
    ASSUME TypeOK, Next, NEW w \in Worker, active' # active,
           tx[w].at = "updated", tx'[w] = NoTx
    PROVE  Revoke(w) \/ \E x \in Expiry : Grant(w, x)
<1>1. ASSUME NEW v \in Worker, Revoke(v) \/ \E x \in Expiry : Grant(v, x), v # w PROVE FALSE
  <2>1. tx' = [tx EXCEPT ![v] = NoTx]
    BY <1>1 DEF Revoke, CommitRevoke, Grant, CommitGrant, EndTx
  <2>2. tx'[w] = tx[w]
    BY <1>1, <2>1 DEF TypeOK, EntTypeOK
  <2> QED
    BY <2>2 DEF NoTx
<1> QED
  BY <1>1 DEF Next, Start, Updated, Rollback

LEMMA GrantDecides ==
    ASSUME RaceInv, NEW w \in Worker, NEW x \in Expiry, Grant(w, x),
           NEW u \in User, NEW src \in Source, tx[w].user = u, tx[w].source = src
    PROVE  /\ \A i \in Slot : active'[i] # active[i] =>
                 \A row \in {active[i], active'[i]} \ {NoRow} : row.user = u /\ row.source = src
           /\ w \notin mixed => \E i \in Slot : ActiveRows(u, src)' = {i} /\ active'[i].expires = x
<1>1. PICK n \in Slot, new \in Row :
         /\ new.user = u /\ new.source = src /\ new.expires = x
         /\ active[n] = NoRow /\ new # NoRow
         /\ active' = [i \in Slot |-> IF i = n THEN new
                                      ELSE IF i \in tx[w].locked THEN NoRow ELSE active[i]]
         /\ tx[w].at = "updated"
  BY GrantShape DEF RaceInv
<1>2. /\ active'[n] = new
      /\ \A i \in Slot : i # n => /\ i \in tx[w].locked => active'[i] = NoRow
                                  /\ i \notin tx[w].locked => active'[i] = active[i]
  BY <1>1
<1>3. /\ tx[w].locked \subseteq tx[w].seen
      /\ \A i \in tx[w].seen : active[i] # NoRow =>
            active[i].user = u /\ active[i].source = src /\ i \in tx[w].locked
  BY <1>1 DEF RaceInv, TxInv
<1>4. ASSUME w \notin mixed PROVE ActiveRows(u, src)' = {n} /\ active'[n].expires = x
  <2>1. ActiveRows(u, src) \subseteq tx[w].seen
    BY <1>1, <1>4 DEF RaceInv, LoneInv
  <2>2. ASSUME NEW i \in Slot, i # n, active'[i] # NoRow, active'[i].user = u,
               active'[i].source = src
        PROVE  FALSE
    <3>1. active'[i] = active[i] /\ i \notin tx[w].locked
      BY <1>2, <2>2
    <3> QED
      BY <1>3, <2>1, <2>2, <3>1 DEF ActiveRows
  <2> QED
    BY <1>1, <1>2, <2>2 DEF ActiveRows
<1> QED
  BY <1>1, <1>2, <1>3, <1>4

LEMMA RevokeDecides ==
    ASSUME RaceInv, NEW w \in Worker, Revoke(w),
           NEW u \in User, NEW src \in Source, tx[w].user = u, tx[w].source = src
    PROVE  /\ \A i \in Slot : active'[i] # active[i] =>
                 \A row \in {active[i], active'[i]} \ {NoRow} : row.user = u /\ row.source = src
           /\ w \notin mixed => ActiveRows(u, src)' = {}
<1>1. /\ tx[w].at = "updated"
      /\ \A i \in Slot : /\ i \in tx[w].locked => active'[i] = NoRow
                         /\ i \notin tx[w].locked => active'[i] = active[i]
  BY DEF Revoke, CommitRevoke
<1>2. /\ tx[w].locked \subseteq tx[w].seen
      /\ \A i \in tx[w].seen : active[i] # NoRow =>
            active[i].user = u /\ active[i].source = src /\ i \in tx[w].locked
  BY <1>1 DEF RaceInv, TxInv
<1>3. ASSUME w \notin mixed PROVE ActiveRows(u, src)' = {}
  <2>1. ActiveRows(u, src) \subseteq tx[w].seen
    BY <1>1, <1>3 DEF RaceInv, LoneInv
  <2> QED
    BY <1>1, <1>2, <2>1 DEF ActiveRows
<1> QED
  BY <1>1, <1>2, <1>3

LEMMA DecidedStep == RaceInv /\ [Next]_vars => [CommitDecided]_vars
<1> SUFFICES ASSUME RaceInv, Next, NEW w \in Worker, NEW u \in User, NEW src \in Source,
                    Commits(w, u, src)
             PROVE  /\ \A i \in Slot : active'[i] # active[i] =>
                          \A row \in {active[i], active'[i]} \ {NoRow} :
                             row.user = u /\ row.source = src
                    /\ w \notin mixed =>
                          \/ Revoke(w) /\ ActiveRows(u, src)' = {}
                          \/ \E x \in Expiry, i \in Slot :
                               /\ Grant(w, x) /\ ActiveRows(u, src)' = {i}
                               /\ active'[i].expires = x
  BY DEF CommitDecided
<1>1. Revoke(w) \/ \E x \in Expiry : Grant(w, x)
  BY CommitStep DEF RaceInv, Commits
<1>2. tx[w].user = u /\ tx[w].source = src
  BY DEF Commits
<1>3. CASE Revoke(w)
  BY <1>2, <1>3, RevokeDecides
<1>4. ASSUME NEW x \in Expiry, Grant(w, x)
      PROVE  /\ \A i \in Slot : active'[i] # active[i] =>
                   \A row \in {active[i], active'[i]} \ {NoRow} : row.user = u /\ row.source = src
             /\ w \notin mixed =>
                   \E i \in Slot : ActiveRows(u, src)' = {i} /\ active'[i].expires = x
  BY <1>2, <1>4, GrantDecides
<1> QED
  BY <1>1, <1>3, <1>4

\* Web, App Store and development entitlements do not touch each other; and the
\* last undisturbed transaction of a user and source decides, whatever the races
\* before it left.
THEOREM LastWriterDecides == Spec => CommitDecides
<1>1. RaceInv /\ [Next]_vars => [CommitDecided]_vars
  BY DecidedStep
<1> QED
  BY <1>1, Races, PTL DEF Spec, CommitDecides

-----------------------------------------------------------------------------
(* The report.  Every count is of a finite set. *)

LEMMA DevicesFinite ==
    ASSUME NEW table \in Seq(EventRow), NEW rows \in SUBSET {table[i] : i \in 1..Len(table)}
    PROVE  /\ IsFiniteSet({e.device : e \in rows})
           /\ Cardinality({e.device : e \in rows}) \in Nat
<1> DEFINE f == [i \in 1..Len(table) |-> table[i].device]
           all == {table[i].device : i \in 1..Len(table)}
<1>1. Len(table) \in Nat
  OBVIOUS
<1>2. IsFiniteSet(1..Len(table))
  BY <1>1, FS_Interval
<1>3. f \in Surjection(1..Len(table), all)
  BY DEF Surjection
<1>4. IsFiniteSet(all)
  BY <1>2, <1>3, FS_Surjection
<1>5. {e.device : e \in rows} \in SUBSET all
  OBVIOUS
<1> HIDE DEF all
<1>6. IsFiniteSet({e.device : e \in rows})
  BY <1>4, <1>5, FS_Subset
<1> QED
  BY <1>6, FS_CardinalityType

\* Counting the devices of two halves counts each device.
LEMMA Halves ==
    ASSUME MetricsTypeOK, NEW part1 \in SUBSET Received, NEW part2 \in SUBSET Received,
           part1 \cup part2 = Received
    PROVE  Devices(Received) <= Devices(part1) + Devices(part2)
<1> DEFINE D(rows) == {e.device : e \in rows}
<1>1. /\ IsFiniteSet(D(part1)) /\ IsFiniteSet(D(part2))
      /\ Devices(part1) \in Nat /\ Devices(part2) \in Nat
  BY DevicesFinite DEF MetricsTypeOK, Received, Devices
<1>2. D(Received) = D(part1) \cup D(part2)
  OBVIOUS
<1> HIDE DEF D
<1>3. Cardinality(D(part1) \cap D(part2)) \in Nat
  BY <1>1, FS_Intersection, FS_CardinalityType
<1>4. Cardinality(D(Received)) =
         Cardinality(D(part1)) + Cardinality(D(part2)) - Cardinality(D(part1) \cap D(part2))
  BY <1>1, <1>2, FS_Union
<1> QED
  BY <1>1, <1>3, <1>4 DEF D, Devices

LEMMA SlotsFinite ==
    ASSUME NEW S \in SUBSET Slot
    PROVE  IsFiniteSet(S) /\ Cardinality(S) \in Nat
<1>1. IsFiniteSet(Slot)
  BY FS_Interval, EntitlementAssumption DEF Slot
<1> QED
  BY <1>1, FS_Subset, FS_CardinalityType

LEMMA AccountsFinite ==
    ASSUME NEW S \in SUBSET Account
    PROVE  IsFiniteSet(S) /\ Cardinality(S) \in Nat
BY FS_Subset, FS_CardinalityType, MetricsAssumption

\* What one statement over registered users and their active rows reads: every
\* account is free or has a row, and only an account with several rows makes
\* the sum exceed the number of accounts.
LEMMA Split ==
    ASSUME TypeOK, registered \subseteq Account, User \subseteq registered
    PROVE  /\ Cardinality(registered) <= ActiveCount + FreeRegistered
           /\ ~CountedTwice => ActiveCount + FreeRegistered <= Cardinality(registered)
           /\ ActiveCount \in Nat /\ FreeRegistered \in Nat
<1> DEFINE A == {i \in Slot : active[i] # NoRow}
           F == {a \in registered : RowsOf(a) = {}}
           P == registered \ F
<1>1. /\ IsFiniteSet(A) /\ Cardinality(A) \in Nat
      /\ IsFiniteSet(F) /\ Cardinality(F) \in Nat
      /\ IsFiniteSet(P) /\ Cardinality(P) \in Nat
      /\ IsFiniteSet(registered) /\ Cardinality(registered) \in Nat
  BY SlotsFinite, AccountsFinite
<1>2. ActiveCount = Cardinality(A) /\ FreeRegistered = Cardinality(F)
  BY DEF ActiveCount, FreeRegistered
<1>3. Cardinality(P) = Cardinality(registered) - Cardinality(F)
  <2>1. registered \cap F = F
    OBVIOUS
  <2> HIDE DEF F
  <2> QED
    BY <1>1, <2>1, FS_Difference
<1>4. Cardinality(P) <= Cardinality(A)
  <2> DEFINE f == [a \in P |-> CHOOSE i \in A : active[i].user = a]
  <2>1. ASSUME NEW a \in P PROVE \E i \in A : active[i].user = a
    BY DEF RowsOf
  <2>2. ASSUME NEW a \in P PROVE f[a] \in A /\ active[f[a]].user = a
    <3> HIDE DEF A, P
    <3> QED
      BY <2>1
  <2> HIDE DEF A, P
  <2>3. f \in [P -> A]
    BY <2>2
  <2> HIDE DEF f
  <2>4. f \in Injection(P, A)
    BY <2>2, <2>3 DEF Injection, IsInjective
  <2> QED
    BY <1>1, <2>4, FS_Injection
<1>5. ASSUME ~CountedTwice PROVE Cardinality(A) <= Cardinality(P)
  <2> DEFINE h == [i \in A |-> active[i].user]
  <2>1. ASSUME NEW i \in A PROVE active[i].user \in P /\ i \in RowsOf(active[i].user)
    <3>1. active[i] \in Row
      BY DEF TypeOK, EntTypeOK
    <3>2. active[i].user \in registered
      BY <3>1 DEF Row
    <3> QED
      BY <3>2 DEF RowsOf
  <2>2. ASSUME NEW i \in A, NEW j \in A, active[i].user = active[j].user PROVE i = j
    <3> DEFINE rows == RowsOf(active[i].user)
    <3>1. i \in rows /\ j \in rows /\ rows \in SUBSET Slot
      BY <2>1, <2>2 DEF RowsOf
    <3>2. Cardinality(rows) <= 1
      <4>1. ~(Cardinality(rows) > 1)
        BY <1>5, <2>1 DEF CountedTwice
      <4>2. Cardinality(rows) \in Nat
        BY <3>1, SlotsFinite
      <4> HIDE DEF rows
      <4> QED
        BY <4>1, <4>2
    <3> HIDE DEF rows
    <3>3. SUFFICES ASSUME i # j PROVE FALSE
      OBVIOUS
    <3>4. Cardinality({i} \cup {j}) = 2
      <4>1. IsFiniteSet({i}) /\ Cardinality({i}) = 1
        BY FS_Singleton
      <4>2. Cardinality({i} \cup {j}) = IF j \in {i} THEN 1 ELSE 1 + 1
        BY <4>1, FS_AddElement
      <4> QED
        BY <3>3, <4>2
    <3>5. IsFiniteSet(rows) /\ Cardinality(rows) \in Nat
      BY <3>1, SlotsFinite
    <3>6. Cardinality({i} \cup {j}) <= Cardinality(rows)
      BY <3>1, <3>5, FS_Subset
    <3> QED
      BY <3>2, <3>4, <3>5, <3>6
  <2> HIDE DEF A, P
  <2>3. h \in [A -> P]
    BY <2>1
  <2>4. h \in Injection(A, P)
    BY <2>2, <2>3 DEF Injection, IsInjective
  <2> QED
    BY <1>1, <2>4, FS_Injection
<1> HIDE DEF A, F, P
<1> QED
  BY <1>1, <1>2, <1>3, <1>4, <1>5

-----------------------------------------------------------------------------
\* What the statements that have run know, until the answer is out: each number
\* is bounded by what is in the tables now.
ReportInv ==
    /\ MetricsTypeOK /\ TypeOK /\ User \subseteq registered
    /\ report.at \in {"dau", "authAnon", "platform", "subscription"} =>
          report.users <= Cardinality(registered)
    /\ report.at \in {"authAnon", "platform"} => report.dau <= Devices(Received)
    /\ report.at \in Statement \ {"summary", "dau", "authAnon", "refused"} =>
          report.dau <= report.auth + report.anon
    /\ report.at \in Statement \ {"summary", "dau", "authAnon", "platform", "refused"} =>
          report.dau <= report.iphone + report.ipad
    /\ report.at \in {"reading", "translations", "served"} =>
          /\ report.users <= report.pro + report.free
          /\ ~report.twice => report.pro + report.free <= Cardinality(registered)

LEMMA ReportInit == Init /\ MetricsInit => ReportInv
BY MetricsAssumption, RaceInit
DEF MetricsInit, ReportInv, RaceInv, MetricsTypeOK, NoReport, Statement

LEMMA ReportShape ==
    ASSUME MetricsTypeOK
    PROVE  /\ report.at # "none" <=> report \in Report
           /\ Cardinality(registered) \in Nat
           /\ Devices(Received) \in Nat
<1>1. Cardinality(registered) \in Nat
  BY AccountsFinite DEF MetricsTypeOK
<1>2. Devices(Received) \in Nat
  BY DevicesFinite DEF MetricsTypeOK, Devices, Received
<1> QED
  BY <1>1, <1>2 DEF MetricsTypeOK, Report, NoReport, Statement

\* The tables only grow under a report.
LEMMA TablesGrow ==
    ASSUME ReportInv, report' = report, MetricsTypeOK', TypeOK', registered \subseteq registered',
           Received \subseteq Received'
    PROVE  ReportInv'
<1>1. /\ Cardinality(registered) \in Nat /\ Cardinality(registered') \in Nat
      /\ Cardinality(registered) <= Cardinality(registered')
  <2>1. registered' \in SUBSET Account
    BY DEF MetricsTypeOK
  <2>2. IsFiniteSet(registered')
    BY <2>1, AccountsFinite
  <2> QED
    BY <2>2, FS_Subset, FS_CardinalityType
<1>2. /\ Devices(Received) \in Nat /\ Devices(Received)' \in Nat
      /\ Devices(Received) <= Devices(Received)'
  <2> DEFINE D == {e.device : e \in Received}
  <2>1. IsFiniteSet(D') /\ Devices(Received)' = Cardinality(D')
    <3>1. events' \in Seq(EventRow)
      BY DEF MetricsTypeOK
    <3> QED
      BY <3>1, DevicesFinite DEF Devices, Received
  <2>2. D \in SUBSET D' /\ Devices(Received) = Cardinality(D)
    BY DEF Devices
  <2> HIDE DEF D
  <2> QED
    BY <2>1, <2>2, FS_Subset, FS_CardinalityType
<1>3. report.at # "none" => report \in Report
  BY ReportShape DEF ReportInv
<1>4. User \subseteq registered'
  BY DEF ReportInv
<1>5. report.at \in {"dau", "authAnon", "platform", "subscription"} =>
         report.users <= Cardinality(registered')
  BY <1>1, <1>3 DEF ReportInv, Report
<1>6. report.at \in {"authAnon", "platform"} => report.dau <= Devices(Received)'
  BY <1>2, <1>3 DEF ReportInv, Report
<1>7. report.at \in {"reading", "translations", "served"} =>
          /\ report.users <= report.pro + report.free
          /\ ~report.twice => report.pro + report.free <= Cardinality(registered')
  BY <1>1, <1>3 DEF ReportInv, Report
<1> QED
  BY <1>4, <1>5, <1>6, <1>7 DEF ReportInv

LEMMA TablesStep ==
    ASSUME ReportInv, TypeOK',
           \/ Next /\ UNCHANGED metricsVars
           \/ UNCHANGED <<vars, metricsVars>>
           \/ \E a \in Account : Register(a)
           \/ \E device \in Device, signedIn \in BOOLEAN, platform \in {"iphone", "ipad"},
                 d \in Delta : HandleAnalyticsEvents(device, signedIn, platform, d)
    PROVE  ReportInv'
<1>1. report' = report /\ registered \subseteq registered' /\ registered' \subseteq Account
  BY DEF ReportInv, MetricsTypeOK, metricsVars, Register, HandleAnalyticsEvents
<1>2. events' \in Seq(EventRow) /\ Received \subseteq Received'
  <2>1. CASE events' = events
    BY <2>1 DEF ReportInv, MetricsTypeOK, Received
  <2>2. ASSUME NEW device \in Device, NEW signedIn \in BOOLEAN, NEW platform \in {"iphone", "ipad"},
               NEW d \in Delta, HandleAnalyticsEvents(device, signedIn, platform, d)
        PROVE  events' \in Seq(EventRow) /\ Received \subseteq Received'
    <3>1. PICK user \in BOOLEAN :
             events' = Append(events, [device |-> device, user |-> user, platform |-> platform,
                                       delta |-> d])
      BY <2>2 DEF HandleAnalyticsEvents
    <3> DEFINE e == [device |-> device, user |-> user, platform |-> platform, delta |-> d]
    <3>2. e \in EventRow
      BY DEF EventRow
    <3> HIDE DEF e
    <3>3. events \in Seq(EventRow) /\ events' = Append(events, e)
      BY <3>1 DEF ReportInv, MetricsTypeOK, e
    <3>4. /\ events' \in Seq(EventRow) /\ Len(events) \in Nat
          /\ Len(events') = Len(events) + 1
          /\ \A k \in 1..Len(events) : events'[k] = events[k]
      BY <3>2, <3>3
    <3> QED
      BY <3>4 DEF Received
  <2> QED
    BY <2>1, <2>2 DEF metricsVars, Register
<1>3. MetricsTypeOK'
  BY <1>1, <1>2 DEF ReportInv, MetricsTypeOK
<1> QED
  BY <1>1, <1>2, <1>3, TablesGrow

\* A statement leaves the tables alone.
LEMMA StatementStep ==
    ASSUME ReportInv, NEW r \in Report \cup {NoReport}, Becomes(r)
    PROVE  /\ report' = r /\ MetricsTypeOK' /\ TypeOK' /\ User \subseteq registered'
           /\ Cardinality(registered') = Cardinality(registered)
           /\ Devices(Received)' = Devices(Received)
BY DEF ReportInv, Becomes, MetricsTypeOK, TypeOK, EntTypeOK, Devices, Received

LEMMA AskStep ==
    ASSUME ReportInv, Ask \/ ReportEnds
    PROVE  ReportInv'
<1>1. Blank \in Report /\ Blank.at = "summary" /\ NoReport.at = "none"
  BY DEF Blank, Report, Statement, NoReport
<1>2. CASE Ask
  BY <1>1, <1>2, StatementStep DEF Ask, ReportInv
<1>3. CASE ReportEnds
  BY <1>1, <1>3, StatementStep DEF ReportEnds, ReportInv, Statement
<1> QED
  BY <1>2, <1>3

LEMMA SummaryStep ==
    ASSUME ReportInv, Summary
    PROVE  ReportInv'
<1> DEFINE r == [report EXCEPT !.at = "dau", !.users = Cardinality(registered),
                               !.activePro = ActiveCount]
<1>1. report \in Report /\ Cardinality(registered) \in Nat /\ ActiveCount \in Nat
  BY ReportShape, Split DEF Summary, ReportInv, MetricsTypeOK
<1>2. r \in Report /\ r.at = "dau" /\ r.users = Cardinality(registered)
  BY <1>1 DEF Report, Statement
<1>3. Becomes(r)
  BY DEF Summary
<1> HIDE DEF r
<1> QED
  BY <1>1, <1>2, <1>3, StatementStep DEF ReportInv

LEMMA DauSeriesStep ==
    ASSUME ReportInv, DauSeries
    PROVE  ReportInv'
<1> DEFINE r == [report EXCEPT !.at = "authAnon", !.dau = Devices(Received)]
<1>1. report \in Report /\ Devices(Received) \in Nat /\ report.at = "dau"
  BY ReportShape DEF DauSeries, ReportInv
<1>2. r \in Report /\ r.at = "authAnon" /\ r.dau = Devices(Received) /\ r.users = report.users
  BY <1>1 DEF Report, Statement
<1>3. Becomes(r)
  BY DEF DauSeries
<1> HIDE DEF r
<1> QED
  BY <1>1, <1>2, <1>3, StatementStep DEF ReportInv

LEMMA AuthAnonStep ==
    ASSUME ReportInv, AuthAnon
    PROVE  ReportInv'
<1> DEFINE auth == {e \in Received : e.user}
           anon == {e \in Received : ~e.user}
           r == [report EXCEPT !.at = "platform", !.auth = Devices(auth), !.anon = Devices(anon)]
<1>1. /\ report \in Report /\ report.at = "authAnon"
      /\ Devices(Received) <= Devices(auth) + Devices(anon)
  BY ReportShape, Halves DEF AuthAnon, ReportInv
<1>2. Devices(auth) \in Nat /\ Devices(anon) \in Nat /\ Devices(Received) \in Nat
  BY DevicesFinite DEF ReportInv, MetricsTypeOK, Devices, Received
<1>3. Becomes(r)
  BY DEF AuthAnon
<1> HIDE DEF auth, anon
<1>4. /\ r \in Report /\ r.at = "platform" /\ r.dau = report.dau /\ r.users = report.users
      /\ r.auth = Devices(auth) /\ r.anon = Devices(anon)
  BY <1>1, <1>2 DEF Report, Statement
<1>5. r.dau <= Devices(Received) /\ r.dau <= r.auth + r.anon
  BY <1>1, <1>2, <1>4 DEF ReportInv, Report
<1> HIDE DEF r
<1> QED
  BY <1>1, <1>3, <1>4, <1>5, StatementStep DEF ReportInv

LEMMA PlatformStep ==
    ASSUME ReportInv, Platform
    PROVE  ReportInv'
<1> DEFINE iphone == {e \in Received : e.platform = "iphone"}
           ipad == {e \in Received : e.platform = "ipad"}
           r == [report EXCEPT !.at = "subscription", !.iphone = Devices(iphone),
                               !.ipad = Devices(ipad)]
<1>0. iphone \cup ipad = Received
  <2>1. \A i \in 1..Len(events) : events[i] \in EventRow
    BY DEF ReportInv, MetricsTypeOK
  <2>2. \A e \in Received : e.platform \in {"iphone", "ipad"}
    BY <2>1 DEF Received, EventRow
  <2> QED
    BY <2>2
<1>1. /\ report \in Report /\ report.at = "platform"
      /\ Devices(Received) <= Devices(iphone) + Devices(ipad)
  BY <1>0, ReportShape, Halves DEF Platform, ReportInv
<1>2. Devices(iphone) \in Nat /\ Devices(ipad) \in Nat /\ Devices(Received) \in Nat
  BY DevicesFinite DEF ReportInv, MetricsTypeOK, Devices, Received
<1>3. Becomes(r)
  BY DEF Platform
<1> HIDE DEF iphone, ipad
<1>4. /\ r \in Report /\ r.at = "subscription" /\ r.dau = report.dau /\ r.users = report.users
      /\ r.iphone = Devices(iphone) /\ r.ipad = Devices(ipad)
      /\ r.auth = report.auth /\ r.anon = report.anon
  BY <1>1, <1>2 DEF Report, Statement
<1>5. r.dau <= r.iphone + r.ipad
  BY <1>1, <1>2, <1>4 DEF ReportInv, Report
<1> HIDE DEF r
<1> QED
  BY <1>1, <1>3, <1>4, <1>5, StatementStep DEF ReportInv, Statement

LEMMA SubscriptionStep ==
    ASSUME ReportInv, Subscription
    PROVE  ReportInv'
<1> DEFINE r == [report EXCEPT !.at = "reading", !.pro = ActiveCount,
                               !.free = FreeRegistered, !.twice = CountedTwice]
<1>1. /\ report \in Report /\ report.at = "subscription" /\ Cardinality(registered) \in Nat
      /\ report.users \in Nat /\ report.users <= Cardinality(registered)
  BY ReportShape DEF Subscription, ReportInv, Report
<1>2. /\ Cardinality(registered) <= ActiveCount + FreeRegistered
      /\ ~CountedTwice => ActiveCount + FreeRegistered <= Cardinality(registered)
      /\ ActiveCount \in Nat /\ FreeRegistered \in Nat
  BY Split DEF ReportInv, MetricsTypeOK
<1>3. Becomes(r)
  BY DEF Subscription
<1>4. CountedTwice \in BOOLEAN
  BY DEF CountedTwice
<1>5. r.twice <=> CountedTwice
  BY <1>1 DEF Report
<1>6. /\ r.at = "reading" /\ r.pro = ActiveCount /\ r.free = FreeRegistered
      /\ r.users = report.users /\ r.dau = report.dau /\ r.auth = report.auth
      /\ r.anon = report.anon /\ r.iphone = report.iphone /\ r.ipad = report.ipad
  BY <1>1 DEF Report
<1>7. r \in Report
  <2> DEFINE t == CountedTwice
  <2>1. t \in BOOLEAN
    BY <1>4
  <2> HIDE DEF t
  <2>2. [report EXCEPT !.at = "reading", !.pro = ActiveCount, !.free = FreeRegistered,
                       !.twice = t] \in Report
    BY <1>1, <1>2, <2>1 DEF Report, Statement
  <2> QED
    BY <2>2 DEF t
<1> HIDE DEF r
<1>8. r.users <= r.pro + r.free
  BY <1>1, <1>2, <1>6
<1>9. ~r.twice => r.pro + r.free <= Cardinality(registered)
  BY <1>2, <1>5, <1>6
<1> QED
  BY <1>1, <1>3, <1>6, <1>7, <1>8, <1>9, StatementStep DEF ReportInv, Statement

LEMMA ReadingStep ==
    ASSUME ReportInv, Reading \/ Translations
    PROVE  ReportInv'
<1> DEFINE st == IF report.at = "translations" THEN "served"
                 ELSE IF Summable THEN "translations" ELSE "refused"
           r == [report EXCEPT !.at = st]
<1>1. report \in Report /\ report.at \in {"reading", "translations"}
  BY ReportShape DEF Reading, Translations, ReportInv
<1>2. st \in {"translations", "served", "refused"} /\ Becomes(r)
  BY DEF Reading, Translations
<1> HIDE DEF st
<1>3. /\ r \in Report /\ r.at = st /\ r.dau = report.dau /\ r.users = report.users
      /\ r.auth = report.auth /\ r.anon = report.anon /\ r.iphone = report.iphone
      /\ r.ipad = report.ipad /\ r.pro = report.pro /\ r.free = report.free
      /\ r.twice = report.twice
  BY <1>1, <1>2 DEF Report, Statement
<1> HIDE DEF r
<1> QED
  BY <1>1, <1>2, <1>3, StatementStep DEF ReportInv, Statement

LEMMA ReportNext ==
    ReportInv /\ RaceInv' /\ [MetricsNext]_<<vars, metricsVars>> => ReportInv'
BY TablesStep, AskStep, SummaryStep, DauSeriesStep, AuthAnonStep, PlatformStep,
   SubscriptionStep, ReadingStep
DEF MetricsNext, RaceInv

\* The report changes nothing that the writers of entitlements look at.
LEMMA ReportReads == [MetricsNext]_<<vars, metricsVars>> => [Next]_vars
BY DEF MetricsNext, Register, HandleAnalyticsEvents, Becomes, Ask, Summary, DauSeries, AuthAnon,
       Platform, Subscription, Reading, Translations, ReportEnds, vars

LEMMA Reports == MetricsSpec => []ReportInv
<1>1. Init /\ MetricsInit => ReportInv
  BY ReportInit
<1>2. ReportInv /\ RaceInv' /\ [MetricsNext]_<<vars, metricsVars>> => ReportInv'
  BY ReportNext
<1>3. [MetricsNext]_<<vars, metricsVars>> => [Next]_vars
  BY ReportReads
<1> QED
  BY <1>1, <1>2, <1>3, Races, PTL DEF MetricsSpec, Spec

\* The numbers of a report taken while everything goes on agree as far as
\* ReportAddsUp says, whatever devices send and accounts buy meanwhile.
THEOREM ReportsAddUp == MetricsSpec => []ReportAddsUp
<1>1. ReportInv => ReportAddsUp
  BY DEF ReportInv, ReportAddsUp, Statement
<1> QED
  BY <1>1, Reports, PTL

\* Type correctness of writers and report, as the run explores them.
THEOREM TypesCorrect == ProSpec => []ProTypeOK
<1>1. ProInit => Init /\ MetricsInit
  BY DEF ProInit
<1>2. [ProNext]_allVars => [MetricsNext]_<<vars, metricsVars>>
  BY DEF ProNext, allVars, MetricsNext, metricsVars
<1>3. ReportInv => ProTypeOK
  BY DEF ReportInv, ProTypeOK
<1> QED
  BY <1>1, <1>2, <1>3, Reports, PTL DEF ProSpec, MetricsSpec

=============================================================================
