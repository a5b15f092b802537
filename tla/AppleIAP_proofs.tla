--------------------------- MODULE AppleIAP_proofs ---------------------------
(***************************************************************************)
(* Proofs about AppleIAP, for any users, lineages, notifications, slots and *)
(* concurrent requests.                                                     *)
(***************************************************************************)
EXTENDS AppleIAP, FiniteSetTheorems, WellFoundedInduction, TLAPS

\* Any nonempty set of numbers has a least one.
LEMMA Least ==
    ASSUME NEW T \in SUBSET Nat, T # {}
    PROVE  \E m \in T : \A n \in T : m <= n
<1> DEFINE R == OpToRel(<, Nat)
<1>1. PICK x \in T : \A y \in T : ~ (<<y, x>> \in R)
  BY NatLessThanWellFounded, WFMin
<1>2. ASSUME NEW y \in Nat, y < x, x \in Nat PROVE <<y, x>> \in R
  BY <1>2 DEF OpToRel
<1> HIDE DEF R
<1>3. \A y \in T : ~(y < x)
  BY <1>1, <1>2
<1> QED
  BY <1>1, <1>3

\* A grant finds a slot that holds no row and that no open transaction has seen.
LEMMA NextSlotFree ==
    ASSUME NEW i \in Slot, FreeSlot(i)
    PROVE  NextSlot \in Slot /\ FreeSlot(NextSlot)
<1> DEFINE T == {j \in Slot : FreeSlot(j)}
<1>1. T \in SUBSET Nat /\ T # {}
  BY EntitlementAssumption DEF Slot
<1>2. PICK m \in T : \A n \in T : m <= n
  BY <1>1, Least
<1>3. m \in Slot /\ FreeSlot(m) /\ \A j \in Slot : FreeSlot(j) => m <= j
  BY <1>2
<1> HIDE DEF T
<1> QED
  BY <1>3 DEF NextSlot

-----------------------------------------------------------------------------
(* The inductive invariant. *)

Writing(w) == job[w].at \in {"update", "commit"}

\* What a request in each state has at hand, and how far its transaction is.
JobOK(j, t) ==
    /\ j.at \notin {"idle", "unlinked"} => j.user \in User
    /\ j.at \notin {"update", "commit"} => t.at = "none"
    /\ j.at = "update" => t.at = "update"
    /\ j.at = "commit" => t.at = "updated"
    /\ t.at # "none" => t.user = j.user /\ t.source = "apple_iap"
    /\ j.at \in {"fetched", "noted", "update", "commit"} => j.expires \in apple[j.line].periods
    /\ j.at \in {"heal", "fetched"} => j.note = 0
    /\ j.note # 0 => /\ j.note \in 1..Len(sent) /\ j.note \notin recorded
                     /\ sent[j.note].line = j.line
                     /\ j.at # "unlinked" => /\ subs[j.line] # NoSub
                                             /\ j.line \in linked[j.user]
    /\ j.at \in {"unlinked", "noted"} => j.note # 0
    /\ j.at = "unlinked" => /\ j.user = apple[j.line].token
                            /\ subs[j.line] = NoSub \/ j.note \in overtaken
    /\ j.heals # 0 => /\ j.note = 0 /\ j.heals \in 1..Len(sent)
                      /\ sent[j.heals].line = j.line
    /\ /\ j.note = 0 /\ j.at \in {"fetched", "update", "commit"}
       /\ j.status # "active"
       => Over(j.line)
JobInv == \A w \in Worker : JobOK(job[w], tx[w])

\* One request at a time writes for a lineage, and one for a notification.
LockInv ==
    \A w \in Worker, v \in Worker : v # w =>
       /\ Writing(v) /\ Writing(w) => job[v].line # job[w].line
       /\ job[v].note # 0 => job[v].note # job[w].note

\* A lineage that was bought has a latest period, and notifications name one of
\* its periods.
SalesInv ==
    /\ \A l \in Line : Bought(l) =>
          \E x \in apple[l].periods : \A y \in apple[l].periods : y <= x
    /\ \A n \in 1..Len(sent) : sent[n].expires \in apple[sent[n].line].periods

LinkInv == \A l \in Line : subs[l] # NoSub => l \in linked[subs[l].user]

\* As in EntitlementRace: slots that were seen are not given to other rows.
SeenOK(t) ==
    /\ t.locked \subseteq t.seen
    /\ \A i \in t.seen : active[i] # NoRow =>
          /\ active[i].user = t.user
          /\ t.at = "updated" => i \in t.locked
TxInv == \A w \in Worker : SeenOK(tx[w])

\* of[i] is the lineage the row in slot i was written for.  A lineage has one row
\* per user, and who writes for both has seen it: the lock on the subscription
\* row is taken before the snapshot of the UPDATE.
Stands(of, i) == /\ active[i].source = "apple_iap"
                 /\ of[i] \in linked[active[i].user]
                 /\ active[i].expires \in apple[of[i]].periods
Owns(of) ==
    /\ \A i \in Slot : active[i] # NoRow => Stands(of, i)
    /\ \A i, k \in Slot : /\ active[i] # NoRow /\ active[k] # NoRow
                          /\ active[i].user = active[k].user /\ of[i] = of[k]
                          => i = k
    /\ \A w \in Worker : Writing(w) =>
          \A i \in Slot : /\ active[i] # NoRow /\ active[i].user = job[w].user
                          /\ of[i] = job[w].line
                          => i \in tx[w].seen
OwnerInv == \E of \in [Slot -> Line \cup {NoSub}] : Owns(of)

\* TablesAgree, but for the number of rows.
Agrees(l) ==
    LET u == subs[l].user  grants == Grants(subs[l].status) IN
    /\ \A i \in Slot : active[i] # NoRow /\ active[i].user = u =>
          grants /\ active[i].expires = subs[l].expires
    /\ grants => \E i \in Slot : active[i] # NoRow /\ active[i].user = u
AgreeInv ==
    \A l \in Line :
        subs[l] # NoSub /\ linked[subs[l].user] = {l} /\ l \notin crossed => Agrees(l)

IAPInv == /\ TypeOK /\ JobInv /\ LockInv /\ SalesInv /\ LinkInv /\ TxInv /\ OwnerInv /\ AgreeInv

LEMMA IAPInit == Init => IAPInv
<1> SUFFICES ASSUME Init PROVE IAPInv
  OBVIOUS
<1>1. TypeOK
  <2>1. ASSUME NEW b \in [periods : {{}}, revoked : {FALSE}, token : Token]
        PROVE  b \in Lineage
    <3>1. \A F : F \in {FALSE} => F \in BOOLEAN
      BY Zenon
    <3>2. b.revoked \in {FALSE}
      OBVIOUS
    <3>3. b.revoked \in BOOLEAN
      BY <3>1, <3>2, Zenon
    <3>4. b.periods \in SUBSET Nat /\ b.token \in User \cup {NoUser}
      BY AppleAssumption
    <3> QED
      BY <3>3, <3>4 DEF Lineage
  <2>2. apple \in [Line -> Lineage]
    BY <2>1 DEF Init
  <2> QED
    BY <2>2 DEF Init, EntInit, TypeOK, EntTypeOK
<1>2. JobInv /\ LockInv /\ TxInv /\ LinkInv /\ AgreeInv
  BY DEF Init, EntInit, JobInv, JobOK, LockInv, Writing, TxInv, SeenOK, LinkInv, AgreeInv, Idle, NoTx
<1>3. SalesInv
  <2>1. ASSUME NEW l \in Line PROVE apple[l].periods = {}
    BY DEF Init
  <2>2. Len(sent) = 0
    BY DEF Init
  <2> QED
    BY <2>1, <2>2 DEF SalesInv, Bought
<1>4. OwnerInv
  <2>1. Owns([i \in Slot |-> NoSub])
    BY DEF Init, EntInit, Owns, Writing, Idle
  <2>2. [i \in Slot |-> NoSub] \in [Slot -> Line \cup {NoSub}]
    OBVIOUS
  <2> QED
    BY <2>1, <2>2 DEF OwnerInv
<1> QED
  BY <1>1, <1>2, <1>3, <1>4 DEF IAPInv

LEMMA JobShape ==
    ASSUME TypeOK, NEW w \in Worker
    PROVE  /\ job[w].at = "idle" <=> job[w] = Idle
           /\ job[w].at # "idle" <=> job[w] \in Job
           /\ job[w] \in Job \cup {Idle} /\ tx[w] \in Tx \cup {NoTx}
           /\ tx[w].seen \subseteq Slot /\ tx[w].locked \subseteq Slot
           /\ tx[w].at # "none" <=> tx[w] \in Tx
           /\ tx[w].at = "none" <=> tx[w] = NoTx
BY DEF TypeOK, EntTypeOK, Tx, NoTx, Job, Idle

LEMMA SentShape ==
    ASSUME IAPInv, NEW n \in 1..Len(sent)
    PROVE  /\ sent[n] \in Notification /\ sent[n].line \in Line /\ sent[n].expires \in Nat
           /\ sent[n].expires \in apple[sent[n].line].periods
<1>1. sent[n] \in Notification
  BY DEF IAPInv, TypeOK
<1> QED
  BY <1>1 DEF Notification, IAPInv, SalesInv

LEMMA LineageShape ==
    ASSUME IAPInv, NEW l \in Line
    PROVE  /\ apple[l] \in Lineage /\ apple[l].periods \subseteq Nat
           /\ apple[l].token \in User \cup {NoUser}
           /\ subs[l] # NoSub => /\ subs[l] \in Sub /\ subs[l].user \in User
                                 /\ l \in linked[subs[l].user]
BY DEF IAPInv, TypeOK, Lineage, Sub, LinkInv

-----------------------------------------------------------------------------
(* Steps that write to none of the tables but that of the notifications.     *)

LEMMA QuietStep ==
    ASSUME IAPInv, NEW w \in Worker, NEW j \in Job \cup {Idle}, NEW t \in Tx \cup {NoTx},
           job' = [job EXCEPT ![w] = j], tx' = [tx EXCEPT ![w] = t],
           UNCHANGED <<active, clock, apple, sent, subs, applied, linked, crossed>>,
           overtaken' \in {overtaken, overtaken \ {job[w].note}}, lost' \subseteq Note,
           recorded' \subseteq Note,
           \A v \in Worker \ {w} : job[v].note # 0 => job[v].note \notin recorded',
           j.note # 0 => j.note \notin recorded',
           j.at = "unlinked" => subs[j.line] = NoSub \/ j.note \in overtaken',
           JobOK(j, t), SeenOK(t),
           \A v \in Worker \ {w} :
              /\ j.note # 0 => job[v].note # j.note
              /\ j.at \in {"update", "commit"} /\ Writing(v) => job[v].line # j.line,
           \A of \in [Slot -> Line \cup {NoSub}] :
              Owns(of) /\ j.at \in {"update", "commit"} =>
                 \A i \in Slot : /\ active[i] # NoRow /\ active[i].user = j.user
                                 /\ of[i] = j.line
                                 => i \in t.seen
    PROVE  IAPInv'
<1>1. /\ job'[w] = j /\ tx'[w] = t
      /\ \A v \in Worker \ {w} : job'[v] = job[v] /\ tx'[v] = tx[v]
  BY DEF IAPInv, TypeOK, EntTypeOK
<1>2. TypeOK'
  BY DEF IAPInv, TypeOK, EntTypeOK
<1>3. JobInv'
  <2> SUFFICES ASSUME NEW v \in Worker PROVE JobOK(job[v], tx[v])'
    BY DEF JobInv
  <2>1. CASE v = w
    BY <1>1, <2>1 DEF JobOK, Over
  <2>2. CASE v # w
    <3>1. JobOK(job[v], tx[v]) /\ (job[v].note # 0 => job[v].note # job[w].note)
      BY <2>2 DEF IAPInv, JobInv, LockInv
    <3>2. job[v].at = "unlinked" => subs[job[v].line] = NoSub \/ job[v].note \in overtaken'
      BY <3>1 DEF JobOK
    <3> QED
      BY <1>1, <2>2, <3>1, <3>2 DEF JobOK, Over
  <2> QED
    BY <2>1, <2>2
<1>4. LockInv'
  <2> SUFFICES ASSUME NEW v \in Worker, NEW y \in Worker, v # y
               PROVE  /\ Writing(v)' /\ Writing(y)' => job'[v].line # job'[y].line
                      /\ job'[v].note # 0 => job'[v].note # job'[y].note
    BY DEF LockInv
  <2> QED
    BY <1>1 DEF IAPInv, LockInv, Writing
<1>5. SalesInv' /\ LinkInv'
  BY DEF IAPInv, SalesInv, Bought, LinkInv
<1>6. TxInv'
  BY <1>1 DEF IAPInv, TxInv, SeenOK
<1>7. OwnerInv'
  <2>1. PICK of \in [Slot -> Line \cup {NoSub}] : Owns(of)
    BY DEF IAPInv, OwnerInv
  <2>2. ASSUME NEW v \in Worker, Writing(v)', NEW i \in Slot,
               active[i] # NoRow, active[i].user = job'[v].user, of[i] = job'[v].line
        PROVE  i \in tx'[v].seen
    <3>1. CASE v = w
      BY <1>1, <2>1, <2>2, <3>1 DEF Writing
    <3>2. CASE v # w
      BY <1>1, <2>1, <2>2, <3>2 DEF Writing, Owns
    <3> QED
      BY <3>1, <3>2
  <2>3. Owns(of)'
    BY <2>1, <2>2 DEF Owns, Stands
  <2> QED
    BY <2>3 DEF OwnerInv
<1>8. AgreeInv'
  BY DEF IAPInv, AgreeInv, Agrees
<1> QED
  BY <1>2, <1>3, <1>4, <1>5, <1>6, <1>7, <1>8 DEF IAPInv

\* What such a step finds unchanged where it changes nothing.
LEMMA Recorded ==
    ASSUME IAPInv, UNCHANGED recorded
    PROVE  /\ recorded' \subseteq Note /\ lost \subseteq Note
           /\ \A v \in Worker : job[v].note # 0 => job[v].note \notin recorded'
BY DEF IAPInv, TypeOK, JobInv, JobOK

\* A transaction is over, without any effect.
LEMMA OverStep ==
    ASSUME IAPInv, NEW w \in Worker, Abort(w) \/ ValidateNotEntitled(w)
    PROVE  IAPInv'
<1>1. /\ job' = [job EXCEPT ![w] = Idle] /\ tx' = [tx EXCEPT ![w] = NoTx]
      /\ UNCHANGED <<active, clock, apple, sent, subs, recorded, applied, linked, crossed>>
      /\ overtaken' \in {overtaken, overtaken \ {job[w].note}}
      /\ lost' \subseteq lost \cup ({job[w].heals} \ {0})
  BY DEF Abort, BreaksOff, ValidateNotEntitled, EndTx
<1>2. /\ Idle \in Job \cup {Idle} /\ NoTx \in Tx \cup {NoTx}
      /\ Idle.at = "idle" /\ Idle.note = 0 /\ JobOK(Idle, NoTx) /\ SeenOK(NoTx)
  BY DEF Idle, NoTx, JobOK, SeenOK
<1>3. lost' \subseteq Note
  BY <1>1, JobShape DEF IAPInv, TypeOK, Job, Idle
<1> QED
  BY <1>1, <1>2, <1>3, Recorded, QuietStep

\* Apple has answered, for a user and one of the periods of a lineage.
LEMMA FetchStep ==
    ASSUME IAPInv, NEW w \in Worker, tx[w].at = "none",
           NEW u \in User, NEW l \in Line, NEW x \in apple[l].periods, NEW n \in Note \cup {0},
           n # 0 => n \in 1..Len(sent) /\ sent[n].line = l,
           job' = [job EXCEPT ![w] = Fetched(u, l, x, n)],
           UNCHANGED <<active, tx, clock, apple, sent, subs, recorded, applied, linked, crossed,
                       overtaken, lost>>
    PROVE  IAPInv'
<1> DEFINE j == Fetched(u, l, x, n)
<1>1. x \in Nat
  BY LineageShape
<1>2. /\ j \in Job /\ j.at = "fetched" /\ j.note = 0 /\ j.user = u /\ j.line = l
      /\ j.expires = x /\ j.heals = n
      /\ j.status # "active" => Over(l)
  BY <1>1 DEF Fetched, Job, SubStatus, Over
<1>3. job' = [job EXCEPT ![w] = j]
  OBVIOUS
<1> HIDE DEF j
<1>4. tx[w] \in Tx \cup {NoTx} /\ tx' = [tx EXCEPT ![w] = tx[w]] /\ SeenOK(tx[w])
  BY DEF IAPInv, TypeOK, EntTypeOK, TxInv
<1>5. JobOK(j, tx[w])
  BY <1>2 DEF JobOK
<1> QED
  BY <1>2, <1>3, <1>4, <1>5, Recorded, QuietStep

LEMMA FetchSteps ==
    ASSUME IAPInv, NEW w \in Worker,
           \/ SelfHeal(w)
           \/ \E u \in User, l \in Line : ValidateTransaction(w, u, l)
    PROVE  IAPInv'
<1>1. CASE SelfHeal(w)
  <2>1. job[w].at = "heal" /\ job[w].line \in Line
    BY <1>1, JobShape DEF SelfHeal, IAPInv, Job
  <2>2. /\ job[w].user \in User /\ tx[w].at = "none" /\ job[w].heals \in Note \cup {0}
        /\ job[w].heals # 0 => /\ job[w].heals \in 1..Len(sent)
                               /\ sent[job[w].heals].line = job[w].line
    BY <2>1, JobShape DEF IAPInv, JobInv, JobOK, Job
  <2> QED
    <3>1. PICK x \in apple[job[w].line].periods :
             job' = [job EXCEPT ![w] = Fetched(job[w].user, job[w].line, x, job[w].heals)]
      BY <1>1 DEF SelfHeal
    <3>2. UNCHANGED <<active, tx, clock, apple, sent, subs, recorded, applied, linked, crossed,
                      overtaken, lost>>
      BY <1>1 DEF SelfHeal
    <3> QED
      BY <2>1, <2>2, <3>1, <3>2, FetchStep
<1>2. ASSUME NEW u \in User, NEW l \in Line, ValidateTransaction(w, u, l) PROVE IAPInv'
  <2>1. tx[w].at = "none" /\ 0 \in Note \cup {0}
    BY <1>2 DEF ValidateTransaction, IAPInv, JobInv, JobOK
  <2> QED
    <3>1. PICK x \in apple[l].periods : job' = [job EXCEPT ![w] = Fetched(u, l, x, 0)]
      BY <1>2 DEF ValidateTransaction
    <3>2. UNCHANGED <<active, tx, clock, apple, sent, subs, recorded, applied, linked, crossed,
                      overtaken, lost>>
      BY <1>2 DEF ValidateTransaction
    <3> QED
      BY <2>1, <3>1, <3>2, FetchStep
<1> QED
  BY <1>1, <1>2

\* The transaction of a validation or of a notification begins to write.
LEMMA WriteStep ==
    ASSUME IAPInv, NEW w \in Worker, ValidateWrites(w) \/ NoteWrites(w)
    PROVE  IAPInv'
<1> DEFINE j == [job[w] EXCEPT !.at = "update"]
           rows == ActiveRows(job[w].user, "apple_iap")
           t == [at |-> "update", user |-> job[w].user, source |-> "apple_iap",
                 seen |-> rows, locked |-> {}]
<1>1. /\ job[w].at \in {"fetched", "noted"} /\ ~LineLocked(w, job[w].line)
      /\ job' = [job EXCEPT ![w] = j] /\ tx' = [tx EXCEPT ![w] = t]
      /\ UNCHANGED <<active, clock, apple, sent, subs, recorded, applied, linked, crossed,
                     overtaken, lost>>
  BY DEF ValidateWrites, NoteWrites, RevokeActive
<1>2. JobOK(job[w], tx[w]) /\ job[w] \in Job
  BY <1>1, JobShape DEF IAPInv, JobInv
<1>3. /\ j \in Job /\ j.at = "update" /\ j.note = job[w].note /\ j.line = job[w].line
      /\ j.user = job[w].user /\ j.expires = job[w].expires /\ j.heals = job[w].heals
      /\ j.status = job[w].status
  BY <1>2 DEF Job
<1>4. /\ t \in Tx /\ t.at = "update" /\ t.user = job[w].user /\ t.source = "apple_iap"
      /\ t.seen = rows /\ t.locked = {}
  BY <1>1, <1>2, AppleAssumption DEF Tx, ActiveRows, JobOK
<1> HIDE DEF j, t
<1>5. JobOK(j, t)
  BY <1>1, <1>2, <1>3, <1>4 DEF JobOK
<1>6. SeenOK(t)
  BY <1>4 DEF SeenOK, ActiveRows
<1>7. \A v \in Worker \ {w} : Writing(v) => job[v].line # j.line
  BY <1>1, <1>3 DEF LineLocked, Writing
<1>8. \A v \in Worker \ {w} : j.note # 0 => job[v].note # j.note
  BY <1>3 DEF IAPInv, LockInv
<1>9. \A of \in [Slot -> Line \cup {NoSub}] :
         Owns(of) /\ j.at \in {"update", "commit"} =>
            \A i \in Slot : /\ active[i] # NoRow /\ active[i].user = j.user
                            /\ of[i] = j.line
                            => i \in t.seen
  BY <1>3, <1>4 DEF Owns, Stands, ActiveRows
<1>10. (j.note # 0 => j.note \notin recorded') /\ lost' \subseteq Note
  BY <1>3, Recorded, <1>1
<1>11. /\ recorded' \subseteq Note
       /\ \A v \in Worker \ {w} : job[v].note # 0 => job[v].note \notin recorded'
  BY <1>1, Recorded
<1>12. \A v \in Worker \ {w} :
          /\ j.note # 0 => job[v].note # j.note
          /\ j.at \in {"update", "commit"} /\ Writing(v) => job[v].line # j.line
  BY <1>7, <1>8
<1> QED
  BY <1>1, <1>3, <1>4, <1>5, <1>6, <1>9, <1>10, <1>11, <1>12, QuietStep

LEMMA UpdatedStep ==
    ASSUME IAPInv, NEW w \in Worker, Updated(w)
    PROVE  IAPInv'
<1> DEFINE j == [job[w] EXCEPT !.at = "commit"]
           t == [tx[w] EXCEPT !.at = "updated",
                              !.locked = {i \in tx[w].seen : active[i] # NoRow}]
<1>1. /\ job[w].at = "update" /\ tx[w].at = "update"
      /\ job' = [job EXCEPT ![w] = j] /\ tx' = [tx EXCEPT ![w] = t]
      /\ UNCHANGED <<active, clock, apple, sent, subs, recorded, applied, linked, crossed,
                     overtaken, lost>>
  BY DEF Updated, LockRows
<1>2. JobOK(job[w], tx[w]) /\ job[w] \in Job /\ tx[w] \in Tx /\ SeenOK(tx[w])
  BY <1>1, JobShape DEF IAPInv, JobInv, TxInv
<1>3. /\ j \in Job /\ j.at = "commit" /\ j.note = job[w].note /\ j.line = job[w].line
      /\ j.user = job[w].user /\ j.expires = job[w].expires /\ j.heals = job[w].heals
      /\ j.status = job[w].status
  BY <1>2 DEF Job
<1>4. /\ t \in Tx /\ t.at = "updated" /\ t.user = tx[w].user /\ t.source = tx[w].source
      /\ t.seen = tx[w].seen /\ t.locked = {i \in tx[w].seen : active[i] # NoRow}
  BY <1>2 DEF Tx
<1> HIDE DEF j, t
<1>5. JobOK(j, t)
  BY <1>1, <1>2, <1>3, <1>4 DEF JobOK
<1>6. SeenOK(t)
  BY <1>2, <1>4 DEF SeenOK
<1>7. \A v \in Worker \ {w} : /\ Writing(v) => job[v].line # j.line
                              /\ j.note # 0 => job[v].note # j.note
  BY <1>1, <1>3 DEF Writing, IAPInv, LockInv
<1>8. \A of \in [Slot -> Line \cup {NoSub}] :
         Owns(of) /\ j.at \in {"update", "commit"} =>
            \A i \in Slot : /\ active[i] # NoRow /\ active[i].user = j.user
                            /\ of[i] = j.line
                            => i \in t.seen
  BY <1>1, <1>3, <1>4 DEF Owns, Writing
<1>9. (j.note # 0 => j.note \notin recorded') /\ lost' \subseteq Note
  BY <1>3, Recorded, <1>1
<1>10. /\ recorded' \subseteq Note
       /\ \A v \in Worker \ {w} : job[v].note # 0 => job[v].note \notin recorded'
  BY <1>1, Recorded
<1>11. \A v \in Worker \ {w} :
          /\ j.note # 0 => job[v].note # j.note
          /\ j.at \in {"update", "commit"} /\ Writing(v) => job[v].line # j.line
  BY <1>7
<1> QED
  BY <1>1, <1>3, <1>4, <1>5, <1>6, <1>8, <1>9, <1>10, <1>11, QuietStep

\* A notification is taken up: it is new to the table and to all other requests.
LEMMA FirstDeliveryIsNew ==
    ASSUME IAPInv, NEW w \in Worker, NEW n \in Note, FirstDelivery(w, n)
    PROVE  /\ n \in 1..Len(sent) /\ n # 0 /\ n \notin recorded
           /\ job[w] = Idle /\ tx[w] = NoTx
           /\ \A v \in Worker : job[v].note # n
<1>1. /\ job[w].at = "idle" /\ n \in 1..Len(sent) /\ n \notin recorded /\ n # 0
      /\ \A v \in Worker : job[v].note # n
  BY DEF FirstDelivery, Note
<1>2. job[w] = Idle /\ tx[w] = NoTx
  BY <1>1, JobShape DEF IAPInv, JobInv, JobOK
<1> QED
  BY <1>1, <1>2

LEMMA NoteStep ==
    ASSUME IAPInv, NEW w \in Worker, NEW n \in Note,
           NoteUnresolved(w, n) \/ NoteUnlinked(w, n) \/ NoteLinked(w, n)
    PROVE  IAPInv'
<1> DEFINE l == sent[n].line
<1>1. FirstDelivery(w, n)
      /\ UNCHANGED <<active, tx, clock, apple, sent, subs, applied, linked, crossed,
                     overtaken, lost>>
      /\ lost \subseteq Note
  BY DEF NoteUnresolved, NoteUnlinked, NoteLinked, IAPInv, TypeOK
<1>2. /\ n \in 1..Len(sent) /\ n # 0 /\ n \notin recorded
      /\ job[w] = Idle /\ tx[w] = NoTx /\ \A v \in Worker : job[v].note # n
  BY <1>1, FirstDeliveryIsNew
<1>3. /\ l \in Line /\ sent[n].expires \in Nat /\ sent[n].expires \in apple[l].periods
      /\ apple[l].token \in User \cup {NoUser}
      /\ subs[l] # NoSub => subs[l].user \in User /\ l \in linked[subs[l].user]
  BY <1>2, SentShape, LineageShape
<1>4. tx' = [tx EXCEPT ![w] = NoTx] /\ SeenOK(NoTx) /\ NoTx \in Tx \cup {NoTx} /\ NoTx.at = "none"
  BY <1>1, <1>2 DEF IAPInv, TypeOK, EntTypeOK, SeenOK, NoTx
<1>5. \A v \in Worker : job[v].note # 0 => job[v].note \notin recorded
  BY DEF IAPInv, JobInv, JobOK
<1>7. CASE NoteUnresolved(w, n)
  <2>1. /\ job' = [job EXCEPT ![w] = Idle] /\ Idle.at = "idle" /\ Idle.note = 0
        /\ Idle.heals = 0 /\ recorded' = recorded \cup {n}
    BY <1>2, <1>7 DEF NoteUnresolved, IAPInv, TypeOK, Idle
  <2>2. JobOK(Idle, NoTx)
    BY <1>4, <2>1 DEF JobOK
  <2>3. /\ recorded' \subseteq Note
        /\ \A v \in Worker : job[v].note # 0 => job[v].note \notin recorded'
    BY <1>2, <1>5, <2>1 DEF IAPInv, TypeOK
  <2> QED
    BY <1>1, <1>4, <2>1, <2>2, <2>3, QuietStep
<1>8. CASE NoteUnlinked(w, n)
  <2> DEFINE j == [at |-> "unlinked", note |-> n, heals |-> 0, line |-> l,
                   user |-> apple[l].token, status |-> "active", expires |-> 0]
  <2>1. job' = [job EXCEPT ![w] = j] /\ subs[l] = NoSub /\ recorded' = recorded
    BY <1>8 DEF NoteUnlinked
  <2>2. /\ j \in Job /\ j.at = "unlinked" /\ j.note = n /\ j.heals = 0 /\ j.line = l
        /\ j.user = apple[l].token
    BY <1>3 DEF Job, SubStatus
  <2> HIDE DEF j
  <2>3. JobOK(j, NoTx)
    BY <1>2, <1>4, <2>1, <2>2 DEF JobOK
  <2> HIDE DEF l
  <2> QED
    BY <1>1, <1>2, <1>4, <2>1, <2>2, <2>3, Recorded, QuietStep
<1>9. CASE NoteLinked(w, n)
  <2> DEFINE s == DeriveAppleSubscriptionState(sent[n])
             j == [at |-> "noted", note |-> n, heals |-> 0, line |-> l, user |-> subs[l].user,
                   expires |-> sent[n].expires, status |-> s]
  <2>1. job' = [job EXCEPT ![w] = j] /\ subs[l] # NoSub /\ recorded' = recorded
    BY <1>9 DEF NoteLinked
  <2>2. s \in SubStatus
    BY DEF DeriveAppleSubscriptionState, SubStatus
  <2> HIDE DEF s
  <2>3. /\ j \in Job /\ j.at = "noted" /\ j.note = n /\ j.line = l /\ j.user = subs[l].user
        /\ j.expires = sent[n].expires /\ j.heals = 0 /\ sent[n].line = l
    BY <1>3, <2>1, <2>2 DEF Job
  <2> HIDE DEF j, l
  <2>4. JobOK(j, NoTx)
    BY <1>2, <1>3, <1>4, <2>1, <2>3 DEF JobOK
  <2> QED
    BY <1>1, <1>2, <1>4, <2>1, <2>3, <2>4, Recorded, QuietStep
<1> QED
  BY <1>7, <1>8, <1>9

\* A notification that found no row goes on record, and its purchase is looked up.
LEMMA UnlinkedStep ==
    ASSUME IAPInv, NEW w \in Worker, UnlinkedCommits(w)
    PROVE  IAPInv'
<1>1. /\ job[w].at = "unlinked" /\ recorded' = recorded \cup {job[w].note}
      /\ overtaken' = overtaken \ {job[w].note} /\ lost' = lost /\ lost \subseteq Note
      /\ UNCHANGED <<active, tx, clock, apple, sent, subs, applied, linked, crossed>>
  BY DEF UnlinkedCommits, IAPInv, TypeOK
<1>2. /\ JobOK(job[w], tx[w]) /\ job[w] \in Job /\ job[w].note # 0 /\ job[w].note \in Note
      /\ job[w].line \in Line /\ job[w].user \in User \cup {NoUser}
      /\ job[w].note \in 1..Len(sent) /\ sent[job[w].note].line = job[w].line
  BY <1>1, JobShape DEF IAPInv, JobInv, JobOK, Job
<1> DEFINE h == [at |-> "heal", note |-> 0, heals |-> job[w].note, line |-> job[w].line,
                 user |-> job[w].user, status |-> "active", expires |-> 0]
           j == IF job[w].user = NoUser THEN Idle ELSE h
<1>3. job' = [job EXCEPT ![w] = j]
  BY DEF UnlinkedCommits
<1>4. h \in Job
  BY <1>2 DEF Job, SubStatus
<1>5. /\ j \in Job \cup {Idle} /\ j.at \in {"idle", "heal"} /\ j.note = 0
      /\ j.at = "heal" => /\ j.user \in User /\ j.heals = job[w].note
                          /\ j.line = job[w].line
      /\ j.at = "idle" => j.heals = 0
  BY <1>2, <1>4 DEF Idle
<1> HIDE DEF j
<1>6. /\ tx[w] = NoTx /\ tx' = [tx EXCEPT ![w] = NoTx] /\ SeenOK(NoTx)
      /\ NoTx \in Tx \cup {NoTx} /\ NoTx.at = "none"
  BY <1>1, <1>2, JobShape DEF IAPInv, TypeOK, EntTypeOK, JobOK, SeenOK, NoTx
<1>7. JobOK(j, NoTx)
  BY <1>2, <1>5, <1>6 DEF JobOK
<1>8. /\ recorded' \subseteq Note
      /\ \A v \in Worker \ {w} : job[v].note # 0 => job[v].note \notin recorded'
  BY <1>1, <1>2 DEF IAPInv, TypeOK, JobInv, JobOK, LockInv
<1> QED
  BY <1>1, <1>3, <1>5, <1>6, <1>7, <1>8, QuietStep

-----------------------------------------------------------------------------
(* Commits. *)

\* What a commit for user u and lineage l does to the entitlements: the user's row
\* for the lineage is replaced, other users' rows stay, a slot another transaction
\* has seen is freed at most.
LEMMA CommitRows ==
    ASSUME IAPInv, NEW w \in Worker, job[w].at = "commit", job' = [job EXCEPT ![w] = Idle],
           IF Grants(job[w].status) THEN CommitGrant(w, job[w].expires) ELSE CommitRevoke(w),
           apple' = apple, linked' = [linked EXCEPT ![job[w].user] = @ \cup {job[w].line}]
    PROVE  \E u \in User, l \in Line, x \in Nat, s \in SubStatus :
              /\ u = job[w].user /\ l = job[w].line /\ x = job[w].expires /\ s = job[w].status
              /\ active' \in [Slot -> Row \cup {NoRow}] /\ tx' = [tx EXCEPT ![w] = NoTx]
              /\ \A i \in Slot : \/ active'[i] = active[i]
                                \/ /\ active[i] # NoRow => active[i].user = u
                                   /\ active'[i] # NoRow => active'[i].user = u
              /\ \A v \in Worker : \A i \in tx[v].seen : active'[i] \in {active[i], NoRow}
              /\ OwnerInv'
              /\ linked'[u] = {l} =>
                    /\ \A i \in Slot : active'[i] # NoRow /\ active'[i].user = u =>
                          Grants(s) /\ active'[i].expires = x
                    /\ Grants(s) => \E i \in Slot : active'[i] # NoRow /\ active'[i].user = u
<1>0. PICK u \in User, l \in Line, x \in Nat, s \in SubStatus :
         u = job[w].user /\ l = job[w].line /\ x = job[w].expires /\ s = job[w].status
  <2>1. job[w] \in Job /\ job[w].user \in User
    BY JobShape DEF IAPInv, JobInv, JobOK
  <2> QED
    BY <2>1 DEF Job
<1> SUFFICES /\ active' \in [Slot -> Row \cup {NoRow}] /\ tx' = [tx EXCEPT ![w] = NoTx]
             /\ \A i \in Slot : \/ active'[i] = active[i]
                               \/ /\ active[i] # NoRow => active[i].user = u
                                  /\ active'[i] # NoRow => active'[i].user = u
             /\ \A v \in Worker : \A i \in tx[v].seen : active'[i] \in {active[i], NoRow}
             /\ OwnerInv'
             /\ linked'[u] = {l} =>
                   /\ \A i \in Slot : active'[i] # NoRow /\ active'[i].user = u =>
                         Grants(s) /\ active'[i].expires = x
                   /\ Grants(s) => \E i \in Slot : active'[i] # NoRow /\ active'[i].user = u
  BY <1>0
<1>1. /\ tx[w].at = "updated" /\ tx[w].user = u /\ tx[w].source = "apple_iap"
      /\ x \in apple[l].periods /\ Writing(w)
  BY <1>0 DEF IAPInv, JobInv, JobOK, Writing
<1>2. /\ tx[w].locked \subseteq tx[w].seen /\ tx[w].seen \subseteq Slot
      /\ \A v \in Worker : tx[v].seen \subseteq Slot
      /\ \A i \in tx[w].seen : active[i] # NoRow =>
            active[i].user = u /\ i \in tx[w].locked
  BY <1>1, JobShape DEF IAPInv, TxInv, SeenOK
<1>3. active \in [Slot -> Row \cup {NoRow}] /\ linked \in [User -> SUBSET Line]
  BY DEF IAPInv, TypeOK, EntTypeOK
<1>4. /\ linked'[u] = linked[u] \cup {l}
      /\ \A y \in User : linked[y] \subseteq linked'[y]
  BY <1>0, <1>3
<1>5. PICK of \in [Slot -> Line \cup {NoSub}] : Owns(of)
  BY DEF IAPInv, OwnerInv
<1>6. \A i \in Slot : active[i] # NoRow =>
         active[i] \in Row /\ active[i].user \in User /\ Stands(of, i)
  BY <1>3, <1>5 DEF Row, Owns
<1>7. \A i \in Slot : active[i] # NoRow /\ active[i].user = u /\ of[i] = l => i \in tx[w].locked
  BY <1>0, <1>1, <1>2, <1>5 DEF Owns
\* With no other lineage, that was the user's only row.
<1>8. linked'[u] = {l} => \A i \in Slot : active[i] # NoRow /\ active[i].user = u =>
         i \in tx[w].locked
  BY <1>4, <1>6, <1>7 DEF Stands
<1>9. \A v \in Worker : Writing(v)' => /\ v # w /\ Writing(v) /\ job'[v] = job[v]
                                       /\ job[v].line # l
  BY <1>0, <1>1 DEF IAPInv, TypeOK, Writing, Idle, LockInv
<1>10. CASE ~Grants(s)
  <2>1. /\ tx' = [tx EXCEPT ![w] = NoTx]
        /\ active' = [i \in Slot |-> IF i \in tx[w].locked THEN NoRow ELSE active[i]]
    BY <1>0, <1>10 DEF CommitRevoke, EndTx
  <2>2. /\ active' \in [Slot -> Row \cup {NoRow}]
        /\ \A i \in Slot : active'[i] # NoRow => active'[i] = active[i] /\ active[i] # NoRow
        /\ \A i \in Slot : active'[i] # active[i] => active'[i] = NoRow /\ active[i].user = u
        /\ \A i \in tx[w].locked : active'[i] = NoRow
    <3>1. \A i \in Slot : active'[i] = IF i \in tx[w].locked THEN NoRow ELSE active[i]
      BY <2>1
    <3>2. active' \in [Slot -> Row \cup {NoRow}]
      BY <1>3, <2>1
    <3> QED
      BY <1>2, <3>1, <3>2
  <2>3. \A v \in Worker \ {w} : tx'[v] = tx[v]
    BY <2>1 DEF IAPInv, TypeOK, EntTypeOK
  <2>4. \A i \in Slot : active'[i] # NoRow => Stands(of, i)'
    BY <1>4, <1>6, <2>2 DEF Stands
  <2>5. Owns(of)'
    BY <1>5, <1>9, <2>2, <2>3, <2>4 DEF Owns
  <2>6. OwnerInv'
    BY <2>5 DEF OwnerInv
  <2>7. linked'[u] = {l} => \A i \in Slot : active'[i] # NoRow => active'[i].user # u
    BY <1>8, <2>2
  <2>8. \A v \in Worker : \A i \in tx[v].seen : active'[i] \in {active[i], NoRow}
    BY <1>2, <2>2
  <2> QED
    BY <1>10, <2>1, <2>2, <2>6, <2>7, <2>8
<1>11. CASE Grants(s)
  <2> DEFINE r == [user |-> u, source |-> "apple_iap", expires |-> x]
             n == NextSlot
  <2>1. /\ tx' = [tx EXCEPT ![w] = NoTx]
        /\ active' = [i \in Slot |-> IF i = n THEN r
                                    ELSE IF i \in tx[w].locked THEN NoRow ELSE active[i]]
        /\ \E i \in Slot : FreeSlot(i)
    BY <1>0, <1>1, <1>11 DEF CommitGrant, EndTx
  <2>2. n \in Slot /\ active[n] = NoRow /\ \A v \in Worker : n \notin tx[v].seen
    BY <2>1, NextSlotFree DEF FreeSlot
  <2>3. r \in Row /\ r # NoRow /\ r.user = u /\ r.source = "apple_iap" /\ r.expires = x
    BY EntitlementAssumption, AppleAssumption DEF Row
  <2> HIDE DEF r, n
  <2>4. /\ active' \in [Slot -> Row \cup {NoRow}] /\ active'[n] = r
        /\ \A i \in Slot \ {n} : active'[i] # NoRow => active'[i] = active[i] /\ active[i] # NoRow
        /\ \A i \in Slot \ {n} : active'[i] # active[i] => active'[i] = NoRow /\ active[i].user = u
        /\ \A i \in tx[w].locked : active'[i] = NoRow
    <3>1. \A i \in Slot : active'[i] = IF i = n THEN r
                                       ELSE IF i \in tx[w].locked THEN NoRow ELSE active[i]
      BY <2>1
    <3>2. active' \in [Slot -> Row \cup {NoRow}]
      BY <1>3, <2>1, <2>3
    <3>3. n \notin tx[w].locked
      BY <1>2, <2>2
    <3> QED
      BY <1>2, <2>2, <3>1, <3>2, <3>3
  <2>5. \A v \in Worker \ {w} : tx'[v] = tx[v]
    BY <2>1 DEF IAPInv, TypeOK, EntTypeOK
  <2>6. PICK of2 \in [Slot -> Line \cup {NoSub}] :
           of2[n] = l /\ \A i \in Slot \ {n} : of2[i] = of[i]
    <3>1. [of EXCEPT ![n] = l] \in [Slot -> Line \cup {NoSub}]
      BY <2>2
    <3>2. [of EXCEPT ![n] = l][n] = l /\ \A i \in Slot \ {n} : [of EXCEPT ![n] = l][i] = of[i]
      BY <2>2
    <3> QED
      BY <3>1, <3>2
  <2>7. ASSUME NEW i \in Slot, active'[i] # NoRow
        PROVE  /\ active'[i].source = "apple_iap" /\ of2[i] \in linked'[active'[i].user]
               /\ active'[i].expires \in apple[of2[i]].periods
    <3>1. CASE i = n
      BY <1>1, <1>4, <2>3, <2>4, <2>6, <3>1
    <3>2. CASE i # n
      BY <1>4, <1>6, <2>4, <2>6, <2>7, <3>2 DEF Stands
    <3> QED
      BY <3>1, <3>2
  <2>8. ASSUME NEW i \in Slot, NEW k \in Slot, active'[i] # NoRow, active'[k] # NoRow,
               active'[i].user = active'[k].user, of2[i] = of2[k]
        PROVE  i = k
    <3>1. ASSUME NEW m \in Slot \ {n}, active'[m] # NoRow, active'[m].user = u, of2[m] = l
          PROVE  FALSE
      BY <1>7, <2>4, <2>6, <3>1
    <3>2. CASE i = n \/ k = n
      BY <2>3, <2>4, <2>6, <2>8, <3>1, <3>2
    <3>3. CASE i # n /\ k # n
      BY <1>5, <2>4, <2>6, <2>8, <3>3 DEF Owns
    <3> QED
      BY <3>2, <3>3
  <2>9. ASSUME NEW v \in Worker, Writing(v)', NEW i \in Slot,
               active'[i] # NoRow, active'[i].user = job'[v].user, of2[i] = job'[v].line
        PROVE  i \in tx'[v].seen
    <3>1. v # w /\ Writing(v) /\ job'[v] = job[v] /\ job[v].line # l /\ tx'[v] = tx[v]
      BY <1>9, <2>5, <2>9
    <3>2. i # n
      BY <2>6, <2>9, <3>1
    <3> QED
      BY <1>5, <2>4, <2>6, <2>9, <3>1, <3>2 DEF Owns
  <2>10. Owns(of2)'
    BY <2>7, <2>8, <2>9 DEF Owns, Stands
  <2>11. OwnerInv'
    BY <2>6, <2>10 DEF OwnerInv
  <2>12. linked'[u] = {l} =>
            \A i \in Slot : active'[i] # NoRow /\ active'[i].user = u => i = n
    BY <1>8, <2>4
  <2>13. \A v \in Worker : \A i \in tx[v].seen : active'[i] \in {active[i], NoRow}
    BY <1>2, <2>2, <2>4
  <2> QED
    BY <1>11, <2>1, <2>2, <2>3, <2>4, <2>11, <2>12, <2>13
<1> QED
  BY <1>10, <1>11

\* The subscription row follows the entitlements.
LEMMA CommitStep ==
    ASSUME IAPInv, NEW w \in Worker, ValidateCommits(w) \/ NoteCommits(w)
    PROVE  IAPInv'
<1>1. /\ job[w].at = "commit" /\ job' = [job EXCEPT ![w] = Idle] /\ job[w] \in Job
      /\ job[w].note # 0 <=> NoteCommits(w)
      /\ UNCHANGED <<clock, apple, sent>>
  BY JobShape DEF ValidateCommits, NoteCommits, IAPInv
<1>2. JobOK(job[w], tx[w]) /\ Writing(w)
  BY <1>1 DEF IAPInv, JobInv, Writing
\* What the two kinds of commit have in common.
<1>3. /\ IF Grants(job[w].status) THEN CommitGrant(w, job[w].expires) ELSE CommitRevoke(w)
      /\ linked' = [linked EXCEPT ![job[w].user] = @ \cup {job[w].line}]
  <2>1. CASE ValidateCommits(w)
    BY <2>1 DEF ValidateCommits, Grants
  <2>2. CASE NoteCommits(w)
    <3>1. job[w].line \in linked[job[w].user] /\ linked \in [User -> SUBSET Line]
      BY <1>1, <1>2, <2>2 DEF JobOK, IAPInv, TypeOK
    <3> QED
      BY <2>2, <3>1 DEF NoteCommits
  <2> QED
    BY <2>1, <2>2
<1>4. PICK u \in User, l \in Line, x \in Nat, s \in SubStatus :
         /\ u = job[w].user /\ l = job[w].line /\ x = job[w].expires /\ s = job[w].status
         /\ active' \in [Slot -> Row \cup {NoRow}] /\ tx' = [tx EXCEPT ![w] = NoTx]
         /\ \A i \in Slot : \/ active'[i] = active[i]
                           \/ /\ active[i] # NoRow => active[i].user = u
                              /\ active'[i] # NoRow => active'[i].user = u
         /\ \A v \in Worker : \A i \in tx[v].seen : active'[i] \in {active[i], NoRow}
         /\ OwnerInv'
         /\ linked'[u] = {l} =>
               /\ \A i \in Slot : active'[i] # NoRow /\ active'[i].user = u =>
                     Grants(s) /\ active'[i].expires = x
               /\ Grants(s) => \E i \in Slot : active'[i] # NoRow /\ active'[i].user = u
  BY <1>1, <1>3, CommitRows
<1>5. /\ linked' = [linked EXCEPT ![u] = @ \cup {l}]
      /\ \E b \in Sub : /\ b.status = s /\ b.expires = x
                        /\ b.user = u \/ (subs[l] # NoSub /\ b.user = subs[l].user
                                          /\ l \in crossed')
                        /\ subs' = [subs EXCEPT ![l] = b]
      /\ crossed' \subseteq Line /\ crossed \ {l} \subseteq crossed'
      /\ linked[u] \subseteq Line
  <2>1. linked[u] \subseteq Line /\ linked' = [linked EXCEPT ![u] = @ \cup {l}]
    BY <1>3, <1>4 DEF IAPInv, TypeOK
  <2>2. CASE ValidateCommits(w)
    <3>1. s = "active"
      BY <1>4, <2>2 DEF ValidateCommits
    <3>2. [user |-> u, status |-> s, expires |-> x] \in Sub
      BY DEF Sub
    <3> QED
      BY <1>4, <2>1, <2>2, <3>1, <3>2 DEF ValidateCommits, IAPInv, TypeOK
  <2>3. CASE NoteCommits(w)
    <3>1. subs[l] # NoSub /\ l \in linked[u]
      BY <1>1, <1>2, <1>4, <2>3 DEF JobOK
    <3>2. subs[l] \in Sub
      BY <3>1, LineageShape
    <3> DEFINE b == [subs[l] EXCEPT !.status = s, !.expires = x]
    <3>3. b \in Sub /\ b.status = s /\ b.expires = x /\ b.user = subs[l].user
      BY <3>2 DEF Sub
    <3>4. subs' = [subs EXCEPT ![l] = b]
          /\ crossed' = IF subs[l].user = u THEN crossed ELSE crossed \cup {l}
      BY <1>4, <2>3 DEF NoteCommits
    <3> HIDE DEF b
    <3> QED
      BY <2>1, <3>1, <3>3, <3>4 DEF IAPInv, TypeOK
  <2> QED
    BY <2>2, <2>3
<1>6. PICK b \in Sub : /\ b.status = s /\ b.expires = x
                       /\ b.user = u \/ (subs[l] # NoSub /\ b.user = subs[l].user
                                         /\ l \in crossed')
                       /\ subs' = [subs EXCEPT ![l] = b]
  BY <1>5
\* What happens to the record.
<1>7. /\ \/ UNCHANGED <<recorded, applied>>
         \/ /\ job[w].note \in Note /\ recorded' = recorded \cup {job[w].note}
            /\ applied' = [applied EXCEPT ![job[w].note] = @ + 1]
      /\ \A v \in Worker \ {w} : job[v].note # 0 => job[v].note \notin recorded'
  <2>1. \A v \in Worker : job[v].note # 0 => job[v].note \notin recorded
    BY DEF IAPInv, JobInv, JobOK
  <2>2. CASE ValidateCommits(w)
    BY <2>1, <2>2 DEF ValidateCommits
  <2>3. CASE NoteCommits(w)
    <3>1. \A v \in Worker \ {w} : job[v].note # 0 => job[v].note # job[w].note
      BY DEF IAPInv, LockInv
    <3>2. job[w].note \in Note /\ recorded' = recorded \cup {job[w].note}
          /\ applied' = [applied EXCEPT ![job[w].note] = @ + 1]
      BY <1>1, <2>3 DEF NoteCommits, Job
    <3> QED
      BY <2>1, <3>1, <3>2
  <2> QED
    BY <2>2, <2>3
<1>8. /\ job'[w] = Idle /\ tx'[w] = NoTx /\ Idle.at = "idle" /\ Idle.note = 0 /\ Idle.heals = 0
      /\ NoTx.at = "none" /\ NoTx.seen = {} /\ NoTx.locked = {}
      /\ \A v \in Worker \ {w} : job'[v] = job[v] /\ tx'[v] = tx[v]
  BY <1>1, <1>4 DEF IAPInv, TypeOK, EntTypeOK, Idle, NoTx
<1>9. /\ linked' \in [User -> SUBSET Line] /\ linked'[u] = linked[u] \cup {l}
      /\ \A y \in User \ {u} : linked'[y] = linked[y]
      /\ subs' \in [Line -> Sub \cup {NoSub}] /\ subs'[l] = b
      /\ \A m \in Line \ {l} : subs'[m] = subs[m]
  BY <1>5, <1>6 DEF IAPInv, TypeOK
<1>9a. /\ overtaken \subseteq overtaken' /\ overtaken' \subseteq Note /\ lost' \subseteq Note
  <2>1. overtaken \subseteq Note /\ lost \subseteq Note
    BY DEF IAPInv, TypeOK
  <2>2. \A v \in Worker : job[v].at = "unlinked" => job[v].note \in Note
    BY JobShape DEF IAPInv, JobInv, JobOK, Job, Idle
  <2>3. CASE ValidateCommits(w)
    BY <2>1, <2>2, <2>3 DEF ValidateCommits
  <2>4. CASE NoteCommits(w)
    BY <2>1, <2>4 DEF NoteCommits
  <2> QED
    BY <2>3, <2>4
<1>10. TypeOK'
  <2>1. recorded' \subseteq Note /\ applied' \in [Note -> Nat]
    <3>1. recorded \subseteq Note /\ applied \in [Note -> Nat]
      BY DEF IAPInv, TypeOK
    <3>2. CASE UNCHANGED <<recorded, applied>>
      BY <3>1, <3>2
    <3>3. ASSUME NEW m \in Note, recorded' = recorded \cup {m},
                 applied' = [applied EXCEPT ![m] = @ + 1]
          PROVE  recorded' \subseteq Note /\ applied' \in [Note -> Nat]
      BY <3>1, <3>3
    <3> QED
      BY <1>7, <3>2, <3>3
  <2>2. job' \in [Worker -> Job \cup {Idle}] /\ tx' \in [Worker -> Tx \cup {NoTx}]
    BY <1>1, <1>4 DEF IAPInv, TypeOK, EntTypeOK
  <2> QED
    BY <1>1, <1>5, <1>4, <1>9, <1>9a, <2>1, <2>2 DEF IAPInv, TypeOK, EntTypeOK
<1>11. JobInv'
  <2> SUFFICES ASSUME NEW v \in Worker PROVE JobOK(job[v], tx[v])'
    BY DEF JobInv
  <2>1. CASE v = w
    BY <1>8, <2>1 DEF JobOK
  <2>2. CASE v # w
    <3>1. JobOK(job[v], tx[v]) /\ job[v] \in Job \cup {Idle}
      BY JobShape DEF IAPInv, JobInv
    <3>2. job[v].note # 0 => /\ job[v].line \in Line /\ job[v].note \notin recorded'
                             /\ job[v].at # "unlinked" => job[v].user \in User
      BY <1>7, <2>2, <3>1 DEF JobOK, Job, Idle
    <3>3. \A m \in Line : subs[m] # NoSub => subs'[m] # NoSub
      BY <1>9, NoSubAssumption
    <3>4. job[v].note # 0 /\ job[v].at # "unlinked" =>
             subs'[job[v].line] # NoSub /\ job[v].line \in linked'[job[v].user]
      BY <1>9, <3>1, <3>2, <3>3 DEF JobOK
    <3>5. job[v].at = "unlinked" =>
             subs'[job[v].line] = NoSub \/ job[v].note \in overtaken'
      <4>1. CASE job[v].at # "unlinked"
        BY <4>1
      <4>2. CASE job[v].at = "unlinked" /\ job[v].line # l
        BY <1>9, <1>9a, <3>1, <3>2, <4>2 DEF JobOK
      <4>3. CASE job[v].at = "unlinked" /\ job[v].line = l
        <5>1. CASE ValidateCommits(w)
          BY <1>4, <4>3, <5>1 DEF ValidateCommits
        <5>2. CASE NoteCommits(w)
          <6>1. subs[l] # NoSub
            BY <1>1, <1>2, <1>4, <5>2 DEF JobOK, NoteCommits
          <6> QED
            BY <1>9a, <3>1, <4>3, <6>1 DEF JobOK
        <5> QED
          BY <5>1, <5>2
      <4> QED
        BY <4>1, <4>2, <4>3
    <3> QED
      BY <1>1, <1>8, <2>2, <3>1, <3>2, <3>4, <3>5 DEF JobOK, Over
  <2> QED
    BY <2>1, <2>2
<1>12. LockInv'
  <2> SUFFICES ASSUME NEW v \in Worker, NEW y \in Worker, v # y
               PROVE  /\ Writing(v)' /\ Writing(y)' => job'[v].line # job'[y].line
                      /\ job'[v].note # 0 => job'[v].note # job'[y].note
    BY DEF LockInv
  <2> QED
    BY <1>8 DEF IAPInv, LockInv, Writing
<1>13. SalesInv'
  BY <1>1 DEF IAPInv, SalesInv, Bought
<1>14. LinkInv'
  <2> SUFFICES ASSUME NEW m \in Line, subs'[m] # NoSub PROVE m \in linked'[subs'[m].user]
    BY DEF LinkInv
  <2>1. CASE m # l
    <3>1. subs'[m] = subs[m] /\ subs[m].user \in User /\ m \in linked[subs[m].user]
      BY <1>9, <2>1, LineageShape
    <3> QED
      BY <1>9, <3>1
  <2>2. CASE m = l
    <3>1. subs[l] # NoSub => subs[l].user \in User /\ l \in linked[subs[l].user]
      BY LineageShape
    <3> QED
      BY <1>6, <1>9, <2>2, <3>1
  <2> QED
    BY <2>1, <2>2
<1>15. TxInv'
  <2> SUFFICES ASSUME NEW v \in Worker PROVE SeenOK(tx[v])'
    BY DEF TxInv
  <2>1. CASE v = w
    BY <1>8, <2>1 DEF SeenOK
  <2>2. CASE v # w
    BY <1>4, <1>8, <2>2 DEF IAPInv, TxInv, SeenOK
  <2> QED
    BY <2>1, <2>2
<1>16. AgreeInv'
  <2> SUFFICES ASSUME NEW m \in Line, subs'[m] # NoSub, linked'[subs'[m].user] = {m},
                      m \notin crossed'
               PROVE  Agrees(m)'
    BY DEF AgreeInv
  <2>1. CASE m = l
    <3>1. /\ subs'[m] = b /\ b.user = u /\ b.status = s /\ b.expires = x /\ linked'[u] = {l}
      BY <1>6, <1>9, <2>1
    <3> QED
      BY <1>4, <3>1 DEF Agrees
  <2>2. CASE m # l
    <3>1. subs'[m] = subs[m] /\ subs[m].user # u /\ subs[m].user \in User
      BY <1>9, <2>2, LineageShape
    <3>2. linked[subs[m].user] = {m} /\ m \notin crossed
      BY <1>5, <1>9, <2>2, <3>1
    <3>3. Agrees(m)
      BY <3>1, <3>2 DEF IAPInv, AgreeInv
    <3>4. \A i \in Slot : /\ (active'[i] # NoRow /\ active'[i].user = subs[m].user) <=>
                             (active[i] # NoRow /\ active[i].user = subs[m].user)
                          /\ active[i] # NoRow /\ active[i].user = subs[m].user =>
                                active'[i] = active[i]
      BY <1>4, <3>1
    <3> QED
      BY <3>1, <3>3, <3>4 DEF Agrees
  <2> QED
    BY <2>1, <2>2
<1> QED
  BY <1>4, <1>10, <1>11, <1>12, <1>13, <1>14, <1>15, <1>16 DEF IAPInv

-----------------------------------------------------------------------------
(* Apple, and the clock. *)

LEMMA AppleStep ==
    ASSUME IAPInv, NEW l \in Line, NEW type \in NoteType,
           \/ Pays(l) /\ type = "SUBSCRIBED"
           \/ Refunds(l) /\ type = "REFUND"
           \/ Expires(l) /\ type = "EXPIRED"
           \/ OtherNote(l, type)
    PROVE  IAPInv'
<1>1. apple[l] \in Lineage /\ apple[l].periods \subseteq Nat /\ apple \in [Line -> Lineage]
      /\ clock \in Nat
  BY LineageShape DEF IAPInv, TypeOK, EntTypeOK
<1>2. Sends(l, type)
  BY DEF Pays, Refunds, Expires, OtherNote
<1>3. /\ apple' \in [Line -> Lineage]
      /\ \A m \in Line : apple[m].periods \subseteq apple'[m].periods
      /\ \A m \in Line \ {l} : apple'[m] = apple[m]
      /\ apple'[l].token = apple[l].token /\ (apple[l].revoked => apple'[l].revoked)
      /\ \E x \in apple'[l].periods : \A y \in apple'[l].periods : y <= x
  <2>1. CASE Pays(l)
    <3> DEFINE b == [apple[l] EXCEPT !.periods = @ \cup {clock + 1}]
    <3>1. /\ b \in Lineage /\ b.periods = apple[l].periods \cup {clock + 1}
          /\ b.token = apple[l].token /\ b.revoked = apple[l].revoked
      BY <1>1 DEF Lineage
    <3>2. apple' = [apple EXCEPT ![l] = b]
      BY <1>1, <2>1 DEF Pays
    <3> HIDE DEF b
    <3>3. apple'[l] = b /\ \A m \in Line \ {l} : apple'[m] = apple[m]
      BY <1>1, <3>2
    <3>4. \A y \in apple[l].periods : y <= clock
      BY <2>1 DEF Pays
    <3>5. \A y \in apple'[l].periods : y <= clock + 1
      BY <1>1, <3>1, <3>3, <3>4
    <3>6. clock + 1 \in apple'[l].periods
      BY <3>1, <3>3
    <3> QED
      BY <1>1, <3>1, <3>2, <3>3, <3>5, <3>6
  <2>2. CASE Refunds(l)
    <3> DEFINE b == [apple[l] EXCEPT !.revoked = TRUE]
    <3>1. /\ b \in Lineage /\ b.periods = apple[l].periods
          /\ b.token = apple[l].token /\ b.revoked
      BY <1>1 DEF Lineage
    <3>2. apple' = [apple EXCEPT ![l] = b]
      BY <1>1, <2>2 DEF Refunds
    <3> HIDE DEF b
    <3>3. \E x \in apple[l].periods : \A y \in apple[l].periods : y <= x
      BY <2>2 DEF Refunds, IAPInv, SalesInv
    <3> QED
      BY <1>1, <3>1, <3>2, <3>3
  <2>3. CASE Expires(l) \/ OtherNote(l, type)
    BY <1>1, <2>3 DEF Expires, OtherNote, IAPInv, SalesInv
  <2> QED
    BY <2>1, <2>2, <2>3
<1>4. Latest(l) \in apple'[l].periods
  BY <1>3 DEF Latest
<1> DEFINE n == [type |-> type, line |-> l, expires |-> Latest(l), revoked |-> apple'[l].revoked]
<1>5. n \in Notification /\ n.line = l /\ n.expires \in apple'[l].periods
  <2>1. apple'[l] \in Lineage
    BY <1>3
  <2> QED
    BY <1>4, <2>1 DEF Lineage, Notification
<1>6. /\ sent' = Append(sent, n)
      /\ UNCHANGED <<active, tx, clock, subs, recorded, job, applied, linked, crossed,
                     overtaken, lost>>
  BY <1>2 DEF Sends
<1> HIDE DEF n
<1>7. /\ sent' \in Seq(Notification) /\ Len(sent') = Len(sent) + 1 /\ Len(sent) \in Nat
      /\ sent'[Len(sent) + 1] = n
      /\ \A i \in 1..Len(sent) : sent'[i] = sent[i]
  BY <1>5, <1>6 DEF IAPInv, TypeOK
<1>8. TypeOK'
  BY <1>3, <1>6, <1>7 DEF IAPInv, TypeOK, EntTypeOK
<1>9. JobInv'
  <2> SUFFICES ASSUME NEW w \in Worker PROVE JobOK(job[w], tx[w])'
    BY DEF JobInv
  <2>1. JobOK(job[w], tx[w]) /\ job[w].at # "idle" => job[w].line \in Line
    BY JobShape DEF IAPInv, JobInv, Job
  <2>2. JobOK(job[w], tx[w])
    BY DEF IAPInv, JobInv
  <2>3. ASSUME NEW m \in Line
        PROVE  apple'[m].token = apple[m].token /\ (Over(m) => Over(m)')
    BY <1>3, <1>6 DEF Over
  <2>4. \A i \in 1..Len(sent) : i \in 1..Len(sent') /\ sent'[i] = sent[i]
    BY <1>7
  <2> QED
    BY <1>3, <1>6, <2>1, <2>2, <2>3, <2>4 DEF JobOK
<1>10. LockInv' /\ LinkInv' /\ TxInv' /\ AgreeInv'
  BY <1>6 DEF IAPInv, LockInv, Writing, LinkInv, TxInv, SeenOK, AgreeInv, Agrees
<1>11. SalesInv'
  <2>1. ASSUME NEW m \in Line, apple'[m].periods # {}
        PROVE  \E x \in apple'[m].periods : \A y \in apple'[m].periods : y <= x
    BY <1>3, <2>1 DEF IAPInv, SalesInv, Bought
  <2>2. ASSUME NEW i \in 1..Len(sent') PROVE sent'[i].expires \in apple'[sent'[i].line].periods
    <3>1. CASE i \in 1..Len(sent)
      BY <1>3, <1>7, <3>1, SentShape
    <3>2. CASE i \notin 1..Len(sent)
      BY <1>5, <1>7, <3>2
    <3> QED
      BY <3>1, <3>2
  <2> QED
    BY <2>1, <2>2 DEF SalesInv, Bought
<1>12. OwnerInv'
  <2>1. PICK of \in [Slot -> Line \cup {NoSub}] : Owns(of)
    BY DEF IAPInv, OwnerInv
  <2>2. \A i \in Slot : active[i] # NoRow => active[i].user \in User /\ Stands(of, i)
    BY <2>1 DEF Owns, IAPInv, TypeOK, EntTypeOK, Row
  <2>3. \A y \in User : linked[y] \subseteq Line
    BY DEF IAPInv, TypeOK
  <2>4. \A i \in Slot : active[i] # NoRow => of[i] \in Line /\ Stands(of, i)'
    BY <1>3, <1>6, <2>2, <2>3 DEF Stands
  <2>5. Owns(of)'
    BY <1>6, <2>1, <2>4 DEF Owns, Writing
  <2> QED
    BY <2>5 DEF OwnerInv
<1> QED
  BY <1>8, <1>9, <1>10, <1>11, <1>12 DEF IAPInv

-----------------------------------------------------------------------------
(* The theorems. *)

\* IAPInv is inductive.
LEMMA NextStep == IAPInv /\ [Next]_vars => IAPInv'
<1> SUFFICES ASSUME IAPInv, [Next]_vars PROVE IAPInv'
  OBVIOUS
<1>1. ASSUME NEW l \in Line, Pays(l) \/ Refunds(l) \/ Expires(l) PROVE IAPInv'
  <2>1. {"SUBSCRIBED", "REFUND", "EXPIRED"} \subseteq NoteType
    BY DEF NoteType
  <2> QED
    BY <1>1, <2>1, AppleStep
<1>2. ASSUME NEW l \in Line, NEW type \in OtherType, OtherNote(l, type) PROVE IAPInv'
  BY <1>2, AppleStep DEF NoteType
<1>3. ASSUME NEW w \in Worker,
             SelfHeal(w) \/ \E u \in User, l \in Line : ValidateTransaction(w, u, l)
      PROVE  IAPInv'
  BY <1>3, FetchSteps
<1>4. ASSUME NEW w \in Worker, ValidateWrites(w) \/ NoteWrites(w) PROVE IAPInv'
  BY <1>4, WriteStep
<1>5. ASSUME NEW w \in Worker, Updated(w) PROVE IAPInv'
  BY <1>5, UpdatedStep
<1>6. ASSUME NEW w \in Worker, ValidateCommits(w) \/ NoteCommits(w) PROVE IAPInv'
  BY <1>6, CommitStep
<1>7. ASSUME NEW w \in Worker, Abort(w) \/ ValidateNotEntitled(w) PROVE IAPInv'
  BY <1>7, OverStep
<1>8. ASSUME NEW w \in Worker, NEW n \in Note,
             NoteUnresolved(w, n) \/ NoteUnlinked(w, n) \/ NoteLinked(w, n)
      PROVE  IAPInv'
  BY <1>8, NoteStep
\* The invariant asks of the clock only that it does not go back.
<1>10. ASSUME NEW w \in Worker, UnlinkedCommits(w) PROVE IAPInv'
  BY <1>10, UnlinkedStep
<1>9. CASE Tick \/ UNCHANGED vars
  <2>1. /\ clock' \in Nat /\ clock \in Nat /\ clock <= clock'
        /\ UNCHANGED <<active, tx, apple, sent, subs, recorded, job, applied, linked, crossed,
                       overtaken, lost>>
    BY <1>9 DEF Tick, vars, IAPInv, TypeOK, EntTypeOK
  <2>2. TypeOK'
    BY <2>1 DEF IAPInv, TypeOK, EntTypeOK
  <2>5. JobInv'
    <3>1. ASSUME NEW l \in Line, Over(l) PROVE Over(l)'
      BY <2>1, <3>1, LineageShape DEF Over
    <3>2. ASSUME NEW w \in Worker PROVE JobOK(job[w], tx[w])'
      <4>1. JobOK(job[w], tx[w]) /\ (job[w].at # "idle" => job[w].line \in Line)
        BY JobShape DEF IAPInv, JobInv, Job
      <4> QED
        BY <2>1, <3>1, <4>1 DEF JobOK
    <3> QED
      BY <3>2 DEF JobInv
  <2>3. LockInv' /\ SalesInv' /\ LinkInv' /\ TxInv' /\ AgreeInv'
    BY <2>1 DEF IAPInv, LockInv, Writing, SalesInv, Bought, LinkInv, TxInv, SeenOK,
                AgreeInv, Agrees
  <2>4. OwnerInv'
    BY <2>1 DEF IAPInv, OwnerInv, Owns, Stands, Writing
  <2> QED
    BY <2>2, <2>3, <2>4, <2>5 DEF IAPInv
<1> QED
  BY <1>1, <1>2, <1>3, <1>4, <1>5, <1>6, <1>7, <1>8, <1>9, <1>10 DEF Next

LEMMA Purchases == Spec => []IAPInv
BY IAPInit, NextStep, PTL DEF Spec

\* Every variable keeps its type, for any lineages, notifications and requests.
THEOREM TypeCorrect == Spec => []TypeOK
<1>1. IAPInv => TypeOK
  BY DEF IAPInv
<1> QED
  BY <1>1, Purchases, PTL

\* Whatever validations and notifications race, and however often a lineage moves
\* between users: each active row of a user stands for a lineage of its own that
\* was written for that user, and ends with a period paid on it.
THEOREM RowsArePaidFor == Spec => []PaidFor
<1>1. ASSUME IAPInv PROVE PaidFor
  <2>1. PICK of \in [Slot -> Line \cup {NoSub}] : Owns(of)
    BY <1>1 DEF IAPInv, OwnerInv
  <2> SUFFICES ASSUME NEW u \in User
               PROVE  \E f \in [ActiveRows(u, "apple_iap") -> linked[u]] :
                         /\ \A i, k \in ActiveRows(u, "apple_iap") : f[i] = f[k] => i = k
                         /\ \A i \in ActiveRows(u, "apple_iap") :
                               active[i].expires \in apple[f[i]].periods
    BY DEF PaidFor
  <2> DEFINE rows == ActiveRows(u, "apple_iap")
             f == [i \in rows |-> of[i]]
  <2>2. \A i \in rows : i \in Slot /\ active[i] # NoRow /\ active[i].user = u /\ Stands(of, i)
    BY <2>1 DEF ActiveRows, Owns
  <2> HIDE DEF rows
  <2>3. f \in [rows -> linked[u]]
    BY <2>2 DEF Stands
  <2>4. /\ \A i, k \in rows : f[i] = f[k] => i = k
        /\ \A i \in rows : active[i].expires \in apple[f[i]].periods
    BY <2>1, <2>2 DEF Stands, Owns
  <2> QED
    BY <2>3, <2>4 DEF rows
<1> QED
  BY <1>1, Purchases, PTL

\* The subscription rows and the entitlements tell the same story of a user with
\* one lineage, unless the lineage moved while a notification was under way.
THEOREM TablesInAgreement == Spec => []TablesAgree
<1>1. ASSUME IAPInv PROVE TablesAgree
  <2>1. PICK of \in [Slot -> Line \cup {NoSub}] : Owns(of)
    BY <1>1 DEF IAPInv, OwnerInv
  <2> SUFFICES ASSUME NEW l \in Line, NEW u, u = subs[l].user,
                      subs[l] # NoSub, linked[u] = {l}, l \notin crossed
               PROVE  /\ {active[i].expires : i \in ActiveRows(u, "apple_iap")}
                           = IF Grants(subs[l].status) THEN {subs[l].expires} ELSE {}
                      /\ Cardinality(ActiveRows(u, "apple_iap")) <= 1
    BY DEF TablesAgree
  <2> DEFINE rows == ActiveRows(u, "apple_iap")
  <2>2. rows = {i \in Slot : active[i] # NoRow /\ active[i].user = u}
    BY <2>1 DEF ActiveRows, Owns, Stands
  <2>3. Agrees(l)
    BY <1>1 DEF IAPInv, AgreeInv
  <2>4. \A i, k \in rows : i = k
    BY <2>1, <2>2 DEF Owns, Stands
  <2>5. /\ \A i \in rows : Grants(subs[l].status) /\ active[i].expires = subs[l].expires
        /\ Grants(subs[l].status) => rows # {}
    BY <2>2, <2>3 DEF Agrees
  <2> HIDE DEF rows
  <2>6. Cardinality(rows) <= 1
    <3>1. CASE rows = {}
      BY <3>1, FS_EmptySet
    <3>2. ASSUME NEW i \in rows PROVE Cardinality(rows) <= 1
      <4>1. rows = {i}
        BY <2>4
      <4>2. Cardinality({i}) = 1
        BY FS_Singleton
      <4> QED
        BY <4>1, <4>2
    <3> QED
      BY <3>1, <3>2
  <2>7. {active[i].expires : i \in rows}
           = IF Grants(subs[l].status) THEN {subs[l].expires} ELSE {}
    BY <2>5
  <2> QED
    BY <2>6, <2>7 DEF rows
<1> QED
  BY <1>1, Purchases, PTL

\* A notification goes on record with what it says, and nothing it says is
\* written at any other time, whatever is retried or delivered twice.  One whose
\* request found no row of the lineage is handed over to a self-healing as it goes
\* on record, also if a validation has written the row in between.
THEOREM RecordAndWrite == Spec => RecordedMeansWritten
<1> DEFINE Handed(n) ==
              /\ subs[sent[n].line] = NoSub \/ n \in overtaken
              /\ \/ apple[sent[n].line].token = NoUser
                 \/ \E w \in Worker : job'[w].at = "heal" /\ job'[w].heals = n
           A == \A n \in Note :
                   /\ n \in recorded' \ recorded =>
                         \/ applied'[n] = applied[n] + 1
                         \/ sent[n].type = "TEST"
                         \/ Handed(n)
                   /\ applied'[n] # applied[n] => n \in recorded' \ recorded
<1>1. ASSUME IAPInv, [Next]_vars PROVE [A]_vars
  <2>1. CASE UNCHANGED <<recorded, applied>>
    BY <2>1
  <2>2. ASSUME NEW w \in Worker, NEW n \in Note, NoteUnresolved(w, n) PROVE A
    BY <2>2 DEF NoteUnresolved
  <2>3. ASSUME NEW w \in Worker, NoteCommits(w) PROVE A
    <3>1. job[w].note \in Note /\ job[w].note \notin recorded
      BY <1>1, <2>3, JobShape DEF NoteCommits, IAPInv, JobInv, JobOK, Job
    <3>2. applied \in [Note -> Nat]
      BY <1>1 DEF IAPInv, TypeOK
    <3> QED
      BY <2>3, <3>1, <3>2 DEF NoteCommits
  <2>5. ASSUME NEW w \in Worker, UnlinkedCommits(w) PROVE A
    <3>1. /\ recorded' = recorded \cup {job[w].note} /\ applied' = applied
          /\ job[w].at = "unlinked"
      BY <2>5 DEF UnlinkedCommits
    <3>2. JobOK(job[w], tx[w])
      BY <1>1 DEF IAPInv, JobInv
    <3>3. /\ sent[job[w].note].line = job[w].line
          /\ apple[job[w].line].token = job[w].user
          /\ subs[job[w].line] = NoSub \/ job[w].note \in overtaken
      BY <3>1, <3>2 DEF JobOK
    <3>4. job[w].user # NoUser => job'[w].at = "heal" /\ job'[w].heals = job[w].note
      BY <1>1, <2>5 DEF UnlinkedCommits, IAPInv, TypeOK
    <3>5. Handed(job[w].note)
      BY <3>3, <3>4
    <3> HIDE DEF Handed
    <3> QED
      BY <3>1, <3>5
  <2>4. \/ UNCHANGED <<recorded, applied>>
        \/ \E w \in Worker, n \in Note : NoteUnresolved(w, n)
        \/ \E w \in Worker : NoteCommits(w) \/ UnlinkedCommits(w)
    BY <1>1 DEF Next, vars, Pays, Refunds, Expires, OtherNote, Sends, ValidateTransaction,
        ValidateWrites, Updated, ValidateCommits, ValidateNotEntitled, NoteLinked, NoteUnlinked,
        SelfHeal, NoteWrites, Abort, Tick
  <2> QED
    BY <2>1, <2>2, <2>3, <2>4, <2>5
<1> QED
  BY <1>1, Purchases, PTL DEF Spec, RecordedMeansWritten

-----------------------------------------------------------------------------
(* No sale is lost. *)

SaleInv == SaleNotLost /\ recorded \subseteq 1..Len(sent)

\* What no step takes back.
Lasting ==
    /\ \A n \in 1..Len(sent) : n \in 1..Len(sent') /\ sent'[n] = sent[n]
    /\ \A l \in Line : /\ subs[l] # NoSub => subs'[l] # NoSub
                       /\ apple'[l].token = apple[l].token
                       /\ Over(l) => Over(l)'

LEMMA StepsLast == IAPInv /\ [Next]_vars => Lasting
<1> SUFFICES ASSUME IAPInv, [Next]_vars PROVE Lasting
  OBVIOUS
<1>1. /\ apple \in [Line -> Lineage] /\ sent \in Seq(Notification) /\ clock \in Nat
      /\ subs \in [Line -> Sub \cup {NoSub}]
  BY DEF IAPInv, TypeOK, EntTypeOK
<1>2. CASE UNCHANGED <<sent, subs, apple, clock>>
  BY <1>2 DEF Lasting, Over
<1>3. CASE Tick
  <2>1. UNCHANGED <<sent, subs, apple>> /\ clock <= clock'  /\ clock' \in Nat
    BY <1>1, <1>3 DEF Tick
  <2>2. ASSUME NEW l \in Line, Over(l) PROVE Over(l)'
    BY <1>1, <2>1, <2>2, LineageShape DEF Over
  <2> QED
    BY <2>1, <2>2 DEF Lasting
<1>4. ASSUME NEW w \in Worker, ValidateCommits(w) \/ NoteCommits(w) PROVE Lasting
  <2>1. UNCHANGED <<sent, apple, clock>>
    BY <1>4 DEF ValidateCommits, NoteCommits
  <2>2. /\ job[w] \in Job /\ job[w].line \in Line
        /\ job[w].user \in User /\ JobOK(job[w], tx[w])
    BY <1>4, JobShape DEF ValidateCommits, NoteCommits, IAPInv, JobInv, JobOK, Job
  <2>3. PICK b \in Sub : subs' = [subs EXCEPT ![job[w].line] = b]
    <3>1. CASE ValidateCommits(w)
      BY <2>2, <3>1 DEF ValidateCommits, Sub, SubStatus, Job
    <3>2. CASE NoteCommits(w)
      <4>1. subs[job[w].line] \in Sub
        BY <1>1, <2>2, <3>2 DEF NoteCommits, JobOK
      <4> DEFINE b == [subs[job[w].line] EXCEPT !.status = job[w].status,
                                                !.expires = job[w].expires]
      <4>2. b \in Sub
        BY <2>2, <4>1 DEF Sub, Job
      <4>3. subs' = [subs EXCEPT ![job[w].line] = b]
        BY <3>2 DEF NoteCommits
      <4> HIDE DEF b
      <4> QED
        BY <4>2, <4>3
    <3> QED
      BY <1>4, <3>1, <3>2
  <2>4. b # NoSub /\ \A l \in Line : subs'[l] = IF l = job[w].line THEN b ELSE subs[l]
    BY <1>1, <2>2, <2>3, NoSubAssumption
  <2> QED
    BY <2>1, <2>4 DEF Lasting, Over
<1>5. ASSUME NEW l \in Line, NEW type,
             \/ Pays(l) /\ type = "SUBSCRIBED"
             \/ Refunds(l) /\ type = "REFUND"
             \/ Expires(l) /\ type = "EXPIRED"
             \/ OtherNote(l, type)
      PROVE  Lasting
  <2>1. Sends(l, type)
    BY <1>5 DEF Pays, Refunds, Expires, OtherNote
  <2>2. /\ UNCHANGED <<subs, clock>>
        /\ \A n \in 1..Len(sent) : n \in 1..Len(sent') /\ sent'[n] = sent[n]
    BY <1>1, <2>1 DEF Sends
  <2>3. \/ apple' = apple
        \/ apple' = [apple EXCEPT ![l].periods = @ \cup {clock + 1}]
        \/ apple' = [apple EXCEPT ![l].revoked = TRUE]
    BY <1>5 DEF Pays, Refunds, Expires, OtherNote
  <2>4. ASSUME NEW m \in Line
        PROVE  /\ apple'[m].token = apple[m].token /\ (apple[m].revoked => apple'[m].revoked)
               /\ apple[m].periods \subseteq apple'[m].periods
    BY <1>1, <2>3 DEF Lineage
  <2> QED
    BY <2>2, <2>4 DEF Lasting, Over
<1> QED
  BY <1>2, <1>3, <1>4, <1>5 DEF Next, vars, ValidateTransaction, ValidateWrites, Updated,
     ValidateNotEntitled, NoteUnresolved, NoteUnlinked, UnlinkedCommits, NoteLinked, SelfHeal,
     NoteWrites, Abort

\* A step of one request keeps the sales, if it keeps the one it heals and provides
\* for those it puts on record.
LEMMA SaleKept ==
    ASSUME IAPInv, SaleInv, Lasting, NEW w \in Worker, NEW j, job' = [job EXCEPT ![w] = j],
           \A n \in lost : n \in lost' \/ subs'[sent[n].line] # NoSub,
           job[w].heals # 0 =>
              \/ j.heals = job[w].heals \/ job[w].heals \in lost'
              \/ subs'[job[w].line] # NoSub \/ Over(job[w].line),
           \A n \in recorded' \ recorded :
              /\ n \in 1..Len(sent)
              /\ \/ sent[n].type = "TEST" \/ subs'[sent[n].line] # NoSub
                 \/ apple[sent[n].line].token = NoUser \/ j.heals = n
    PROVE  SaleInv'
<1>1. job'[w] = j /\ \A v \in Worker \ {w} : job'[v] = job[v]
  BY DEF IAPInv, TypeOK
<1>2. recorded' \subseteq 1..Len(sent) /\ recorded' \subseteq 1..Len(sent')
  BY DEF SaleInv, Lasting
<1>3. ASSUME NEW n \in recorded'
      PROVE  LET l == sent[n].line IN
             \/ sent[n].type = "TEST" \/ subs'[l] # NoSub \/ apple[l].token = NoUser
             \/ \E v \in Worker : job'[v].heals = n
             \/ n \in lost' \/ Over(l)
  <2>1. CASE n \notin recorded
    BY <1>1, <2>1
  <2>2. CASE n \in recorded
    <3>1. sent[n].line \in Line
      BY <1>2, SentShape
    <3>2. n # 0
      BY <1>2
    <3>3. \/ sent[n].type = "TEST" \/ subs[sent[n].line] # NoSub
          \/ apple[sent[n].line].token = NoUser
          \/ \E v \in Worker : job[v].heals = n
          \/ n \in lost \/ Over(sent[n].line)
      BY <2>2 DEF SaleInv, SaleNotLost
    <3>4. job[w].heals = n => sent[n].line = job[w].line
      BY <3>2 DEF IAPInv, JobInv, JobOK
    <3>5. CASE sent[n].type = "TEST" \/ apple[sent[n].line].token = NoUser
      BY <3>5
    <3>6. CASE subs[sent[n].line] # NoSub \/ Over(sent[n].line)
      BY <3>1, <3>6 DEF Lasting
    <3>7. CASE n \in lost
      BY <3>7
    <3>8. ASSUME NEW v \in Worker, job[v].heals = n
          PROVE  \/ \E y \in Worker : job'[y].heals = n
                 \/ subs'[sent[n].line] # NoSub \/ n \in lost' \/ Over(sent[n].line)
      <4>1. CASE v # w
        BY <1>1, <3>8, <4>1
      <4>2. CASE v = w
        BY <1>1, <3>2, <3>4, <3>8, <4>2
      <4> QED
        BY <4>1, <4>2
    <3> QED
      BY <3>3, <3>5, <3>6, <3>7, <3>8
  <2> QED
    BY <2>1, <2>2
<1>4. ASSUME NEW n \in recorded'
      PROVE  /\ sent'[n] = sent[n] /\ apple'[sent[n].line].token = apple[sent[n].line].token
             /\ Over(sent[n].line) => Over(sent[n].line)'
  BY <1>2, SentShape DEF Lasting, Over
<1> QED
  BY <1>2, <1>3, <1>4 DEF SaleInv, SaleNotLost

LEMMA SaleStep == IAPInv /\ SaleInv /\ [Next]_vars => SaleInv'
<1> SUFFICES ASSUME IAPInv, SaleInv, [Next]_vars PROVE SaleInv'
  OBVIOUS
<1>1. Lasting
  BY StepsLast
<1>2. ASSUME NEW w \in Worker
      PROVE  /\ job[w] \in Job \cup {Idle} /\ JobOK(job[w], tx[w]) /\ Idle.heals = 0
             /\ job[w].at = "idle" => job[w].heals = 0
  BY JobShape DEF IAPInv, JobInv, Idle
\* Steps without a request.
<1>3. CASE UNCHANGED <<job, recorded, lost>>
  <2>1. recorded \subseteq 1..Len(sent) /\ recorded' = recorded /\ recorded' \subseteq 1..Len(sent')
    BY <1>1, <1>3 DEF SaleInv, Lasting
  <2>2. ASSUME NEW n \in recorded
        PROVE  /\ sent'[n] = sent[n] /\ sent[n].line \in Line
               /\ apple'[sent[n].line].token = apple[sent[n].line].token
    BY <1>1, <2>1, SentShape DEF Lasting
  <2> QED
    BY <1>1, <1>3, <2>1, <2>2 DEF SaleInv, SaleNotLost, Lasting
<1>4. ASSUME NEW w \in Worker,
             \/ \E u \in User, l \in Line : ValidateTransaction(w, u, l)
             \/ \E n \in Note : NoteUnlinked(w, n) \/ NoteLinked(w, n)
      PROVE  SaleInv'
  <2>1. job[w].heals = 0 /\ UNCHANGED <<recorded, lost>>
    BY <1>2, <1>4 DEF ValidateTransaction, NoteUnlinked, NoteLinked, FirstDelivery
  <2>2. \E j : job' = [job EXCEPT ![w] = j]
    BY <1>4 DEF ValidateTransaction, NoteUnlinked, NoteLinked
  <2> QED
    BY <1>1, <2>1, <2>2, SaleKept
<1>5. ASSUME NEW w \in Worker, SelfHeal(w) \/ ValidateWrites(w) \/ NoteWrites(w) \/ Updated(w)
      PROVE  SaleInv'
  <2>1. job[w] \in Job
    BY <1>2, <1>5, JobShape DEF SelfHeal, ValidateWrites, NoteWrites, Updated, IAPInv
  <2>2. \E j : job' = [job EXCEPT ![w] = j] /\ j.heals = job[w].heals
    <3>1. CASE SelfHeal(w)
      BY <3>1 DEF SelfHeal, Fetched
    <3>2. ASSUME NEW a, job' = [job EXCEPT ![w].at = a]
          PROVE  \E j : job' = [job EXCEPT ![w] = j] /\ j.heals = job[w].heals
      <4>1. [job[w] EXCEPT !.at = a].heals = job[w].heals
        BY <2>1 DEF Job
      <4> QED
        BY <3>2, <4>1
    <3> QED
      BY <1>5, <3>1, <3>2 DEF ValidateWrites, NoteWrites, Updated
  <2>3. UNCHANGED <<recorded, lost>>
    BY <1>5 DEF SelfHeal, ValidateWrites, NoteWrites, Updated
  <2> QED
    BY <1>1, <2>2, <2>3, SaleKept
<1>6. ASSUME NEW w \in Worker, ValidateCommits(w) PROVE SaleInv'
  <2>1. /\ job' = [job EXCEPT ![w] = Idle] /\ recorded' = recorded
        /\ lost' = {n \in lost : sent[n].line # job[w].line}
    BY <1>6 DEF ValidateCommits
  <2>2. subs'[job[w].line] # NoSub
    <3>1. /\ job[w] \in Job /\ job[w].user \in User /\ job[w].line \in Line
          /\ job[w].expires \in Nat
      BY <1>6, JobShape DEF ValidateCommits, IAPInv, JobInv, JobOK, Job
    <3>2. [user |-> job[w].user, status |-> "active", expires |-> job[w].expires] \in Sub
      BY <3>1 DEF Sub, SubStatus
    <3> QED
      BY <1>6, <3>1, <3>2, NoSubAssumption DEF ValidateCommits, IAPInv, TypeOK
  <2> QED
    BY <1>1, <2>1, <2>2, SaleKept
<1>7. ASSUME NEW w \in Worker, ValidateNotEntitled(w) PROVE SaleInv'
  <2>1. /\ job' = [job EXCEPT ![w] = Idle] /\ UNCHANGED <<recorded, lost>>
        /\ job[w].at = "commit" /\ job[w].note = 0 /\ job[w].status # "active"
    BY <1>7 DEF ValidateNotEntitled
  <2>2. job[w] \in Job /\ job[w].line \in Line /\ Over(job[w].line)
    BY <1>2, <2>1, JobShape DEF JobOK, Job, IAPInv
  <2> QED
    BY <1>1, <2>1, <2>2, SaleKept
<1>8. ASSUME NEW w \in Worker, NEW n \in Note, NoteUnresolved(w, n) PROVE SaleInv'
  <2>1. /\ n \in 1..Len(sent) /\ sent[n].type = "TEST" /\ recorded' = recorded \cup {n}
        /\ job' = job /\ job[w].heals = 0 /\ lost' = lost
    BY <1>2, <1>8 DEF NoteUnresolved, FirstDelivery
  <2>2. job' = [job EXCEPT ![w] = job[w]]
    BY <2>1 DEF IAPInv, TypeOK
  <2> QED
    BY <1>1, <2>1, <2>2, SaleKept
<1>9. ASSUME NEW w \in Worker, UnlinkedCommits(w) PROVE SaleInv'
  <2> DEFINE h == [at |-> "heal", note |-> 0, heals |-> job[w].note, line |-> job[w].line,
                   user |-> job[w].user, status |-> "active", expires |-> 0]
             j == IF job[w].user = NoUser THEN Idle ELSE h
  <2>1. /\ job' = [job EXCEPT ![w] = j] /\ recorded' = recorded \cup {job[w].note}
        /\ lost' = lost /\ job[w].at = "unlinked"
    BY <1>9 DEF UnlinkedCommits
  <2>2. /\ job[w].note \in 1..Len(sent) /\ sent[job[w].note].line = job[w].line
        /\ job[w].user = apple[job[w].line].token
    BY <1>2, <2>1 DEF JobOK
  <2>3. apple[job[w].line].token # NoUser => j.heals = job[w].note
    BY <2>2
  <2>4. job[w].heals = 0
    BY <1>2, <2>1 DEF JobOK
  <2> HIDE DEF j
  <2> QED
    BY <1>1, <2>1, <2>2, <2>3, <2>4, SaleKept
<1>10. ASSUME NEW w \in Worker, NoteCommits(w) PROVE SaleInv'
  <2>1. /\ job' = [job EXCEPT ![w] = Idle] /\ recorded' = recorded \cup {job[w].note}
        /\ lost' = lost /\ job[w].note # 0 /\ job[w].at = "commit"
    BY <1>10 DEF NoteCommits
  <2>2. /\ job[w].note \in 1..Len(sent) /\ sent[job[w].note].line = job[w].line
        /\ subs[job[w].line] # NoSub /\ job[w].line \in Line
    BY <1>2, <2>1, JobShape DEF JobOK, Job, IAPInv
  <2>3. subs'[job[w].line] # NoSub
    BY <1>1, <2>2 DEF Lasting
  <2> QED
    BY <1>1, <2>1, <2>2, <2>3, SaleKept
<1>11. ASSUME NEW w \in Worker, Abort(w) PROVE SaleInv'
  <2>1. /\ job' = [job EXCEPT ![w] = Idle] /\ recorded' = recorded /\ subs' = subs
        /\ lost' = lost \cup {n \in {job[w].heals} \ {0} : subs[job[w].line] = NoSub}
    BY <1>11 DEF Abort, BreaksOff
  <2> QED
    BY <1>1, <2>1, SaleKept
<1> QED
  BY <1>3, <1>4, <1>5, <1>6, <1>7, <1>8, <1>9, <1>10, <1>11 DEF Next, vars, Pays, Refunds,
     Expires, OtherNote, Sends, Tick

\* However self-healings race with validations and other notifications: the lineage
\* of a notification on record has a row or a self-healing at work, or one broke
\* off, or there is nothing to grant, or nobody to grant it to.
THEOREM SalesAreNotLost == Spec => []SaleNotLost
<1>1. Init => SaleInv
  BY DEF Init, SaleInv, SaleNotLost
<1>2. SaleInv => SaleNotLost
  BY DEF SaleInv
<1> QED
  BY <1>1, <1>2, Purchases, SaleStep, PTL DEF Spec

=============================================================================
