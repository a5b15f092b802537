------------------------ MODULE StripeWebhook_proofs ------------------------
(***************************************************************************)
(* Proofs about StripeWebhook, for any numbers of users, events, concurrent  *)
(* deliveries, slots and connections.                                       *)
(***************************************************************************)
EXTENDS StripeWebhook, WellFoundedInduction, FiniteSetTheorems, TLAPS

\* Any nonempty set of numbers has a least one.
LEMMA Least ==
    ASSUME NEW T \in SUBSET Nat, T # {}
    PROVE  \E m \in T : \A n \in T : m <= n
<1> DEFINE R == OpToRel(<, Nat)
<1>1. PICK x \in T : \A y \in T : ~ (<<y, x>> \in R)
  BY NatLessThanWellFounded, WFMin
<1>2. ASSUME NEW y \in Nat, y < x, x \in Nat PROVE <<y, x>> \in R
  BY <1>2 DEF OpToRel
<1> HIDE DEF R
<1>3. \A y \in T : ~(y < x)
  BY <1>1, <1>2
<1> QED
  BY <1>1, <1>3

\* A grant finds a slot that holds no row and that no open transaction has seen.
LEMMA NextSlotFree ==
    ASSUME NEW i \in Slot, FreeSlot(i)
    PROVE  NextSlot \in Slot /\ FreeSlot(NextSlot)
<1> DEFINE T == {j \in Slot : FreeSlot(j)}
<1>1. T \in SUBSET Nat /\ T # {}
  BY EntitlementAssumption DEF Slot
<1>2. PICK m \in T : \A n \in T : m <= n
  BY <1>1, Least
<1>3. m \in Slot /\ FreeSlot(m) /\ \A j \in Slot : FreeSlot(j) => m <= j
  BY <1>2
<1> HIDE DEF T
<1> QED
  BY <1>3 DEF NextSlot

-----------------------------------------------------------------------------
(* The inductive invariant. *)

\* How far a request is, what its transaction did to the entitlements, and what
\* it knows when it is about to commit without having touched them.
JobOK(j, t) ==
    /\ j.at # "idle" => j.event \in 1..Len(sent)
    /\ j.at \in {"idle", "begun", "claimed"} => t.at = "none"
    /\ j.at = "update" => t.at = "update" /\ t.locked = {}
    /\ j.at = "commit" => t.at \in {"none", "updated"}
    /\ t.at # "none" => t.user = sent[j.event].user /\ t.source = "stripe"
JobInv ==
    \A w \in Worker :
       /\ JobOK(job[w], tx[w])
       /\ job[w].at = "commit" /\ tx[w].at = "none" =>
             job[w].event \in missed \/ ~Attributable(sent[job[w].event])

\* An event is in one transaction at most, and in none once it is on record.
ClaimInv ==
    \A w \in Worker : Claimed(w) =>
       /\ job[w].event \notin recorded
       /\ \A v \in Worker \ {w} : Claimed(v) => job[v].event # job[w].event

RecordInv ==
    /\ recorded \subseteq 1..Len(sent)
    /\ \A e \in Event \ recorded : applied[e] = 0

\* As in EntitlementRace: slots that were seen are not given to other rows.
SeenOK(t) ==
    /\ t.locked \subseteq t.seen
    /\ \A i \in t.seen : active[i] # NoRow =>
          /\ active[i].user = t.user /\ active[i].source = t.source
          /\ t.at = "updated" => i \in t.locked
TxInv == \A w \in Worker : SeenOK(tx[w])

\* The events of an orderly user are processed one by one, each later than those
\* on record; the transaction that has one has seen all of the user's rows.
OrderInv ==
    \A w \in Worker : Claimed(w) =>
       LET e == job[w].event  u == sent[e].user IN
       u \notin disordered =>
          /\ \A f \in recorded : sent[f].user = u => f < e
          /\ \A v \in Worker \ {w} : Claimed(v) => sent[job[v].event].user # u
          /\ tx[w].at # "none" => ActiveRows(u, "stripe") \subseteq tx[w].seen

HookInv == /\ TypeOK /\ JobInv /\ ClaimInv /\ RecordInv /\ TxInv /\ OrderInv
           /\ AppliedExactlyOnce /\ LastEventDecides

LEMMA HookInit == Init => HookInv
<1> SUFFICES ASSUME Init PROVE HookInv
  OBVIOUS
<1>1. TypeOK
  <2>1. Idle \in Job
    BY DEF Idle, Job
  <2>2. ASSUME NEW b \in [status : {"none"}, cancel : {FALSE}, end : {0}, tagged : BOOLEAN,
                          known : BOOLEAN, shown : BOOLEAN]
        PROVE  b \in Sub
    <3>1. \A F : F \in {FALSE} => F \in BOOLEAN
      BY Zenon
    <3>2. b.cancel \in {FALSE}
      OBVIOUS
    <3>3. b.status \in Status /\ b.end \in Nat
      BY DEF Status
    <3>4. b.cancel \in BOOLEAN
      BY <3>1, <3>2, Zenon
    <3> QED
      BY <3>3, <3>4 DEF Sub
  <2>3. sub \in [User -> Sub]
    BY <2>2 DEF Init
  <2>4. sent \in Seq(Payload)
    BY DEF Init
  <2> QED
    BY <2>1, <2>3, <2>4 DEF Init, EntInit, TypeOK, EntTypeOK
<1>2. JobInv /\ ClaimInv /\ RecordInv /\ TxInv /\ OrderInv
  BY DEF Init, EntInit, JobInv, JobOK, ClaimInv, RecordInv, TxInv, SeenOK, OrderInv, Idle, NoTx,
         Claimed
<1>3. AppliedExactlyOnce /\ LastEventDecides
  BY DEF Init, AppliedExactlyOnce, LastEventDecides, Last
<1> QED
  BY <1>1, <1>2, <1>3 DEF HookInv

LEMMA JobShape ==
    ASSUME TypeOK, NEW w \in Worker
    PROVE  /\ job[w] \in Job /\ tx[w] \in Tx \cup {NoTx}
           /\ tx[w].seen \subseteq Slot /\ tx[w].locked \subseteq Slot
           /\ tx[w].at # "none" <=> tx[w] \in Tx
BY DEF TypeOK, EntTypeOK, Tx, NoTx

\* Last and Access only look at events that Stripe has sent.
LEMMA SentEvents ==
    ASSUME HookInv, NEW e \in Event, applied[e] > 0 \/ e \in recorded
    PROVE  e \in 1..Len(sent) /\ sent[e] \in Payload /\ sent[e].user \in User
<1>1. e \in recorded
  BY DEF HookInv, RecordInv
<1>2. e \in 1..Len(sent)
  BY <1>1 DEF HookInv, RecordInv
<1>3. sent[e] \in Payload
  BY <1>2 DEF HookInv, TypeOK
<1> QED
  BY <1>2, <1>3 DEF Payload

LEMMA JobEvents ==
    ASSUME HookInv, NEW w \in Worker, job[w].at # "idle"
    PROVE  /\ job[w].event \in 1..Len(sent) /\ job[w].event \in Event
           /\ sent[job[w].event] \in Payload /\ sent[job[w].event].user \in User
<1>1. job[w].event \in 1..Len(sent)
  BY DEF HookInv, JobInv, JobOK
<1>2. Len(sent) \in Nat /\ job[w].event \in Event \cup {0}
  BY JobShape DEF HookInv, TypeOK, Job
<1>3. job[w].event \in Event
  BY <1>1, <1>2
<1>4. sent[job[w].event] \in Payload
  BY <1>1 DEF HookInv, TypeOK
<1> QED
  BY <1>1, <1>3, <1>4 DEF Payload

-----------------------------------------------------------------------------
(* Steps of one request that change neither the entitlements nor the record. *)

LEMMA QuietStep ==
    ASSUME HookInv, NEW w \in Worker, NEW j \in Job, NEW t \in Tx \cup {NoTx},
           job' = [job EXCEPT ![w] = j], tx' = [tx EXCEPT ![w] = t],
           UNCHANGED <<active, clock, sub, sent, recorded, applied>>,
           acked' \subseteq recorded, missed \subseteq missed', missed' \subseteq Event,
           disordered \subseteq disordered', disordered' \subseteq User,
           JobOK(j, t), SeenOK(t),
           j.at = "commit" /\ t.at = "none" =>
              j.event \in missed' \/ ~Attributable(sent[j.event]),
           j.at \notin {"idle", "begun"} =>
              /\ j.event \notin recorded
              /\ \A v \in Worker \ {w} : Claimed(v) => job[v].event # j.event
              /\ sent[j.event].user \notin disordered' =>
                    /\ \A f \in recorded : sent[f].user = sent[j.event].user => f < j.event
                    /\ \A v \in Worker \ {w} :
                          Claimed(v) => sent[job[v].event].user # sent[j.event].user
                    /\ t.at # "none" => ActiveRows(sent[j.event].user, "stripe") \subseteq t.seen
    PROVE  HookInv'
<1>1. /\ job'[w] = j /\ tx'[w] = t
      /\ \A v \in Worker \ {w} : job'[v] = job[v] /\ tx'[v] = tx[v]
  BY DEF HookInv, TypeOK, EntTypeOK
<1>2. TypeOK'
  BY DEF HookInv, TypeOK, EntTypeOK, RecordInv
<1>3. JobInv'
  <2> SUFFICES ASSUME NEW v \in Worker
               PROVE  /\ JobOK(job'[v], tx'[v])
                      /\ job'[v].at = "commit" /\ tx'[v].at = "none" =>
                            job'[v].event \in missed' \/ ~Attributable(sent[job'[v].event])
    BY DEF JobInv, JobOK, Attributable
  <2>1. CASE v = w
    BY <1>1, <2>1
  <2>2. CASE v # w
    BY <1>1, <2>2 DEF HookInv, JobInv
  <2> QED
    BY <2>1, <2>2
<1>4. ClaimInv'
  BY <1>1 DEF HookInv, ClaimInv, Claimed
<1>5. RecordInv' /\ AppliedExactlyOnce'
  BY DEF HookInv, RecordInv, AppliedExactlyOnce, Attributable
<1>6. TxInv'
  BY <1>1 DEF HookInv, TxInv, SeenOK
<1>7. OrderInv'
  BY <1>1 DEF HookInv, OrderInv, Claimed, ActiveRows
<1>8. LastEventDecides'
  BY DEF HookInv, LastEventDecides, Last, ActiveRows
<1> QED
  BY <1>2, <1>3, <1>4, <1>5, <1>6, <1>7, <1>8 DEF HookInv

\* What a step from claimed on may count on.
LEMMA ClaimedFacts ==
    ASSUME HookInv, NEW w \in Worker, Claimed(w)
    PROVE  /\ job[w].event \notin recorded
           /\ \A v \in Worker \ {w} : Claimed(v) => job[v].event # job[w].event
           /\ sent[job[w].event].user \notin disordered =>
                 /\ \A f \in recorded : sent[f].user = sent[job[w].event].user => f < job[w].event
                 /\ \A v \in Worker \ {w} :
                       Claimed(v) => sent[job[v].event].user # sent[job[w].event].user
                 /\ tx[w].at # "none" =>
                       ActiveRows(sent[job[w].event].user, "stripe") \subseteq tx[w].seen
BY DEF HookInv, ClaimInv, OrderInv

LEMMA BeginStep ==
    ASSUME HookInv, NEW w \in Worker, NEW e \in Event, Begin(w, e)
    PROVE  HookInv'
<1> DEFINE j == [at |-> "begun", event |-> e]
<1>1. j \in Job /\ j.at = "begun" /\ j.event = e
  BY DEF Job
<1>2. tx[w].at = "none" /\ job' = [job EXCEPT ![w] = j] /\ e \in 1..Len(sent)
      /\ UNCHANGED <<active, tx, clock, sub, sent, recorded, acked, applied, missed, disordered>>
  BY DEF Begin, HookInv, JobInv, JobOK
<1>3. tx' = [tx EXCEPT ![w] = tx[w]] /\ tx[w] \in Tx \cup {NoTx}
  BY <1>2 DEF HookInv, TypeOK, EntTypeOK
<1> HIDE DEF j
<1>4. JobOK(j, tx[w]) /\ SeenOK(tx[w])
  BY <1>1, <1>2 DEF JobOK, HookInv, TxInv
<1>5. acked' \subseteq recorded /\ missed' \subseteq Event /\ disordered' \subseteq User
  BY <1>2 DEF HookInv, AppliedExactlyOnce, TypeOK
<1> QED
  BY <1>1, <1>2, <1>3, <1>4, <1>5, QuietStep

\* A transaction is over: nothing of it remains.
LEMMA OverStep ==
    ASSUME HookInv, NEW w \in Worker, job' = [job EXCEPT ![w] = Idle],
           tx' = [tx EXCEPT ![w] = NoTx], acked' \subseteq recorded,
           UNCHANGED <<active, clock, sub, sent, recorded, applied, missed, disordered>>
    PROVE  HookInv'
<1>1. Idle \in Job /\ Idle.at = "idle" /\ NoTx \in Tx \cup {NoTx} /\ NoTx.at = "none"
  BY DEF Idle, Job, NoTx
<1>2. JobOK(Idle, NoTx) /\ SeenOK(NoTx)
  BY DEF JobOK, SeenOK, Idle, NoTx
<1>3. missed' \subseteq Event /\ disordered' \subseteq User
  BY DEF HookInv, TypeOK
<1> QED
  BY <1>1, <1>2, <1>3, QuietStep

LEMMA EndSteps ==
    ASSUME HookInv, NEW w \in Worker, Duplicate(w) \/ Abort(w)
    PROVE  HookInv'
<1>1. CASE Duplicate(w)
  <2>1. tx[w].at = "none" /\ tx[w] \in Tx \cup {NoTx}
    BY <1>1, JobShape DEF Duplicate, HookInv, JobInv, JobOK
  <2>2. tx[w] = NoTx
    BY <2>1 DEF Tx
  <2>3. tx' = [tx EXCEPT ![w] = NoTx]
    BY <1>1, <2>2 DEF Duplicate, HookInv, TypeOK, EntTypeOK
  <2>4. acked' \subseteq recorded
    BY <1>1 DEF Duplicate, HookInv, AppliedExactlyOnce
  <2> QED
    BY <1>1, <2>3, <2>4, OverStep DEF Duplicate
<1>2. CASE Abort(w)
  BY <1>2, OverStep DEF Abort, EndTx, HookInv, AppliedExactlyOnce
<1> QED
  BY <1>1, <1>2

LEMMA ClaimStep ==
    ASSUME HookInv, NEW w \in Worker, Claim(w)
    PROVE  HookInv'
<1> DEFINE e == job[w].event
           j == [job[w] EXCEPT !.at = "claimed"]
<1>1. /\ job[w].at = "begun" /\ e \notin recorded /\ job' = [job EXCEPT ![w] = j]
      /\ \A v \in Worker : Claimed(v) => job[v].event # e
      /\ disordered' = IF Late(e) THEN disordered \cup {sent[e].user} ELSE disordered
      /\ UNCHANGED <<active, tx, clock, sub, sent, recorded, acked, applied, missed>>
  BY DEF Claim, Claims
<1>2. e \in 1..Len(sent) /\ e \in Event /\ sent[e].user \in User
  BY <1>1, JobEvents
<1>3. j \in Job /\ j.at = "claimed" /\ j.event = e
  BY <1>1, JobShape DEF HookInv, Job
<1>4. tx[w].at = "none" /\ tx[w] \in Tx \cup {NoTx} /\ tx' = [tx EXCEPT ![w] = tx[w]]
  BY <1>1, JobShape DEF HookInv, JobInv, JobOK, TypeOK, EntTypeOK
<1> HIDE DEF j
<1>5. JobOK(j, tx[w]) /\ SeenOK(tx[w])
  BY <1>2, <1>3, <1>4 DEF JobOK, HookInv, TxInv
<1>6. ASSUME sent[e].user \notin disordered'
      PROVE  /\ \A f \in recorded : sent[f].user = sent[e].user => f < e
             /\ \A v \in Worker \ {w} : Claimed(v) => sent[job[v].event].user # sent[e].user
  <2>1. ~Late(e)
    BY <1>1, <1>6
  <2>2. ASSUME NEW f \in recorded, sent[f].user = sent[e].user PROVE f < e
    <3>1. f \in SameUser(e) /\ f \in Event /\ f # e
      BY <1>1, <2>2 DEF SameUser, HookInv, RecordInv, TypeOK
    <3>2. ~(f > e) /\ f \in Int /\ e \in Int
      BY <1>2, <2>1, <2>2, <3>1 DEF Late, Event
    <3> QED
      BY <3>1, <3>2
  <2>3. ASSUME NEW v \in Worker, Claimed(v) PROVE sent[job[v].event].user # sent[e].user
    <3>1. job[v].event \in 1..Len(sent)
      BY <2>3, JobEvents DEF Claimed
    <3> QED
      BY <2>1, <2>3, <3>1 DEF Late, SameUser
  <2> QED
    BY <2>2, <2>3
<1>7. acked' \subseteq recorded /\ missed' \subseteq Event /\ disordered' \subseteq User
      /\ disordered \subseteq disordered'
  BY <1>1, <1>2 DEF HookInv, AppliedExactlyOnce, TypeOK
<1> HIDE DEF e
<1> QED
  BY <1>1, <1>3, <1>4, <1>5, <1>6, <1>7, QuietStep

\* The event is none of the handler's business, or its customer is not found.
LEMMA SkipStep ==
    ASSUME HookInv, NEW w \in Worker, Skip(w) \/ NotFound(w)
    PROVE  HookInv'
<1> DEFINE e == job[w].event
           j == [job[w] EXCEPT !.at = "commit"]
<1>1. /\ job[w].at = "claimed" /\ job' = [job EXCEPT ![w] = j]
      /\ missed' = missed \cup {e} \/ (missed' = missed /\ ~Attributable(sent[e]))
      /\ UNCHANGED <<active, tx, clock, sub, sent, recorded, acked, applied, disordered>>
  BY DEF Skip, NotFound, NeedsLookup, Attributable
<1>2. e \in 1..Len(sent) /\ e \in Event
  BY <1>1, JobEvents
<1>3. j \in Job /\ j.at = "commit" /\ j.event = e
  BY <1>1, JobShape DEF HookInv, Job
<1>4. tx[w].at = "none" /\ tx[w] \in Tx \cup {NoTx} /\ tx' = [tx EXCEPT ![w] = tx[w]]
  BY <1>1, JobShape DEF HookInv, JobInv, JobOK, TypeOK, EntTypeOK
<1>5. /\ e \notin recorded
      /\ \A v \in Worker \ {w} : Claimed(v) => job[v].event # e
      /\ sent[e].user \notin disordered =>
            /\ \A f \in recorded : sent[f].user = sent[e].user => f < e
            /\ \A v \in Worker \ {w} : Claimed(v) => sent[job[v].event].user # sent[e].user
  BY <1>1, ClaimedFacts DEF Claimed
<1> HIDE DEF j, e
<1>6. JobOK(j, tx[w]) /\ SeenOK(tx[w])
  BY <1>2, <1>3, <1>4 DEF JobOK, HookInv, TxInv
<1>7. /\ acked' \subseteq recorded /\ missed' \subseteq Event /\ disordered' \subseteq User
      /\ missed \subseteq missed' /\ (e \in missed' \/ ~Attributable(sent[e]))
  BY <1>1, <1>2 DEF HookInv, AppliedExactlyOnce, TypeOK
<1> QED
  BY <1>1, <1>3, <1>4, <1>5, <1>6, <1>7, QuietStep

LEMMA ProcessStep ==
    ASSUME HookInv, NEW w \in Worker, ProcessStripeEvent(w)
    PROVE  HookInv'
<1> DEFINE e == job[w].event
           u == sent[e].user
           j == [job[w] EXCEPT !.at = "update"]
           t == [at |-> "update", user |-> u, source |-> "stripe",
                 seen |-> ActiveRows(u, "stripe"), locked |-> {}]
<1>1. /\ job[w].at = "claimed" /\ job' = [job EXCEPT ![w] = j] /\ tx' = [tx EXCEPT ![w] = t]
      /\ UNCHANGED <<active, clock, sub, sent, recorded, acked, applied, missed, disordered>>
  BY DEF ProcessStripeEvent, RevokeActive
<1>2. e \in 1..Len(sent) /\ e \in Event /\ u \in User
  BY <1>1, JobEvents
<1>3. j \in Job /\ j.at = "update" /\ j.event = e
  BY <1>1, JobShape DEF HookInv, Job
<1>4. /\ t \in Tx /\ t.at = "update" /\ t.user = u /\ t.source = "stripe" /\ t.locked = {}
      /\ t.seen = ActiveRows(u, "stripe")
  BY <1>2, StripeAssumption DEF Tx, ActiveRows
<1>5. /\ e \notin recorded
      /\ \A v \in Worker \ {w} : Claimed(v) => job[v].event # e
      /\ u \notin disordered =>
            /\ \A f \in recorded : sent[f].user = u => f < e
            /\ \A v \in Worker \ {w} : Claimed(v) => sent[job[v].event].user # u
  BY <1>1, ClaimedFacts DEF Claimed
<1>6. u = sent[e].user
  OBVIOUS
<1> HIDE DEF j, e, t, u
<1>7. JobOK(j, t) /\ SeenOK(t)
  BY <1>2, <1>3, <1>4, <1>6 DEF JobOK, SeenOK, ActiveRows
<1>8. acked' \subseteq recorded /\ missed' \subseteq Event /\ disordered' \subseteq User
  BY <1>1 DEF HookInv, AppliedExactlyOnce, TypeOK
<1> QED
  BY <1>1, <1>3, <1>4, <1>5, <1>6, <1>7, <1>8, QuietStep

LEMMA UpdatedStep ==
    ASSUME HookInv, NEW w \in Worker, Updated(w)
    PROVE  HookInv'
<1> DEFINE e == job[w].event
           j == [job[w] EXCEPT !.at = "commit"]
           t == [tx[w] EXCEPT !.at = "updated",
                              !.locked = {i \in tx[w].seen : active[i] # NoRow}]
<1>1. /\ job[w].at = "update" /\ job' = [job EXCEPT ![w] = j] /\ tx' = [tx EXCEPT ![w] = t]
      /\ tx[w].at = "update"
      /\ UNCHANGED <<active, clock, sub, sent, recorded, acked, applied, missed, disordered>>
  BY DEF Updated, LockRows
<1>2. e \in 1..Len(sent) /\ e \in Event
  BY <1>1, JobEvents
<1>3. j \in Job /\ j.at = "commit" /\ j.event = e
  BY <1>1, JobShape DEF HookInv, Job
<1>4. /\ tx[w] \in Tx /\ t \in Tx /\ t.at = "updated" /\ t.user = tx[w].user
      /\ t.source = tx[w].source /\ t.seen = tx[w].seen
      /\ t.locked = {i \in tx[w].seen : active[i] # NoRow}
  <2>1. tx[w] \in Tx
    BY <1>1, JobShape DEF HookInv
  <2> QED
    BY <2>1 DEF Tx
<1>5. /\ e \notin recorded
      /\ \A v \in Worker \ {w} : Claimed(v) => job[v].event # e
      /\ sent[e].user \notin disordered =>
            /\ \A f \in recorded : sent[f].user = sent[e].user => f < e
            /\ \A v \in Worker \ {w} : Claimed(v) => sent[job[v].event].user # sent[e].user
            /\ ActiveRows(sent[e].user, "stripe") \subseteq tx[w].seen
  BY <1>1, ClaimedFacts DEF Claimed
<1>6. tx[w].user = sent[e].user /\ tx[w].source = "stripe" /\ SeenOK(tx[w])
  BY <1>1 DEF HookInv, JobInv, JobOK, TxInv
<1> HIDE DEF j, e, t
<1>7. JobOK(j, t) /\ SeenOK(t)
  BY <1>2, <1>3, <1>4, <1>6 DEF JobOK, SeenOK
<1>8. acked' \subseteq recorded /\ missed' \subseteq Event /\ disordered' \subseteq User
  BY <1>1 DEF HookInv, AppliedExactlyOnce, TypeOK
<1> QED
  BY <1>1, <1>3, <1>4, <1>5, <1>7, <1>8, QuietStep

-----------------------------------------------------------------------------
(* The commit. *)

LEMMA AccessExpires ==
    ASSUME NEW p \in Payload
    PROVE  Access(p).expires \in Nat \cup {NoExpiry}
<1>1. StripeSubscriptionPeriodEnd(p) \in Nat
  BY DEF StripeSubscriptionPeriodEnd, Payload
<1>2. SubscriptionProAccess(p).expires \in Nat \cup {NoExpiry}
  BY <1>1 DEF SubscriptionProAccess
<1> QED
  BY <1>2 DEF Access

\* What a commit does to the table: rows of its user come and go, no others do;
\* a slot another transaction has seen is freed at most; and when it has seen all
\* Stripe rows of its user, they are replaced.
LEMMA CommitRows ==
    ASSUME HookInv, NEW w \in Worker, job[w].at = "commit", tx[w].at = "updated",
           NEW e, e = job[w].event, NEW u, u = sent[e].user,
           IF Access(sent[e]).grant THEN CommitGrant(w, Access(sent[e]).expires)
                                    ELSE CommitRevoke(w)
    PROVE  /\ active' \in [Slot -> Row \cup {NoRow}] /\ tx' = [tx EXCEPT ![w] = NoTx]
           /\ \A i \in Slot : \/ active'[i] = active[i]
                             \/ /\ active[i] # NoRow => active[i].user = u
                                /\ active'[i] # NoRow => active'[i].user = u
           /\ \A v \in Worker : \A i \in tx[v].seen : active'[i] \in {active[i], NoRow}
           /\ ActiveRows(u, "stripe") \subseteq tx[w].seen =>
                 {active'[i] : i \in ActiveRows(u, "stripe")'} =
                    IF Access(sent[e]).grant
                    THEN {[user |-> u, source |-> "stripe", expires |-> Access(sent[e]).expires]}
                    ELSE {}
<1>1. /\ sent[e] \in Payload /\ u \in User
      /\ tx[w].user = u /\ tx[w].source = "stripe"
  BY JobEvents DEF HookInv, JobInv, JobOK
<1>2. /\ tx[w].locked \subseteq tx[w].seen /\ tx[w].seen \subseteq Slot
      /\ \A v \in Worker : tx[v].seen \subseteq Slot
      /\ \A i \in tx[w].seen : active[i] # NoRow =>
            active[i].user = u /\ active[i].source = "stripe" /\ i \in tx[w].locked
  BY <1>1, JobShape DEF HookInv, TxInv, SeenOK
<1>3. active \in [Slot -> Row \cup {NoRow}]
  BY DEF HookInv, TypeOK, EntTypeOK
<1>4. CASE ~Access(sent[e]).grant
  <2>1. /\ tx' = [tx EXCEPT ![w] = NoTx]
        /\ active' = [i \in Slot |-> IF i \in tx[w].locked THEN NoRow ELSE active[i]]
    BY <1>4 DEF CommitRevoke, EndTx
  <2>2. ActiveRows(u, "stripe") \subseteq tx[w].seen => ActiveRows(u, "stripe")' = {}
    BY <1>2, <2>1 DEF ActiveRows
  <2>3. /\ active' \in [Slot -> Row \cup {NoRow}]
        /\ \A i \in Slot : \/ active'[i] = active[i]
                          \/ /\ active[i] # NoRow => active[i].user = u
                             /\ active'[i] # NoRow => active'[i].user = u
        /\ \A v \in Worker : \A i \in tx[v].seen : active'[i] \in {active[i], NoRow}
    BY <1>2, <1>3, <2>1
  <2> QED
    BY <1>4, <2>1, <2>2, <2>3
<1>5. CASE Access(sent[e]).grant
  <2> DEFINE r == [user |-> u, source |-> "stripe", expires |-> Access(sent[e]).expires]
             n == NextSlot
  <2>1. /\ tx' = [tx EXCEPT ![w] = NoTx]
        /\ active' = [i \in Slot |-> IF i = n THEN r
                                    ELSE IF i \in tx[w].locked THEN NoRow ELSE active[i]]
        /\ \E i \in Slot : FreeSlot(i)
    BY <1>1, <1>5 DEF CommitGrant, EndTx
  <2>2. n \in Slot /\ active[n] = NoRow /\ \A v \in Worker : n \notin tx[v].seen
    BY <2>1, NextSlotFree DEF FreeSlot
  <2>3. r \in Row /\ r # NoRow /\ r.user = u /\ r.source = "stripe"
    BY <1>1, AccessExpires, EntitlementAssumption, StripeAssumption DEF Row
  <2> HIDE DEF r, n
  <2>4. ActiveRows(u, "stripe") \subseteq tx[w].seen => ActiveRows(u, "stripe")' = {n}
    BY <1>2, <2>1, <2>2, <2>3 DEF ActiveRows
  <2>5. active'[n] = r
    BY <2>1, <2>2
  <2>6. /\ active' \in [Slot -> Row \cup {NoRow}]
        /\ \A i \in Slot : \/ active'[i] = active[i]
                          \/ /\ active[i] # NoRow => active[i].user = u
                             /\ active'[i] # NoRow => active'[i].user = u
        /\ \A v \in Worker : \A i \in tx[v].seen : active'[i] \in {active[i], NoRow}
    BY <1>2, <1>3, <2>1, <2>2, <2>3
  <2>7. ActiveRows(u, "stripe") \subseteq tx[w].seen =>
           {active'[i] : i \in ActiveRows(u, "stripe")'} = {r}
    BY <2>4, <2>5
  <2> QED
    BY <1>5, <2>1, <2>6, <2>7 DEF r
<1> QED
  BY <1>4, <1>5

\* A commit is the moment an event is applied, goes on record, or both.
LEMMA CommitStep ==
    ASSUME HookInv, NEW w \in Worker, NEW replied \in BOOLEAN, Commit(w, replied)
    PROVE  HookInv'
<1>0. /\ job[w].event \in Event /\ job[w].event \in 1..Len(sent)
      /\ sent[job[w].event] \in Payload /\ sent[job[w].event].user \in User
  BY JobEvents DEF Commit
<1>9. PICK e \in Event, u \in User : e = job[w].event /\ u = sent[e].user
  BY <1>0
<1> DEFINE Rows(i, x, a) == \* the user's rows are what the event says
              i = IF a.grant THEN {[user |-> x, source |-> "stripe", expires |-> a.expires]} ELSE {}
           Quiet == /\ UNCHANGED <<active, applied>> /\ tx[w].at = "none"
                    /\ e \in missed \/ ~Attributable(sent[e])
           Applies == /\ applied' = [applied EXCEPT ![e] = 1]
                      /\ u \notin disordered =>
                            Rows({active'[i] : i \in ActiveRows(u, "stripe")'},
                                 u, Access(sent[e]))
<1>1. /\ job[w].at = "commit" /\ job' = [job EXCEPT ![w] = Idle]
      /\ recorded' = recorded \cup {e} /\ acked' \in {acked, acked \cup {e}}
      /\ UNCHANGED <<clock, sub, sent, missed, disordered>>
  BY <1>9 DEF Commit
<1>2. e \in 1..Len(sent) /\ sent[e] \in Payload
  BY <1>0, <1>9
<1>3. /\ e \notin recorded
      /\ \A v \in Worker \ {w} : Claimed(v) => job[v].event # e
      /\ u \notin disordered =>
            /\ \A f \in recorded : sent[f].user = u => f < e
            /\ \A v \in Worker \ {w} : Claimed(v) => sent[job[v].event].user # u
            /\ tx[w].at # "none" => ActiveRows(u, "stripe") \subseteq tx[w].seen
  BY <1>1, <1>9, ClaimedFacts DEF Claimed
<1>4. Idle \in Job /\ Idle.at = "idle" /\ NoTx \in Tx \cup {NoTx} /\ NoTx.at = "none"
      /\ NoTx.seen = {} /\ NoTx.locked = {}
  BY DEF Idle, Job, NoTx
<1>5. applied[e] = 0 /\ applied \in [Event -> Nat]
  BY <1>2, <1>3 DEF HookInv, RecordInv, TypeOK
\* What the two kinds of commit have in common.
<1>6. /\ active' \in [Slot -> Row \cup {NoRow}] /\ tx' = [tx EXCEPT ![w] = NoTx]
      /\ \A i \in Slot : \/ active'[i] = active[i]
                        \/ /\ active[i] # NoRow => active[i].user = u
                           /\ active'[i] # NoRow => active'[i].user = u
      /\ \A v \in Worker : \A i \in tx[v].seen : active'[i] \in {active[i], NoRow}
      /\ Quiet \/ Applies
  <2>1. CASE tx[w].at = "none"
    <3>1. tx[w] = NoTx
      BY <2>1, JobShape DEF HookInv, Tx
    <3>2. UNCHANGED <<active, tx, applied>>
      BY <2>1 DEF Commit
    <3>3. active \in [Slot -> Row \cup {NoRow}] /\ tx' = [tx EXCEPT ![w] = NoTx]
      BY <3>1, <3>2 DEF HookInv, TypeOK, EntTypeOK
    <3>4. Quiet
      BY <1>1, <1>9, <2>1, <3>2 DEF HookInv, JobInv
    <3> QED
      BY <3>2, <3>3, <3>4
  <2>2. CASE tx[w].at # "none"
    <3>1. tx[w].at = "updated"
      BY <1>1, <2>2 DEF HookInv, JobInv, JobOK
    <3>2. /\ IF Access(sent[e]).grant THEN CommitGrant(w, Access(sent[e]).expires)
                                      ELSE CommitRevoke(w)
          /\ applied' = [applied EXCEPT ![e] = 1]
      BY <1>5, <1>9, <2>2 DEF Commit
    <3>4. /\ active' \in [Slot -> Row \cup {NoRow}] /\ tx' = [tx EXCEPT ![w] = NoTx]
          /\ \A i \in Slot : \/ active'[i] = active[i]
                            \/ /\ active[i] # NoRow => active[i].user = u
                               /\ active'[i] # NoRow => active'[i].user = u
          /\ \A v \in Worker : \A i \in tx[v].seen : active'[i] \in {active[i], NoRow}
          /\ ActiveRows(u, "stripe") \subseteq tx[w].seen =>
                {active'[i] : i \in ActiveRows(u, "stripe")'} =
                    IF Access(sent[e]).grant
                    THEN {[user |-> u, source |-> "stripe", expires |-> Access(sent[e]).expires]}
                    ELSE {}
      BY <1>1, <1>9, <3>1, <3>2, CommitRows
    <3>5. Applies
      BY <1>3, <2>2, <3>2, <3>4
    <3> QED
      BY <3>4, <3>5
  <2> QED
    BY <2>1, <2>2
<1>7. /\ job'[w] = Idle /\ tx'[w] = NoTx
      /\ \A v \in Worker \ {w} : job'[v] = job[v] /\ tx'[v] = tx[v]
  BY <1>1, <1>6 DEF HookInv, TypeOK, EntTypeOK
<1>8. /\ applied' \in [Event -> Nat] /\ \A f \in Event \ {e} : applied'[f] = applied[f]
      /\ \/ Quiet /\ applied'[e] = 0
         \/ Applies /\ applied'[e] = 1
  <2>1. CASE Quiet
    BY <1>5, <2>1
  <2>2. CASE Applies
    BY <1>2, <1>5, <2>2
  <2> QED
    BY <1>6, <2>1, <2>2
<1> HIDE DEF Quiet, Applies, Rows
<1>10. TypeOK'
  BY <1>1, <1>2, <1>4, <1>6, <1>8 DEF HookInv, TypeOK, EntTypeOK
<1>11. JobInv'
  <2> SUFFICES ASSUME NEW v \in Worker
               PROVE  /\ JobOK(job'[v], tx'[v])
                      /\ job'[v].at = "commit" /\ tx'[v].at = "none" =>
                            job'[v].event \in missed \/ ~Attributable(sent[job'[v].event])
    BY <1>1 DEF JobInv, JobOK, Attributable
  <2>1. CASE v = w
    BY <1>4, <1>7, <2>1 DEF JobOK
  <2>2. CASE v # w
    BY <1>7, <2>2 DEF HookInv, JobInv
  <2> QED
    BY <2>1, <2>2
<1>12. ClaimInv'
  BY <1>1, <1>3, <1>4, <1>7 DEF HookInv, ClaimInv, Claimed
<1>13. RecordInv'
  BY <1>1, <1>2, <1>8 DEF HookInv, RecordInv
<1>14. TxInv'
  <2> SUFFICES ASSUME NEW v \in Worker PROVE SeenOK(tx[v])' 
    BY DEF TxInv
  <2>1. CASE v = w
    BY <1>4, <1>7, <2>1 DEF SeenOK
  <2>2. CASE v # w
    BY <1>6, <1>7, <2>2 DEF HookInv, TxInv, SeenOK
  <2> QED
    BY <2>1, <2>2
<1>15. ASSUME NEW x \in User, x # u
       PROVE  /\ ActiveRows(x, "stripe")' = ActiveRows(x, "stripe")
              /\ \A i \in ActiveRows(x, "stripe") : active'[i] = active[i]
  BY <1>6, <1>15 DEF ActiveRows
<1>16. OrderInv'
  <2> SUFFICES ASSUME NEW v \in Worker, Claimed(v)', NEW f, f = job'[v].event,
                      NEW x, x = sent[f].user, x \notin disordered
               PROVE  /\ \A g \in recorded' : sent[g].user = x => g < f
                      /\ \A y \in Worker \ {v} : Claimed(y)' => sent[job'[y].event].user # x
                      /\ tx'[v].at # "none" => ActiveRows(x, "stripe")' \subseteq tx'[v].seen
    BY <1>1 DEF OrderInv
  <2>1. v # w /\ Claimed(v) /\ f = job[v].event /\ tx'[v] = tx[v]
    BY <1>4, <1>7 DEF Claimed
  <2>2. Claimed(w) /\ x \in User
    BY <1>1, <2>1, JobEvents DEF Claimed
  <2>3. /\ \A g \in recorded : sent[g].user = x => g < f
        /\ \A y \in Worker \ {v} : Claimed(y) => sent[job[y].event].user # x
        /\ tx[v].at # "none" => ActiveRows(x, "stripe") \subseteq tx[v].seen
    BY <2>1, ClaimedFacts
  <2>4. u # x
    BY <1>9, <2>1, <2>2, <2>3
  <2>5. \A y \in Worker \ {v} : Claimed(y)' => Claimed(y) /\ job'[y] = job[y]
    BY <1>4, <1>7 DEF Claimed
  <2>6. ActiveRows(x, "stripe")' = ActiveRows(x, "stripe")
    BY <1>15, <2>2, <2>4
  <2> QED
    BY <1>1, <1>9, <2>1, <2>3, <2>4, <2>5, <2>6
<1>17. AppliedExactlyOnce'
  <2>1. acked' \subseteq recorded'
    BY <1>1 DEF HookInv, AppliedExactlyOnce
  <2>2. ASSUME NEW f \in Event
        PROVE  /\ applied'[f] <= 1
               /\ applied'[f] = 1 => f \in recorded'
               /\ f \in recorded' \ missed /\ Attributable(sent[f]) => applied'[f] = 1
    <3>1. CASE f = e
      BY <1>1, <1>2, <1>8, <3>1 DEF Quiet
    <3>2. CASE f # e
      BY <1>1, <1>8, <3>2 DEF HookInv, AppliedExactlyOnce
    <3> QED
      BY <3>1, <3>2
  <2> QED
    BY <1>1, <2>1, <2>2 DEF AppliedExactlyOnce, Attributable
<1>18. LastEventDecides'
  <2> SUFFICES ASSUME NEW x \in User, x \notin disordered, NEW f \in Last(x)'
               PROVE  {active'[i] : i \in ActiveRows(x, "stripe")'} =
                         IF Access(sent[f]).grant
                         THEN {[user |-> x, source |-> "stripe",
                                expires |-> Access(sent[f]).expires]}
                         ELSE {}
    BY <1>1 DEF LastEventDecides
  <2>1. /\ f \in Event /\ applied'[f] > 0 /\ sent[f].user = x
        /\ \A g \in Event : applied'[g] > 0 /\ sent[g].user = x => g <= f
    BY <1>1 DEF Last
  <2>2. CASE x # u
    <3>1. f # e
      BY <1>9, <2>1, <2>2
    <3>2. f \in Last(x)
      BY <1>8, <1>9, <2>1, <2>2, <3>1 DEF Last
    <3>3. {active[i] : i \in ActiveRows(x, "stripe")} =
             IF Access(sent[f]).grant
             THEN {[user |-> x, source |-> "stripe", expires |-> Access(sent[f]).expires]}
             ELSE {}
      BY <3>2 DEF HookInv, LastEventDecides
    <3>4. {active'[i] : i \in ActiveRows(x, "stripe")'} =
             {active[i] : i \in ActiveRows(x, "stripe")}
      BY <1>15, <2>2
    <3> QED
      BY <3>3, <3>4
  <2>3. CASE x = u /\ Quiet
    <3>1. f \in Last(x)
      BY <1>1, <2>1, <2>3 DEF Last, Quiet
    <3>2. ActiveRows(x, "stripe")' = ActiveRows(x, "stripe") /\ active' = active
      BY <2>3 DEF ActiveRows, Quiet
    <3> QED
      BY <2>3, <3>1, <3>2 DEF HookInv, LastEventDecides
  <2>4. CASE x = u /\ Applies /\ applied'[e] = 1
    <3>1. applied'[e] > 0
      BY <2>4
    <3>2. e <= f
      BY <1>2, <1>9, <2>1, <2>4, <3>1
    <3>3. f = e
      <4> SUFFICES ASSUME f # e PROVE FALSE
        OBVIOUS
      <4>1. f \in recorded
        BY <1>8, <2>1 DEF HookInv, RecordInv
      <4>2. f < e
        BY <1>3, <1>9, <2>1, <2>4, <4>1
      <4> QED
        BY <1>2, <2>1, <3>2, <4>2 DEF Event
    <3> QED
      BY <2>4, <3>3 DEF Applies, Rows
  <2> QED
    BY <1>8, <2>2, <2>3, <2>4
<1> QED
  BY <1>10, <1>11, <1>12, <1>13, <1>14, <1>16, <1>17, <1>18 DEF HookInv

-----------------------------------------------------------------------------
(* Stripe, and the clock. *)

\* New events leave the earlier ones as they are.
LEMMA SentGrows ==
    ASSUME NEW s \in Seq(Payload), NEW n \in Seq(Payload)
    PROVE  /\ s \o n \in Seq(Payload) /\ Len(s) <= Len(s \o n) /\ Len(s) \in Nat
           /\ Len(s \o n) \in Nat /\ 1..Len(s) \subseteq 1..Len(s \o n)
           /\ \A i \in 1..Len(s) : (s \o n)[i] = s[i]
OBVIOUS

LEMMA NewEvents ==
    ASSUME HookInv, sub' \in [User -> Sub], \A u \in User : sub'[u].known = sub[u].known,
           NEW events \in Seq(Payload), Sends(events)
    PROVE  HookInv'
<1>1. UNCHANGED <<active, tx, clock, recorded, acked, job, applied, missed, disordered>>
  BY DEF Sends
<1>2. /\ sent' \in Seq(Payload) /\ 1..Len(sent) \subseteq 1..Len(sent')
      /\ \A i \in 1..Len(sent) : sent'[i] = sent[i]
  BY SentGrows DEF Sends, HookInv, TypeOK
<1>3. \A w \in Worker : job[w].at # "idle" =>
         job[w].event \in 1..Len(sent') /\ sent'[job[w].event] = sent[job[w].event]
  BY <1>2, JobEvents
<1>4. \A e \in Event : applied[e] > 0 \/ e \in recorded => sent'[e] = sent[e]
  BY <1>2, SentEvents
<1>5. \A e \in 1..Len(sent) : Attributable(sent[e])' <=> Attributable(sent[e])
  <2> TAKE e \in 1..Len(sent)
  <2>1. sent'[e] = sent[e] /\ sent[e] \in Payload
    BY <1>2 DEF HookInv, TypeOK
  <2>2. sent[e].user \in User
    BY <2>1 DEF Payload
  <2> QED
    BY <2>1, <2>2 DEF Attributable, NeedsLookup
<1>6. TypeOK'
  BY <1>1, <1>2 DEF HookInv, TypeOK, EntTypeOK
<1>7. JobInv'
  <2> SUFFICES ASSUME NEW w \in Worker
               PROVE  /\ JobOK(job[w], tx[w])'
                      /\ job[w].at = "commit" /\ tx[w].at = "none" =>
                            job[w].event \in missed \/ ~Attributable(sent[job[w].event])'
    BY <1>1 DEF JobInv
  <2>1. JobOK(job[w], tx[w]) /\ JobOK(job[w], tx[w])'
    BY <1>1, <1>2, <1>3 DEF HookInv, JobInv, JobOK
  <2>2. ASSUME job[w].at = "commit" PROVE job[w].event \in 1..Len(sent)
    BY <2>1, <2>2 DEF JobOK
  <2>3. job[w].at = "commit" => (Attributable(sent[job[w].event])' <=> Attributable(sent[job[w].event]))
    <3>1. \A e \in 1..Len(sent) : job[w].event = e => job'[w].event = e
      BY <1>1
    <3> QED
      BY <1>1, <1>5, <2>2, <3>1
  <2> QED
    BY <2>1, <2>3 DEF HookInv, JobInv
<1>8. ClaimInv' /\ TxInv' /\ RecordInv'
  BY <1>1, <1>2 DEF HookInv, ClaimInv, Claimed, TxInv, SeenOK, RecordInv
<1>9. OrderInv'
  <2> SUFFICES ASSUME NEW v \in Worker, Claimed(v), NEW f, f = job[v].event,
                      NEW x, x = sent'[f].user, x \notin disordered
               PROVE  /\ \A g \in recorded : sent'[g].user = x => g < f
                      /\ \A y \in Worker \ {v} : Claimed(y) => sent'[job[y].event].user # x
                      /\ tx[v].at # "none" => ActiveRows(x, "stripe") \subseteq tx[v].seen
    BY <1>1 DEF OrderInv, Claimed, ActiveRows
  <2>1. x = sent[f].user
    BY <1>3 DEF Claimed
  <2>2. \A g \in recorded : sent'[g] = sent[g]
    BY <1>2 DEF HookInv, RecordInv
  <2>3. \A y \in Worker : Claimed(y) => sent'[job[y].event] = sent[job[y].event]
    BY <1>3 DEF Claimed
  <2> QED
    BY <2>1, <2>2, <2>3, ClaimedFacts
<1>10. AppliedExactlyOnce'
  BY <1>1, <1>5, SentEvents DEF HookInv, AppliedExactlyOnce
<1>11. LastEventDecides'
  BY <1>1, <1>4 DEF HookInv, LastEventDecides, Last, ActiveRows
<1> QED
  BY <1>6, <1>7, <1>8, <1>9, <1>10, <1>11 DEF HookInv

LEMMA StripeStep ==
    ASSUME HookInv, NEW u \in User,
           \/ CheckoutPaid(u) \/ CancelAtPeriodEnd(u) \/ OtherEvent(u)
           \/ PeriodEnds(u) \/ PastDueEnds(u)
    PROVE  HookInv'
<1>1. sub[u] \in Sub /\ sub \in [User -> Sub] /\ clock \in Nat
  BY DEF HookInv, TypeOK, EntTypeOK
<1>2. /\ sub' \in [User -> Sub]
      /\ \A x \in User : sub'[x].known = sub[x].known
  <2>1. ASSUME NEW b \in Sub, b.known = sub[u].known, sub' = [sub EXCEPT ![u] = b]
        PROVE  sub' \in [User -> Sub] /\ \A x \in User : sub'[x].known = sub[x].known
    BY <1>1, <2>1
  <2>2. sub' = sub \/ \E b \in Sub : b.known = sub[u].known /\ sub' = [sub EXCEPT ![u] = b]
    <3>1. CASE CheckoutPaid(u)
      <4>1. [sub[u] EXCEPT !.status = "active", !.cancel = FALSE, !.end = clock + 1] \in Sub
        <5>1. clock + 1 \in Nat /\ "active" \in Status /\ FALSE \in BOOLEAN
          BY <1>1 DEF Status
        <5>2. [[sub[u] EXCEPT !.status = "active"] EXCEPT !.end = clock + 1] \in Sub
          BY <1>1, <5>1 DEF Sub
        <5> QED
          BY <1>1, <5>2 DEF Sub
      <4> QED
        BY <1>1, <3>1, <4>1 DEF CheckoutPaid, Sub
    <3>2. CASE CancelAtPeriodEnd(u)
      <4>1. [sub[u] EXCEPT !.cancel = TRUE] \in Sub
        BY <1>1 DEF Sub
      <4> QED
        BY <1>1, <3>2, <4>1 DEF CancelAtPeriodEnd, Sub
    <3>3. CASE PeriodEnds(u) \/ PastDueEnds(u)
      <4>1. /\ [sub[u] EXCEPT !.end = clock + 1] \in Sub
            /\ [sub[u] EXCEPT !.status = "past_due"] \in Sub
            /\ [sub[u] EXCEPT !.status = "unpaid"] \in Sub
            /\ [sub[u] EXCEPT !.status = "canceled"] \in Sub
        BY <1>1 DEF Sub, Status
      <4> QED
        BY <1>1, <3>3, <4>1 DEF PeriodEnds, PastDueEnds, Sub
    <3>4. CASE OtherEvent(u)
      BY <3>4 DEF OtherEvent
    <3> QED
      BY <3>1, <3>2, <3>3, <3>4
  <2> QED
    BY <1>1, <2>1, <2>2
<1>3. ASSUME NEW type \in {"checkout", "updated", "deleted", "other"}
      PROVE  Snapshot(type, u) \in Payload
  <2>1. sub'[u] \in Sub
    BY <1>2
  <2> QED
    BY <2>1 DEF Snapshot, Payload, Sub
<1>4. \E events \in Seq(Payload) : Sends(events)
  <2>1. \A p, q \in Payload : <<p>> \in Seq(Payload) /\ <<p, q>> \in Seq(Payload)
    OBVIOUS
  <2>2. \/ Sends(<<Snapshot("checkout", u), Snapshot("updated", u)>>)
        \/ \E type \in {"updated", "deleted", "other"} : Sends(<<Snapshot(type, u)>>)
    BY DEF CheckoutPaid, CancelAtPeriodEnd, OtherEvent, PeriodEnds, PastDueEnds
  <2> QED
    BY <1>3, <2>1, <2>2
<1> QED
  BY <1>2, <1>4, NewEvents

-----------------------------------------------------------------------------
(* The theorems. *)

\* HookInv is inductive.
LEMMA NextStep == HookInv /\ [Next]_vars => HookInv'
<1> SUFFICES ASSUME HookInv, [Next]_vars PROVE HookInv'
  OBVIOUS
<1>1. ASSUME NEW u \in User,
             \/ CheckoutPaid(u) \/ CancelAtPeriodEnd(u) \/ OtherEvent(u)
             \/ PeriodEnds(u) \/ PastDueEnds(u)
      PROVE  HookInv'
  BY <1>1, StripeStep
<1>2. ASSUME NEW w \in Worker, NEW e \in Event, Begin(w, e) PROVE HookInv'
  BY <1>2, BeginStep
<1>3. ASSUME NEW w \in Worker, Duplicate(w) \/ Abort(w) PROVE HookInv'
  BY <1>3, EndSteps
<1>4. ASSUME NEW w \in Worker, Claim(w) PROVE HookInv'
  BY <1>4, ClaimStep
<1>5. ASSUME NEW w \in Worker, Skip(w) \/ NotFound(w) PROVE HookInv'
  BY <1>5, SkipStep
<1>6. ASSUME NEW w \in Worker, ProcessStripeEvent(w) PROVE HookInv'
  BY <1>6, ProcessStep
<1>7. ASSUME NEW w \in Worker, Updated(w) PROVE HookInv'
  BY <1>7, UpdatedStep
<1>8. ASSUME NEW w \in Worker, NEW replied \in BOOLEAN, Commit(w, replied) PROVE HookInv'
  BY <1>8, CommitStep
\* Whatever depends on the clock is no part of the invariant.
<1>9. CASE Tick \/ UNCHANGED vars
  <2>1. /\ clock' \in Nat
        /\ UNCHANGED <<active, tx, sub, sent, recorded, acked, job, applied, missed, disordered>>
    BY <1>9 DEF Tick, vars, HookInv, TypeOK, EntTypeOK
  <2>2. TypeOK'
    BY <2>1 DEF HookInv, TypeOK, EntTypeOK
  <2>3. JobInv' /\ ClaimInv' /\ RecordInv'
    BY <2>1 DEF HookInv, JobInv, JobOK, Attributable, ClaimInv, Claimed, RecordInv
  <2>4. TxInv' /\ OrderInv'
    BY <2>1 DEF HookInv, TxInv, SeenOK, OrderInv, Claimed, ActiveRows
  <2>5. AppliedExactlyOnce' /\ LastEventDecides'
    BY <2>1 DEF HookInv, AppliedExactlyOnce, Attributable, LastEventDecides, Last, ActiveRows
  <2> QED
    BY <2>2, <2>3, <2>4, <2>5 DEF HookInv
<1> QED
  BY <1>1, <1>2, <1>3, <1>4, <1>5, <1>6, <1>7, <1>8, <1>9 DEF Next

LEMMA Hooks == Spec => []HookInv
BY HookInit, NextStep, PTL DEF Spec

\* Nobody begins without a connection of the pool.
PoolInv == IsFiniteSet(InFlight) /\ Cardinality(InFlight) <= MaxOpenConns

LEMMA Pool == Spec => []PoolInv
<1>1. Init => PoolInv
  <2> SUFFICES ASSUME Init PROVE PoolInv
    OBVIOUS
  <2>1. InFlight = {}
    BY DEF Init, InFlight, Idle
  <2> QED
    BY <2>1, FS_EmptySet, StripeAssumption DEF PoolInv
<1>2. HookInv /\ PoolInv /\ [Next]_vars => PoolInv'
  <2> SUFFICES ASSUME HookInv, PoolInv, [Next]_vars PROVE PoolInv'
    OBVIOUS
  <2>1. IsFiniteSet(InFlight) /\ Cardinality(InFlight) \in Nat /\ Cardinality(InFlight) <= MaxOpenConns
    BY FS_CardinalityType DEF PoolInv
  <2>2. ASSUME InFlight' \subseteq InFlight PROVE PoolInv'
    BY <2>1, <2>2, FS_Subset, FS_CardinalityType, StripeAssumption DEF PoolInv
  <2>3. ASSUME NEW w \in Worker, NEW e \in Event, Begin(w, e) PROVE PoolInv'
    <3>1. InFlight' \subseteq InFlight \cup {w} /\ Cardinality(InFlight) < MaxOpenConns
      BY <2>3 DEF Begin, InFlight, FreeConnection, HookInv, TypeOK
    <3>2. /\ IsFiniteSet(InFlight \cup {w})
          /\ Cardinality(InFlight \cup {w}) <= Cardinality(InFlight) + 1
          /\ Cardinality(InFlight \cup {w}) \in Nat
      <4>1. w \notin InFlight
        BY <2>3 DEF Begin, InFlight
      <4> QED
        BY <2>1, <4>1, FS_AddElement
    <3>3. IsFiniteSet(InFlight') /\ Cardinality(InFlight') <= Cardinality(InFlight \cup {w})
          /\ Cardinality(InFlight') \in Nat
      BY <3>1, <3>2, FS_Subset, FS_CardinalityType
    <3> QED
      BY <2>1, <3>1, <3>2, <3>3, StripeAssumption DEF PoolInv
  <2>4. ASSUME NEW w \in Worker, job[w].at # "idle",
               \E j : job' = [job EXCEPT ![w] = j]
        PROVE  InFlight' \subseteq InFlight
    BY <2>4 DEF InFlight, HookInv, TypeOK
  <2>5. ASSUME UNCHANGED job PROVE InFlight' \subseteq InFlight
    BY <2>5 DEF InFlight
  <2>6. ASSUME NEW u \in User,
               \/ CheckoutPaid(u) \/ CancelAtPeriodEnd(u) \/ OtherEvent(u)
               \/ PeriodEnds(u) \/ PastDueEnds(u)
        PROVE  UNCHANGED job
    BY <2>6 DEF CheckoutPaid, CancelAtPeriodEnd, OtherEvent, PeriodEnds, PastDueEnds, Sends
  <2>7. ASSUME NEW w \in Worker,
               \/ Duplicate(w) \/ Claim(w) \/ Skip(w) \/ NotFound(w) \/ ProcessStripeEvent(w)
               \/ Updated(w) \/ (\E replied \in BOOLEAN : Commit(w, replied)) \/ Abort(w)
        PROVE  job[w].at # "idle" /\ \E j : job' = [job EXCEPT ![w] = j]
    BY <2>7 DEF Duplicate, Claim, Claims, Skip, NotFound, ProcessStripeEvent, Updated, Commit, Abort
  <2>8. ASSUME Tick \/ UNCHANGED vars PROVE UNCHANGED job
    BY <2>8 DEF Tick, vars
  <2> QED
    BY <2>2, <2>3, <2>4, <2>5, <2>6, <2>7, <2>8 DEF Next
<1> QED
  BY <1>1, <1>2, Hooks, PTL DEF Spec

\* Who waits for rows waits for a request that is about to commit, and that one
\* waits for nothing.
LEMMA RowsAreHeld ==
    ASSUME HookInv, NEW w \in Worker, ForRows(w)
    PROVE  \E v \in InFlight : job[v].at = "commit" /\ ~Waits(v)
<1>1. PICK v \in Worker \ {w} : tx[v].locked \cap tx[w].seen # {}
  BY DEF ForRows
<1>2. tx[v].at # "none" /\ tx[v].locked # {}
  BY <1>1, JobShape DEF HookInv, NoTx
<1>3. job[v].at = "commit"
  BY <1>2, JobShape DEF HookInv, JobInv, JobOK, Job
<1> QED
  BY <1>3 DEF InFlight, Waits, ForDelivery, ForConnection, ForRows

LEMMA PoolAlone == HookInv /\ PoolInv => WaitingEndsAtPool
<1> SUFFICES ASSUME HookInv, PoolInv, NEW z \in InFlight, \A w \in InFlight : Waits(w)
             PROVE  /\ Cardinality(InFlight) = MaxOpenConns
                    /\ \E w \in InFlight : ForConnection(w)
  BY DEF WaitingEndsAtPool
<1>1. \A w \in InFlight : ForDelivery(w) \/ ForConnection(w)
  BY RowsAreHeld DEF Waits, InFlight
<1>2. \E w \in InFlight : ForConnection(w)
  <2>1. CASE ForDelivery(z)
    <3>1. PICK v \in Worker : Claimed(v) /\ job[v].event = job[z].event
      BY <2>1 DEF ForDelivery
    <3>2. v \in InFlight /\ ~ForDelivery(v)
      BY <3>1 DEF InFlight, Claimed, ForDelivery
    <3> QED
      BY <1>1, <3>2
  <2> QED
    BY <1>1, <2>1
<1>3. ~(Cardinality(InFlight) < MaxOpenConns)
  BY <1>2 DEF ForConnection, FreeConnection, InFlight
<1>4. Cardinality(InFlight) \in Nat /\ Cardinality(InFlight) <= MaxOpenConns
  BY FS_CardinalityType DEF PoolInv
<1> QED
  BY <1>2, <1>3, <1>4, StripeAssumption

\* Every variable keeps its type, for any numbers of events and deliveries.
THEOREM TypeCorrect == Spec => []TypeOK
<1>1. HookInv => TypeOK
  BY DEF HookInv
<1> QED
  BY <1>1, Hooks, PTL

\* However often an event is delivered, retried or delivered twice at once, it
\* changes entitlements exactly once, and Stripe stops sending it no earlier.
THEOREM ExactlyOnce == Spec => []AppliedExactlyOnce
<1>1. HookInv => AppliedExactlyOnce
  BY DEF HookInv
<1> QED
  BY <1>1, Hooks, PTL

\* While a user's events come in order and one at a time, the user's Stripe rows
\* are exactly what the last applied event says, whatever happens to others.
THEOREM LastEvent == Spec => []LastEventDecides
<1>1. HookInv => LastEventDecides
  BY DEF HookInv
<1> QED
  BY <1>1, Hooks, PTL

\* Requests that wait for deliveries, rows and connections never wait for each
\* other in a circle, however many there are: all are stuck only when the pool
\* is used up and one of them needs a second connection of it.
THEOREM WaitingEnds == Spec => []WaitingEndsAtPool
BY PoolAlone, Pool, Hooks, PTL
=============================================================================
