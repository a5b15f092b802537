--------------------------- MODULE StripeWebhook ---------------------------
(***************************************************************************)
(* Pro bought on the web: Stripe's subscriptions (external), the events it *)
(* sends about them in any order and any number of times, and the webhook  *)
(* handler that turns each of them into entitlement rows.                  *)
(***************************************************************************)
EXTENDS Entitlement, Sequences

CONSTANTS MaxOpenConns, \* size of the database connection pool
          MaxEvents,    \* bound: events Stripe creates
          MaxClock      \* bound: the last instant considered

ASSUME StripeAssumption ==
    /\ MaxOpenConns \in Nat \ {0}
    /\ MaxEvents \in Nat /\ MaxClock \in Nat /\ "stripe" \in Source

VARIABLES sub,         \* sub[u]: u's subscription at Stripe
          sent,        \* the events Stripe created, in order; an event's id is its index
          recorded,    \* committed rows of stripe_webhook_events
          acked,       \* events Stripe got a 200 for
          job,         \* job[w]: what request w is doing
          applied,     \* history: applied[e] transactions changed entitlements for e
          missed,      \* history: events whose customer lookup failed
          disordered   \* history: users whose events overlapped or came late

vars == <<active, tx, clock, sub, sent, recorded, acked, job, applied, missed, disordered>>

-----------------------------------------------------------------------------
Event == 1..MaxEvents
Status == {"none", "active", "past_due", "unpaid", "canceled"}

\* tagged: made by this server's checkout, which puts user_id, plan and source
\* into the metadata of the session and of the subscription.  known: its
\* customer is the user's in stripe_customers.  shown: payloads carry
\* current_period_end.
Sub == [status : Status, cancel : BOOLEAN, end : Nat,
        tagged : BOOLEAN, known : BOOLEAN, shown : BOOLEAN]

\* checkout.session.completed, customer.subscription.created or updated,
\* customer.subscription.deleted, or a type the handler does not support.
\* end is current_period_end and cancelAt is cancel_at, 0 when not there.
Payload == [type : {"checkout", "updated", "deleted", "other"}, user : User,
            status : Status, cancel : BOOLEAN, end : Nat, cancelAt : Nat, tagged : BOOLEAN]

\* at "begun": the transaction is open; "claimed": its idempotency row is in;
\* "update": the UPDATE is running; "commit": the event has been processed.
Job == [at : {"idle", "begun", "claimed", "update", "commit"}, event : Event \cup {0}]
Idle == [at |-> "idle", event |-> 0]

TypeOK ==
    /\ EntTypeOK
    /\ sub \in [User -> Sub]
    /\ sent \in Seq(Payload)
    /\ recorded \subseteq Event /\ acked \subseteq Event
    /\ job \in [Worker -> Job]
    /\ applied \in [Event -> Nat]
    /\ missed \subseteq Event /\ disordered \subseteq User

Init ==
    /\ EntInit
    /\ sub \in [User -> [status : {"none"}, cancel : {FALSE}, end : {0},
                         tagged : BOOLEAN, known : BOOLEAN, shown : BOOLEAN]]
    /\ \A u \in User : sub[u].tagged => sub[u].known
    /\ sent = <<>>
    /\ recorded = {} /\ acked = {}
    /\ job = [w \in Worker |-> Idle]
    /\ applied = [e \in Event |-> 0]
    /\ missed = {} /\ disordered = {}

-----------------------------------------------------------------------------
(* Stripe (external).  Every change of a subscription creates an event with *)
(* a snapshot of it; a completed checkout creates two.                      *)

Snapshot(type, u) ==
    LET b == sub'[u] IN
    [type |-> type, user |-> u, status |-> b.status, cancel |-> b.cancel, tagged |-> b.tagged,
     end |-> IF b.shown THEN b.end ELSE 0, cancelAt |-> IF b.cancel THEN b.end ELSE 0]

Sends(events) ==
    /\ Len(sent) + Len(events) <= MaxEvents
    /\ sent' = sent \o events
    /\ UNCHANGED <<active, tx, clock, recorded, acked, job, applied, missed, disordered>>

CheckoutPaid(u) ==
    /\ sub[u].status \in {"none", "canceled"}
    /\ sub' = [sub EXCEPT ![u] = [@ EXCEPT !.status = "active", !.cancel = FALSE,
                                          !.end = clock + 1]]
    /\ Sends(<<Snapshot("checkout", u), Snapshot("updated", u)>>)

CancelAtPeriodEnd(u) ==
    /\ sub[u].status = "active" /\ ~sub[u].cancel
    /\ sub' = [sub EXCEPT ![u].cancel = TRUE]
    /\ Sends(<<Snapshot("updated", u)>>)

\* The period ends: a renewal, a failed payment, or the cancellation.
PeriodEnds(u) ==
    /\ sub[u].status = "active" /\ clock >= sub[u].end
    /\ \/ /\ ~sub[u].cancel
          /\ \/ sub' = [sub EXCEPT ![u].end = clock + 1]
             \/ sub' = [sub EXCEPT ![u].status = "past_due"]
          /\ Sends(<<Snapshot("updated", u)>>)
       \/ /\ sub[u].cancel
          /\ sub' = [sub EXCEPT ![u].status = "canceled"]
          /\ Sends(<<Snapshot("deleted", u)>>)

\* Stripe gives up on a failed payment: the subscription is left unpaid, or ended.
PastDueEnds(u) ==
    /\ sub[u].status \in {"past_due", "unpaid"}
    /\ \/ /\ sub[u].status = "past_due"
          /\ sub' = [sub EXCEPT ![u].status = "unpaid"]
          /\ Sends(<<Snapshot("updated", u)>>)
       \/ /\ sub' = [sub EXCEPT ![u].status = "canceled"]
          /\ Sends(<<Snapshot("deleted", u)>>)

\* An invoice, a charge, ...
OtherEvent(u) ==
    /\ sub[u].status = "active"
    /\ UNCHANGED sub
    /\ Sends(<<Snapshot("other", u)>>)

-----------------------------------------------------------------------------
(* The webhook handler. *)

StripeSubscriptionPeriodEnd(p) ==
    IF p.end = 0 /\ p.cancel THEN p.cancelAt ELSE p.end

\* Mutant: a safety margin of two is taken off the period end.
SubscriptionProAccessEarly(p) ==
    [grant |-> p.status \in {"active", "past_due"},
     expires |-> StripeSubscriptionPeriodEnd(p) - 2]

\* Without a period end, and while a payment is past due, access has no expiry.
SubscriptionProAccess(p) ==
    [grant |-> p.status \in {"active", "past_due"},
     expires |-> IF p.status = "active" /\ StripeSubscriptionPeriodEnd(p) > 0
                 THEN StripeSubscriptionPeriodEnd(p) ELSE NoExpiry]

\* checkout.session.completed grants without an expiry, and
\* customer.subscription.deleted revokes whatever its snapshot says.
Access(p) ==
    IF p.type = "checkout" THEN [grant |-> TRUE, expires |-> NoExpiry]
    ELSE IF p.type = "deleted" THEN [grant |-> FALSE, expires |-> NoExpiry]
    ELSE SubscriptionProAccess(p)

SameUser(e) == {f \in 1..Len(sent) : sent[f].user = sent[e].user}
Claimed(w) == job[w].at \notin {"idle", "begun"}
Late(e) == \/ \E f \in recorded \cap SameUser(e) : f > e
           \/ \E w \in Worker : Claimed(w) /\ job[w].event \in SameUser(e)

\* An open transaction keeps its connection; a request that wants one more
\* waits until one is free.
FreeConnection == Cardinality({w \in Worker : job[w].at # "idle"}) < MaxOpenConns

\* BeginTx for a delivery of e: the first, or any later one.
Begin(w, e) ==
    /\ job[w].at = "idle" /\ e \in 1..Len(sent)
    /\ FreeConnection
    /\ job' = [job EXCEPT ![w] = [at |-> "begun", event |-> e]]
    /\ UNCHANGED <<active, tx, clock, sub, sent, recorded, acked, applied, missed, disordered>>

\* INSERT INTO stripe_webhook_events ... ON CONFLICT DO NOTHING waits for an
\* uncommitted row with the same id; a committed one is a duplicate: 200.
Duplicate(w) ==
    LET e == job[w].event IN
    /\ job[w].at = "begun" /\ e \in recorded
    /\ acked' = acked \cup {e}
    /\ job' = [job EXCEPT ![w] = Idle]
    /\ UNCHANGED <<active, tx, clock, sub, sent, recorded, applied, missed, disordered>>

Claims(w) ==
    LET e == job[w].event IN
    /\ job[w].at = "begun" /\ e \notin recorded
    /\ job' = [job EXCEPT ![w].at = "claimed"]
    /\ disordered' = IF Late(e) THEN disordered \cup {sent[e].user} ELSE disordered
    /\ UNCHANGED <<active, tx, clock, sub, sent, acked, applied, missed>>

\* Mutant: the idempotency row is inserted outside of the transaction.
ClaimOutside(w) == Claims(w) /\ recorded' = recorded \cup {job[w].event}

Claim(w) ==
    /\ Claims(w)
    /\ \A v \in Worker : Claimed(v) => job[v].event # job[w].event
    /\ UNCHANGED recorded

\* An event that is none of the handler's business: another type, a checkout of
\* another product.
Skip(w) ==
    /\ job[w].at = "claimed"
    /\ LET p == sent[job[w].event] IN p.type = "other" \/ (p.type = "checkout" /\ ~p.tagged)
    /\ job' = [job EXCEPT ![w].at = "commit"]
    /\ UNCHANGED <<active, tx, clock, sub, sent, recorded, acked, applied, missed, disordered>>

\* A subscription without user_id belongs to the user on record for its
\* customer, whom UserIDFromStripeCustomer looks up on another connection.
NeedsLookup(p) == p.type \in {"updated", "deleted"} /\ ~p.tagged

\* No customer found: the event is skipped.  An error counts as that too.
NotFound(w) ==
    LET e == job[w].event IN
    /\ job[w].at = "claimed" /\ NeedsLookup(sent[e])
    /\ FreeConnection
    /\ \/ ~sub[sent[e].user].known /\ UNCHANGED missed
       \/ missed' = missed \cup {e}
    /\ job' = [job EXCEPT ![w].at = "commit"]
    /\ UNCHANGED <<active, tx, clock, sub, sent, recorded, acked, applied, disordered>>

\* Mutant: the statements run on the pool instead of the transaction.
ProcessStripeEventOnPool(w) ==
    LET p == sent[job[w].event] IN
    /\ job[w].at = "claimed" /\ FreeConnection
    /\ p.type # "other" /\ (p.tagged \/ (NeedsLookup(p) /\ sub[p.user].known))
    /\ RevokeActive(w, p.user, "stripe")
    /\ job' = [job EXCEPT ![w].at = "update"]
    /\ UNCHANGED <<active, clock, sub, sent, recorded, acked, applied, missed, disordered>>

\* ProcessStripeEvent once the user is known: the UPDATE that UpsertStripePro
\* and RevokeStripePro begin with.
ProcessStripeEvent(w) ==
    LET p == sent[job[w].event] IN
    /\ job[w].at = "claimed"
    /\ \/ p.type # "other" /\ p.tagged
       \/ NeedsLookup(p) /\ FreeConnection /\ sub[p.user].known
    /\ RevokeActive(w, p.user, "stripe")
    /\ job' = [job EXCEPT ![w].at = "update"]
    /\ UNCHANGED <<active, clock, sub, sent, recorded, acked, applied, missed, disordered>>

\* Mutant: the UPDATE leaves rows alone that have expired already.
UpdatedUnexpired(w) ==
    /\ job[w].at = "update"
    /\ \A v \in Worker \ {w} : tx[v].locked \cap tx[w].seen = {}
    /\ tx' = [tx EXCEPT ![w].at = "updated",
                       ![w].locked = {i \in tx[w].seen : active[i] # NoRow /\ Unexpired(i)}]
    /\ job' = [job EXCEPT ![w].at = "commit"]
    /\ UNCHANGED <<active, clock, sub, sent, recorded, acked, applied, missed, disordered>>

\* The UPDATE got its row locks.
Updated(w) ==
    /\ job[w].at = "update"
    /\ LockRows(w)
    /\ job' = [job EXCEPT ![w].at = "commit"]
    /\ UNCHANGED <<active, clock, sub, sent, recorded, acked, applied, missed, disordered>>

\* The INSERT of a grant, and Commit.  replied: the 200 reaches Stripe; it does
\* not when Commit reports an error after all, or the reply is lost.
Commit(w, replied) ==
    LET e == job[w].event IN
    /\ job[w].at = "commit"
    /\ IF tx[w].at = "none" THEN UNCHANGED <<active, tx, applied>>
       ELSE /\ IF Access(sent[e]).grant THEN CommitGrant(w, Access(sent[e]).expires)
                                        ELSE CommitRevoke(w)
            /\ applied' = [applied EXCEPT ![e] = @ + 1]
    /\ recorded' = recorded \cup {e}
    /\ acked' = IF replied THEN acked \cup {e} ELSE acked
    /\ job' = [job EXCEPT ![w] = Idle]
    /\ UNCHANGED <<clock, sub, sent, missed, disordered>>

\* An error, a cancelled request or a crash before the Commit: everything,
\* the idempotency row included, rolls back, and Stripe will send it again.
Abort(w) ==
    /\ job[w].at # "idle"
    /\ EndTx(w)
    /\ job' = [job EXCEPT ![w] = Idle]
    /\ UNCHANGED <<active, clock, sub, sent, recorded, acked, applied, missed, disordered>>

Tick ==
    /\ clock < MaxClock
    /\ clock' = clock + 1
    /\ UNCHANGED <<active, tx, sub, sent, recorded, acked, job, applied, missed, disordered>>

Next ==
    \/ \E u \in User : \/ CheckoutPaid(u) \/ CancelAtPeriodEnd(u) \/ OtherEvent(u)
                       \/ PeriodEnds(u) \/ PastDueEnds(u)
    \/ \E w \in Worker : \/ \E e \in Event : Begin(w, e)
                         \/ Duplicate(w) \/ Claim(w)
                         \/ Skip(w) \/ NotFound(w) \/ ProcessStripeEvent(w)
                         \/ Updated(w)
                         \/ \E replied \in BOOLEAN : Commit(w, replied)
                         \/ Abort(w)
    \/ Tick

Spec == Init /\ [][Next]_vars

-----------------------------------------------------------------------------
(* Properties *)

\* However often an event is redelivered, retried after a failure or delivered
\* twice at once: Stripe stops sending it only once it is on record, and it
\* changes entitlements at most once, only if it is on record (the idempotency
\* INSERT shares the transaction of the change).  On record it has changed them,
\* if its user could be told; the one exception is a customer lookup that failed,
\* which loses the event for good.
Attributable(p) == p.type # "other" /\ (p.tagged \/ (NeedsLookup(p) /\ sub[p.user].known))
AppliedExactlyOnce ==
    /\ acked \subseteq recorded
    /\ \A e \in Event :
        /\ applied[e] <= 1
        /\ applied[e] = 1 => e \in recorded
        /\ e \in recorded \ missed /\ Attributable(sent[e]) => applied[e] = 1

\* What a request can wait for: the transaction that has its event, a second
\* connection, or rows.
ForDelivery(w) ==
    /\ job[w].at = "begun" /\ job[w].event \notin recorded
    /\ \E v \in Worker : Claimed(v) /\ job[v].event = job[w].event
ForConnection(w) ==
    job[w].at = "claimed" /\ NeedsLookup(sent[job[w].event]) /\ ~FreeConnection
ForRows(w) ==
    job[w].at = "update" /\ \E v \in Worker \ {w} : tx[v].locked \cap tx[w].seen # {}
Waits(w) == ForDelivery(w) \/ ForConnection(w) \/ ForRows(w)
Proceeds(w) == \/ Duplicate(w) \/ Claim(w) \/ Skip(w) \/ NotFound(w)
               \/ ProcessStripeEvent(w) \/ Updated(w) \/ Commit(w, TRUE)
InFlight == {w \in Worker : job[w].at # "idle"}

\* A request in flight that waits for none of these has a step to take.
OthersProceed == \A w \in InFlight : Waits(w) \/ ENABLED Proceeds(w)

\* However they wait for each other, requests in flight can all be stuck at once
\* in one way only: every connection of the pool is held, and one of the holders
\* needs a second one to look its customer up.  Then nothing but a cancelled
\* request gives a connection back.
WaitingEndsAtPool ==
    InFlight # {} /\ (\A w \in InFlight : Waits(w)) =>
        /\ Cardinality(InFlight) = MaxOpenConns
        /\ \E w \in InFlight : ForConnection(w)

\* Requests are stuck on each other only where the pool has no connection left.
StuckOnlyOnPool == OthersProceed /\ WaitingEndsAtPool

\* As long as a user's events come one at a time and in order, with whatever
\* repetitions, failures and gaps, the user's rows are what the last applied
\* event says: one row with its expiry, or none.
Last(u) == {e \in Event : /\ applied[e] > 0 /\ sent[e].user = u
                         /\ \A f \in Event : applied[f] > 0 /\ sent[f].user = u => f <= e}
LastEventDecides ==
    \A u \in User \ disordered : \A e \in Last(u) :
        LET rows == {active[i] : i \in ActiveRows(u, "stripe")} IN
        rows = IF Access(sent[e]).grant
               THEN {[user |-> u, source |-> "stripe", expires |-> Access(sent[e]).expires]}
               ELSE {}

\* webhook_process.go:181-182: "we grant Pro until that moment (expires_at),
\* then the next webhook (or period expiry) revokes".  Once Stripe ended the
\* subscription and every event about it was processed, no Stripe row gives
\* access.  The run stripe_late_event shows an order in which one does.
EndedMeansRevoked ==
    \A u \in User :
        sub[u].status = "canceled" /\ sub[u].tagged /\ recorded = 1..Len(sent)
            => \A i \in ActiveRows(u, "stripe") : ~Unexpired(i)
=============================================================================
