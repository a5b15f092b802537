------------------------------ MODULE AppleIAP ------------------------------
(***************************************************************************)
(* Pro bought in the App Store: Apple's subscriptions and notifications    *)
(* (external), POST /iap/apple/validate, which asks Apple and then writes,  *)
(* the notification webhook, and its self-healing of purchases the app      *)
(* never reported.                                                         *)
(*                                                                         *)
(* A transaction that writes locks, until it ends, the subscription row of  *)
(* its lineage; a validation locks the row of the product before that.     *)
(***************************************************************************)
EXTENDS Entitlement, Sequences

CONSTANTS Line,        \* subscription lineages: original transaction ids
          MaxNotes,    \* bound: notifications Apple creates
          MaxClock,    \* bound: the last instant considered
          OtherType,   \* notification types besides purchase, refund and expiry
          Token,       \* the appAccountTokens purchases are made with
          NoUser,      \* a purchase without appAccountToken
          NoSub        \* apple_iap_subscriptions has no row

ASSUME AppleAssumption ==
    /\ MaxNotes \in Nat /\ MaxClock \in Nat /\ "apple_iap" \in Source
    /\ NoUser \notin User /\ Token \subseteq User \cup {NoUser}
    /\ OtherType \subseteq {"DID_FAIL_TO_RENEW", "GRACE_PERIOD", "GRACE_PERIOD_EXPIRED", "TEST"}

VARIABLES apple,       \* apple[l]: the lineage at Apple
          sent,        \* notifications, in the order Apple created them
          subs,        \* subs[l]: the committed apple_iap_subscriptions row
          recorded,    \* committed apple_iap_events rows
          job,         \* job[w]: what request w is doing
          applied,     \* history: applied[n] transactions wrote for notification n
          linked,      \* history: linked[u] lineages that were written for u
          crossed,     \* history: lineages whose last writer was a notification
                       \* that wrote for a user the lineage had left
          overtaken,   \* history: notifications whose request found no row of
                       \* the lineage, is open, and has been overtaken by a
                       \* validation that wrote it
          lost         \* history: notifications whose self-healing broke off,
                       \* of lineages without a row since

vars == <<active, tx, clock, apple, sent, subs, recorded, job, applied, linked, crossed,
          overtaken, lost>>

-----------------------------------------------------------------------------
Note == 1..MaxNotes
SubStatus == {"active", "expired", "revoked", "grace_period", "billing_retry"}
Sub == [user : User, status : SubStatus, expires : Nat]
ASSUME NoSubAssumption == NoSub \notin Sub

\* periods: the expiresDate of each transaction of the lineage.
Lineage == [periods : SUBSET Nat, revoked : BOOLEAN, token : User \cup {NoUser}]

\* One name stands for all that deriveAppleSubscriptionState treats alike;
\* TEST: a notification without transaction info.
NoteType == {"SUBSCRIBED", "REFUND", "EXPIRED"} \cup OtherType
Notification == [type : NoteType, line : Line, expires : Nat, revoked : BOOLEAN]

\* at "unlinked", "noted": the webhook looked for the subscription row, and found
\* none or one; "heal": it has committed and is about to self-heal; "fetched":
\* Apple answered a validation; "update", "commit": as in StripeWebhook, with the
\* rows locked.  note is the notification the open transaction is about, heals
\* the one, already on record, that this validation makes up for.
Job == [at : {"unlinked", "heal", "fetched", "noted", "update", "commit"},
        note : Note \cup {0}, heals : Note \cup {0}, line : Line,
        user : User \cup {NoUser}, status : SubStatus, expires : Nat]
Idle == [at |-> "idle", note |-> 0, heals |-> 0]

TypeOK ==
    /\ EntTypeOK
    /\ apple \in [Line -> Lineage]
    /\ sent \in Seq(Notification)
    /\ subs \in [Line -> Sub \cup {NoSub}]
    /\ recorded \subseteq Note
    /\ job \in [Worker -> Job \cup {Idle}]
    /\ applied \in [Note -> Nat]
    /\ linked \in [User -> SUBSET Line]
    /\ crossed \subseteq Line
    /\ overtaken \subseteq Note /\ lost \subseteq Note

Init ==
    /\ EntInit
    /\ apple \in [Line -> [periods : {{}}, revoked : {FALSE}, token : Token]]
    /\ sent = <<>>
    /\ subs = [l \in Line |-> NoSub]
    /\ recorded = {}
    /\ job = [w \in Worker |-> Idle]
    /\ applied = [n \in Note |-> 0]
    /\ linked = [u \in User |-> {}]
    /\ crossed = {} /\ overtaken = {} /\ lost = {}

-----------------------------------------------------------------------------
(* Apple (external) *)

Bought(l) == apple[l].periods # {}
Latest(l) == CHOOSE x \in apple'[l].periods : \A y \in apple'[l].periods : y <= x

Sends(l, type) ==
    /\ Len(sent) < MaxNotes
    /\ sent' = Append(sent, [type |-> type, line |-> l, expires |-> Latest(l),
                             revoked |-> apple'[l].revoked])
    /\ UNCHANGED <<active, tx, clock, subs, recorded, job, applied, linked, crossed,
                   overtaken, lost>>

\* The first purchase, and every renewal.
Pays(l) ==
    /\ ~apple[l].revoked /\ \A x \in apple[l].periods : x <= clock
    /\ apple' = [apple EXCEPT ![l].periods = @ \cup {clock + 1}]
    /\ Sends(l, "SUBSCRIBED")

Refunds(l) ==
    /\ Bought(l) /\ ~apple[l].revoked
    /\ apple' = [apple EXCEPT ![l].revoked = TRUE]
    /\ Sends(l, "REFUND")

Expires(l) ==
    /\ Bought(l) /\ \A x \in apple[l].periods : x <= clock
    /\ UNCHANGED apple
    /\ Sends(l, "EXPIRED")

OtherNote(l, type) ==
    /\ Bought(l)
    /\ UNCHANGED apple
    /\ Sends(l, type)

-----------------------------------------------------------------------------
Grants(status) == status \in {"active", "grace_period", "billing_retry"}

\* The subscription row of l is locked by another request's transaction.
LineLocked(w, l) ==
    \E v \in Worker \ {w} : job[v].at \in {"update", "commit"} /\ job[v].line = l

\* EnsureProductMapping's row is: only validations, which have no note, lock it.
ProductLocked(w) ==
    \E v \in Worker \ {w} : job[v].at \in {"update", "commit"} /\ job[v].note = 0

(* ValidateTransaction, for user u who presents a transaction of lineage l. *)

\* What Apple answers: the presented transaction, or with GetSubscription-
\* Statuses the newest one, as it is now; status is computed from it at once.
\* n is the notification that is healed by it, or 0.
Fetched(u, l, x, n) ==
    LET revoked == apple[l].revoked /\ \A y \in apple[l].periods : y <= x IN
    [at |-> "fetched", note |-> 0, heals |-> n, line |-> l, user |-> u, expires |-> x,
     status |-> IF revoked THEN "revoked" ELSE IF x <= clock THEN "expired" ELSE "active"]

ValidateTransaction(w, u, l) ==
    /\ job[w].at = "idle" /\ Bought(l)
    /\ \E x \in apple[l].periods : job' = [job EXCEPT ![w] = Fetched(u, l, x, 0)]
    /\ UNCHANGED <<active, tx, clock, apple, sent, subs, recorded, applied, linked, crossed,
                   overtaken, lost>>

\* EnsureProductMapping, UpsertSubscription (both wait for their row lock) and
\* the UPDATE that UpsertAppleIAPPro and RevokeAppleIAPPro begin with.
ValidateWrites(w) ==
    LET j == job[w] IN
    /\ j.at = "fetched"
    /\ ~ProductLocked(w) /\ ~LineLocked(w, j.line)
    /\ RevokeActive(w, j.user, "apple_iap")
    /\ job' = [job EXCEPT ![w].at = "update"]
    /\ UNCHANGED <<active, clock, apple, sent, subs, recorded, applied, linked, crossed,
                   overtaken, lost>>

\* Mutant: the UPDATE matches no row.
UpdatedNothing(w) ==
    /\ job[w].at = "update"
    /\ tx' = [tx EXCEPT ![w].at = "updated"]
    /\ job' = [job EXCEPT ![w].at = "commit"]
    /\ UNCHANGED <<active, clock, apple, sent, subs, recorded, applied, linked, crossed,
                   overtaken, lost>>

Updated(w) ==
    /\ job[w].at = "update"
    /\ LockRows(w)
    /\ job' = [job EXCEPT ![w].at = "commit"]
    /\ UNCHANGED <<active, clock, apple, sent, subs, recorded, applied, linked, crossed,
                   overtaken, lost>>

ValidateCommits(w) ==
    LET j == job[w] IN
    /\ j.at = "commit" /\ j.note = 0 /\ j.status = "active"
    /\ CommitGrant(w, j.expires)
    /\ subs' = [subs EXCEPT ![j.line] = [user |-> j.user, status |-> "active",
                                         expires |-> j.expires]]
    /\ linked' = [linked EXCEPT ![j.user] = @ \cup {j.line}]
    /\ crossed' = crossed \ {j.line}
    /\ overtaken' = overtaken \cup {job[v].note : v \in {v \in Worker :
                        job[v].at = "unlinked" /\ job[v].line = j.line}}
    /\ job' = [job EXCEPT ![w] = Idle]
    /\ lost' = {n \in lost : sent[n].line # j.line}
    /\ UNCHANGED <<clock, apple, sent, recorded, applied>>

\* Expired or revoked: the function returns ErrNotEntitled before Commit, so
\* the deferred Rollback undoes the subscription row and the revocation.
ValidateNotEntitled(w) ==
    LET j == job[w] IN
    /\ j.at = "commit" /\ j.note = 0 /\ j.status # "active"
    /\ EndTx(w)
    /\ job' = [job EXCEPT ![w] = Idle]
    /\ UNCHANGED <<active, clock, apple, sent, subs, recorded, applied, linked, crossed,
                   overtaken, lost>>

-----------------------------------------------------------------------------
(* The notification webhook. *)

\* Mutant: a type without a rule of its own is stored as the status.
DeriveStateFromType(n) ==
    IF n.revoked \/ n.type = "REFUND" THEN "revoked"
    ELSE IF n.type = "EXPIRED" \/ n.expires <= clock THEN "expired" ELSE n.type

\* A passed expiry outranks the billing and grace states.
DeriveAppleSubscriptionState(n) ==
    CASE n.revoked \/ n.type = "REFUND" -> "revoked"
      [] ~n.revoked /\ n.type = "EXPIRED" -> "expired"
      [] ~n.revoked /\ n.type \notin {"REFUND", "EXPIRED"} /\ n.expires <= clock -> "expired"
      [] ~n.revoked /\ n.expires > clock /\ n.type = "DID_FAIL_TO_RENEW" -> "billing_retry"
      [] ~n.revoked /\ n.expires > clock /\ n.type = "GRACE_PERIOD" -> "grace_period"
      [] ~n.revoked /\ n.expires > clock /\ n.type = "GRACE_PERIOD_EXPIRED" -> "expired"
      [] OTHER -> "active"

\* InsertAppleEvent waits for an uncommitted row of the same notification, and
\* goes on only if it is the first.
FirstDelivery(w, n) ==
    /\ job[w].at = "idle" /\ n \in 1..Len(sent) /\ n \notin recorded
    /\ \A v \in Worker : job[v].note # n

\* No lineage in the payload: on record, nothing to do.
NoteUnresolved(w, n) ==
    /\ FirstDelivery(w, n) /\ sent[n].type = "TEST"
    /\ recorded' = recorded \cup {n}
    /\ UNCHANGED <<active, tx, clock, apple, sent, subs, job, applied, linked, crossed,
                   overtaken, lost>>

\* SubscriptionByOriginalTransactionID finds no row (without a lock).
NoteUnlinked(w, n) ==
    LET l == sent[n].line IN
    /\ FirstDelivery(w, n) /\ sent[n].type # "TEST" /\ subs[l] = NoSub
    /\ job' = [job EXCEPT ![w] = [at |-> "unlinked", note |-> n, heals |-> 0, line |-> l,
                 user |-> apple[l].token, status |-> "active", expires |-> 0]]
    /\ UNCHANGED <<active, tx, clock, apple, sent, subs, recorded, applied, linked, crossed,
                   overtaken, lost>>

\* The notification is marked processed and committed first, whatever has been
\* written since; then the purchase is looked up through its appAccountToken.
UnlinkedCommits(w) ==
    LET j == job[w] IN
    /\ j.at = "unlinked"
    /\ recorded' = recorded \cup {j.note}
    /\ job' = [job EXCEPT ![w] = IF j.user = NoUser THEN Idle
                 ELSE [at |-> "heal", note |-> 0, heals |-> j.note, line |-> j.line,
                       user |-> j.user, status |-> "active", expires |-> 0]]
    /\ overtaken' = overtaken \ {j.note}
    /\ UNCHANGED <<active, tx, clock, apple, sent, subs, applied, linked, crossed, lost>>

\* Mutant: a purchase another request is writing for is left to that request.
SelfHealUnlessBusy(w) ==
    LET j == job[w] IN
    /\ j.at = "heal"
    /\ \E x \in apple[j.line].periods :
          job' = [job EXCEPT ![w] = IF LineLocked(w, j.line) THEN Idle
                                    ELSE Fetched(j.user, j.line, x, j.heals)]
    /\ UNCHANGED <<active, tx, clock, apple, sent, subs, recorded, applied, linked, crossed,
                   overtaken, lost>>

\* selfHealAppleTransactionByAccountToken: ValidateTransaction from there on.
SelfHeal(w) ==
    LET j == job[w] IN
    /\ j.at = "heal"
    /\ \E x \in apple[j.line].periods :
          job' = [job EXCEPT ![w] = Fetched(j.user, j.line, x, j.heals)]
    /\ UNCHANGED <<active, tx, clock, apple, sent, subs, recorded, applied, linked, crossed,
                   overtaken, lost>>

\* The row is read (without a lock) for its user, and the state derived.
NoteLinked(w, n) ==
    LET l == sent[n].line IN
    /\ FirstDelivery(w, n) /\ sent[n].type # "TEST" /\ subs[l] # NoSub
    /\ job' = [job EXCEPT ![w] = [at |-> "noted", note |-> n, heals |-> 0, line |-> l,
                 user |-> subs[l].user, expires |-> sent[n].expires,
                 status |-> DeriveAppleSubscriptionState(sent[n])]]
    /\ UNCHANGED <<active, tx, clock, apple, sent, subs, recorded, applied, linked, crossed,
                   overtaken, lost>>

\* Mutant: entitlements are looked at before the subscription row is locked.
NoteWritesUnlocked(w) ==
    LET j == job[w] IN
    /\ j.at = "noted"
    /\ RevokeActive(w, j.user, "apple_iap")
    /\ job' = [job EXCEPT ![w].at = "update"]
    /\ UNCHANGED <<active, clock, apple, sent, subs, recorded, applied, linked, crossed,
                   overtaken, lost>>

\* UpdateSubscriptionState..., which waits for the row lock, and the first
\* UPDATE of the entitlements.
NoteWrites(w) ==
    LET j == job[w] IN
    /\ j.at = "noted"
    /\ ~LineLocked(w, j.line)
    /\ RevokeActive(w, j.user, "apple_iap")
    /\ job' = [job EXCEPT ![w].at = "update"]
    /\ UNCHANGED <<active, clock, apple, sent, subs, recorded, applied, linked, crossed,
                   overtaken, lost>>

NoteCommits(w) ==
    LET j == job[w] IN
    /\ j.at = "commit" /\ j.note # 0
    /\ IF Grants(j.status) THEN CommitGrant(w, j.expires) ELSE CommitRevoke(w)
    /\ subs' = [subs EXCEPT ![j.line] = [@ EXCEPT !.status = j.status, !.expires = j.expires]]
    /\ recorded' = recorded \cup {j.note}
    /\ applied' = [applied EXCEPT ![j.note] = @ + 1]
    /\ crossed' = IF subs[j.line].user = j.user THEN crossed ELSE crossed \cup {j.line}
    /\ job' = [job EXCEPT ![w] = Idle]
    /\ UNCHANGED <<clock, apple, sent, linked, overtaken, lost>>

\* What the histories keep of a request that breaks off.
BreaksOff(w) ==
    LET j == job[w] IN
    /\ overtaken' = overtaken \ {j.note}
    /\ lost' = lost \cup {n \in {j.heals} \ {0} : subs[j.line] = NoSub}

\* Mutant: the event is inserted outside the transaction, and stays.
AbortRecorded(w) ==
    /\ job[w].at # "idle"
    /\ EndTx(w)
    /\ recorded' = recorded \cup ({job[w].note} \ {0})
    /\ BreaksOff(w)
    /\ job' = [job EXCEPT ![w] = Idle]
    /\ UNCHANGED <<active, clock, apple, sent, subs, applied, linked, crossed>>

\* Apple's API fails, a statement fails, the request is cancelled, the process
\* crashes: what is not committed rolls back, and a self-healing is forgotten.
Abort(w) ==
    /\ job[w].at # "idle"
    /\ EndTx(w)
    /\ BreaksOff(w)
    /\ job' = [job EXCEPT ![w] = Idle]
    /\ UNCHANGED <<active, clock, apple, sent, subs, recorded, applied, linked, crossed>>

Tick ==
    /\ clock < MaxClock
    /\ clock' = clock + 1
    /\ UNCHANGED <<active, tx, apple, sent, subs, recorded, job, applied, linked, crossed,
                   overtaken, lost>>

Next ==
    \/ \E l \in Line : \/ Pays(l) \/ Refunds(l) \/ Expires(l)
                       \/ \E t \in OtherType : OtherNote(l, t)
    \/ \E w \in Worker :
         \/ \E u \in User, l \in Line : ValidateTransaction(w, u, l)
         \/ ValidateWrites(w) \/ Updated(w)
         \/ ValidateCommits(w) \/ ValidateNotEntitled(w)
         \/ \E n \in Note : NoteUnresolved(w, n) \/ NoteUnlinked(w, n) \/ NoteLinked(w, n)
         \/ UnlinkedCommits(w) \/ SelfHeal(w) \/ NoteWrites(w) \/ NoteCommits(w)
         \/ Abort(w)
    \/ Tick

Spec == Init /\ [][Next]_vars

-----------------------------------------------------------------------------
(* Properties *)

\* A validation moves a lineage to the user who presents it, and the user it
\* leaves keeps what was granted.  The two tables tell the same story of the
\* user a subscription row names, if that user has no other lineage: the active
\* apple_iap rows are one row with its expiry if it grants, and none otherwise.
\* The lock on the subscription row keeps concurrent grants from leaving two.
\* The exception is a lineage that moved while a webhook, which had read whose
\* it is, was about to write: until the next validation it is crossed.
TablesAgree ==
    \A l \in Line :
        subs[l] # NoSub /\ linked[subs[l].user] = {l} /\ l \notin crossed
        => LET rows == ActiveRows(subs[l].user, "apple_iap") IN
           /\ {active[i].expires : i \in rows}
                = IF Grants(subs[l].status) THEN {subs[l].expires} ELSE {}
           /\ Cardinality(rows) <= 1

\* Whatever raced and whoever lineages moved between, each active row of a user
\* stands for a lineage of its own that was written for that user, and ends
\* with a period paid on it: no lineage gives one user two rows, and nobody's
\* Pro outlasts what Apple was paid.
PaidFor ==
    \A u \in User :
        LET rows == ActiveRows(u, "apple_iap") IN
        \E of \in [rows -> linked[u]] :
            /\ \A i, k \in rows : of[i] = of[k] => i = k
            /\ \A i \in rows : active[i].expires \in apple[of[i]].periods

\* A notification goes on record by the very step that writes what it says, and
\* none writes at any other time, so retries and concurrent deliveries write
\* once.  Unless it names no lineage, or its request looked for the lineage's row
\* and found none: there is none yet, or a validation wrote it while the request
\* was committing.  What the notification says is then not written; the step that
\* puts it on record hands it over to a self-healing for the purchase's user.
RecordedMeansWritten ==
    [][\A n \in Note :
         /\ n \in recorded' \ recorded =>
               \/ applied'[n] = applied[n] + 1
               \/ sent[n].type = "TEST"
               \/ /\ subs[sent[n].line] = NoSub \/ n \in overtaken
                  /\ \/ apple[sent[n].line].token = NoUser
                     \/ \E w \in Worker : job'[w].at = "heal" /\ job'[w].heals = n
         /\ applied'[n] # applied[n] => n \in recorded' \ recorded]_vars

\* A period of the lineage has ended or was refunded.
Over(l) == apple[l].revoked \/ \E x \in apple[l].periods : x <= clock

\* A sale is not lost: the lineage of a notification on record has a row, or a
\* self-healing is at work on it.  That work ends with a row, however it races
\* with validations and other notifications, unless Apple says there is nothing to
\* grant or the self-healing breaks off (a failure, a crash after the commit at
\* routes_iap_apple_webhook.go:125): Apple, answered with 200, does not retry.
\* Without appAccountToken nobody can be given the purchase.
SaleNotLost ==
    \A n \in recorded :
        LET l == sent[n].line IN
        \/ sent[n].type = "TEST" \/ subs[l] # NoSub \/ apple[l].token = NoUser
        \/ \E w \in Worker : job[w].heals = n
        \/ n \in lost \/ Over(l)

\* service.go:46-49: ValidateTransaction "updates: ... entitlements
\* (grant/revoke Pro via source=apple_iap)".  A validation that finds the
\* subscription expired or revoked leaves the user without an active row.  The
\* rollback at service.go:151 undoes it, see the run apple_validate_revoke.
ValidateRevokes ==
    [][\A w \in Worker, u \in User :
         ValidateNotEntitled(w) /\ job[w].user = u => ActiveRows(u, "apple_iap")' = {}]_vars
=============================================================================
