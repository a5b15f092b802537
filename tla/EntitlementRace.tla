-------------------------- MODULE EntitlementRace --------------------------
(***************************************************************************)
(* Every writer of the entitlements table at once, whatever made it write: *)
(* UpsertStripePro and RevokeStripePro, UpsertAppleIAPPro and              *)
(* RevokeAppleIAPPro, and SetDevPro, each in a transaction of its own.     *)
(***************************************************************************)
EXTENDS Entitlement

CONSTANT Expiry        \* values of expires_at

ASSUME ExpiryAssumption == Expiry \subseteq Nat \cup {NoExpiry}

VARIABLE mixed         \* history: transactions that overlapped another of their
                       \* user and source

vars == <<active, tx, clock, mixed>>

TypeOK == EntTypeOK /\ mixed \subseteq Worker

Init == EntInit /\ mixed = {}

-----------------------------------------------------------------------------
Overlapping(w, u, src) ==
    {v \in Worker \ {w} : tx[v].at # "none" /\ tx[v].user = u /\ tx[v].source = src}

\* The first statement of UpsertStripePro, RevokeStripePro, UpsertAppleIAPPro,
\* RevokeAppleIAPPro and SetDevPro is the same UPDATE.
Start(w, u, src) ==
    /\ tx[w].at = "none"
    /\ RevokeActive(w, u, src)
    /\ mixed' = LET o == Overlapping(w, u, src) IN
                IF o = {} THEN mixed ELSE mixed \cup o \cup {w}
    /\ UNCHANGED <<active, clock>>

\* Mutant: the UPDATE does not wait for the rows other transactions hold, and
\* revokes those nobody holds.
UpdatedSkipsLocked(w) ==
    /\ tx[w].at = "update"
    /\ tx' = [tx EXCEPT ![w] = [@ EXCEPT !.at = "updated", !.locked =
                 {i \in tx[w].seen : active[i] # NoRow /\ \A j \in tx[w].seen : i <= j}]]
    /\ UNCHANGED <<active, clock, mixed>>

Updated(w) == LockRows(w) /\ UNCHANGED <<active, clock, mixed>>

\* Mutant: the INSERT runs without the UPDATE before it.
GrantKeepsOld(w, expires) ==
    /\ tx[w].at = "updated"
    /\ \E i \in Slot : FreeSlot(i)
    /\ active' = [active EXCEPT ![NextSlot] =
                    [user |-> tx[w].user, source |-> tx[w].source, expires |-> expires]]
    /\ EndTx(w)
    /\ mixed' = mixed \ {w} /\ UNCHANGED clock

Grant(w, expires) ==
    /\ CommitGrant(w, expires)
    /\ mixed' = mixed \ {w} /\ UNCHANGED clock

Revoke(w) ==
    /\ CommitRevoke(w)
    /\ mixed' = mixed \ {w} /\ UNCHANGED clock

\* An error, a cancelled request, a deadlock victim or a crash.
Rollback(w) ==
    /\ tx[w].at # "none"
    /\ EndTx(w)
    /\ mixed' = mixed \ {w} /\ UNCHANGED <<active, clock>>

Next == \E w \in Worker :
           \/ \E u \in User, src \in Source : Start(w, u, src)
           \/ Updated(w)
           \/ \E x \in Expiry : Grant(w, x)
           \/ Revoke(w)
           \/ Rollback(w)

Spec == Init /\ [][Next]_vars

-----------------------------------------------------------------------------
(* Properties *)

\* Nothing but the UPDATE of each grant keeps a user at one active row per
\* source, and concurrent grants do leave several (the INSERT of the other is
\* invisible to the UPDATE); but never more than there are concurrent requests.
ActiveRowsBounded ==
    \A u \in User, src \in Source : Cardinality(ActiveRows(u, src)) <= Cardinality(Worker)

\* A commit touches rows of its own user and source only: web, App Store and
\* development entitlements come and go independently of each other.  And a
\* transaction that overlapped no other of its user and source has the last
\* word: it leaves exactly the row it inserted, or none, also when the races
\* before it left several.
Commits(w, u, src) == active' # active /\ tx[w].at = "updated" /\ tx'[w] = NoTx
                        /\ tx[w].user = u /\ tx[w].source = src
CommitDecided ==
    \A w \in Worker, u \in User, src \in Source :
       Commits(w, u, src) =>
          /\ \A i \in Slot : active'[i] # active[i] =>
                \A row \in {active[i], active'[i]} \ {NoRow} : row.user = u /\ row.source = src
          /\ w \notin mixed =>
                \/ Revoke(w) /\ ActiveRows(u, src)' = {}
                \/ \E x \in Expiry, i \in Slot :
                     /\ Grant(w, x) /\ ActiveRows(u, src)' = {i} /\ active'[i].expires = x
CommitDecides == [][CommitDecided]_vars
=============================================================================
