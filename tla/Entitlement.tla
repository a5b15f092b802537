---------------------------- MODULE Entitlement ----------------------------
(***************************************************************************)
(* The entitlements table and the statements every grant and revocation of *)
(* Pro is made of: an UPDATE that revokes the active rows of one user and   *)
(* source, then for a grant an INSERT, in one READ COMMITTED transaction.   *)
(* No constraint limits the active rows of a user, and nothing but the row *)
(* locks of the UPDATE orders two transactions.                            *)
(*                                                                         *)
(* A revoked row is never selected again, so a slot holds an active row or *)
(* nothing; slots stand for row ids and are only compared.                 *)
(***************************************************************************)
EXTENDS Integers, FiniteSets

CONSTANTS User,
          Worker,      \* concurrent request goroutines
          Source,      \* values of entitlements.source: "stripe", "apple_iap", "dev"
          MaxRow,      \* bound: slots for active rows
          NoExpiry,    \* expires_at IS NULL
          NoRow        \* the slot is free

ASSUME EntitlementAssumption ==
    /\ NoExpiry \notin Nat /\ MaxRow \in Nat /\ IsFiniteSet(Worker)
    /\ NoRow # NoExpiry
    /\ NoRow \notin [user : User, source : Source, expires : Nat \cup {NoExpiry}]

VARIABLES active,      \* active[i]: the committed active row in slot i
          tx,          \* tx[w]: what w's open transaction did to the table
          clock        \* now()

entVars == <<active, tx>>

Slot == 1..MaxRow
Row == [user : User, source : Source, expires : Nat \cup {NoExpiry}]

\* at "update": the UPDATE took its snapshot of user's rows from source and
\* waits for row locks; at "updated": it revoked the rows in locked, which only
\* this transaction sees.
Tx == [at : {"update", "updated"}, user : User, source : Source,
       seen : SUBSET Slot, locked : SUBSET Slot]
NoTx == [at |-> "none", seen |-> {}, locked |-> {}]

EntTypeOK ==
    /\ active \in [Slot -> Row \cup {NoRow}]
    /\ tx \in [Worker -> Tx \cup {NoTx}]
    /\ clock \in Nat

EntInit ==
    /\ active = [i \in Slot |-> NoRow]
    /\ tx = [w \in Worker |-> NoTx]
    /\ clock = 0

ActiveRows(u, src) ==
    {i \in Slot : active[i] # NoRow /\ active[i].user = u /\ active[i].source = src}

\* Some active row is not expired, whatever its source.
Unexpired(i) == active[i].expires = NoExpiry \/ active[i].expires > clock
HasActivePro(u) ==
    \E src \in Source : \E i \in ActiveRows(u, src) : Unexpired(i)

\* UPDATE ... SET status = 'revoked' WHERE ... AND status = 'active': the
\* statement sees what was committed when it began.
RevokeActive(w, u, src) ==
    tx' = [tx EXCEPT ![w] = [at |-> "update", user |-> u, source |-> src,
                             seen |-> ActiveRows(u, src), locked |-> {}]]

\* It waits for the rows it saw, then looks at them again: those another
\* transaction revoked meanwhile are skipped, and rows inserted meanwhile are
\* not looked at.
LockRows(w) ==
    /\ tx[w].at = "update"
    /\ \A v \in Worker \ {w} : tx[v].locked \cap tx[w].seen = {}
    /\ tx' = [tx EXCEPT ![w] = [@ EXCEPT !.at = "updated",
                                         !.locked = {i \in tx[w].seen : active[i] # NoRow}]]

FreeSlot(i) == active[i] = NoRow /\ \A w \in Worker : i \notin tx[w].seen
NextSlot == CHOOSE i \in Slot : FreeSlot(i) /\ \A j \in Slot : FreeSlot(j) => i <= j

\* Mutant: a path that neither commits nor rolls back keeps its locks.
EndTxKeepsLocks(w) == tx' = [tx EXCEPT ![w].at = "none"]

\* Commit and Rollback give the row locks back.
EndTx(w) == tx' = [tx EXCEPT ![w] = NoTx]

\* Commit of a revocation, and of a grant with its INSERT.
CommitRevoke(w) ==
    /\ tx[w].at = "updated"
    /\ active' = [i \in Slot |-> IF i \in tx[w].locked THEN NoRow ELSE active[i]]
    /\ EndTx(w)

CommitGrant(w, expires) ==
    /\ tx[w].at = "updated"
    /\ \E i \in Slot : FreeSlot(i)
    /\ active' = [i \in Slot |->
                    IF i = NextSlot
                    THEN [user |-> tx[w].user, source |-> tx[w].source, expires |-> expires]
                    ELSE IF i \in tx[w].locked THEN NoRow ELSE active[i]]
    /\ EndTx(w)
=============================================================================
