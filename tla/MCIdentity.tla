----------------------------- MODULE MCIdentity -----------------------------
(* TLC instance of the sign-in: Identity, and what comes before it for Apple. *)
(* A verified token is all that passes from one to the other, and they share *)
(* no state, so a behaviour explores either the one or the other.            *)
(* Workers, subjects and addresses are each interchangeable.                 *)
EXTENDS Identity, AppleToken, TLC

VARIABLE part

allVars == <<vars, appleVars, part>>

SignInInit ==
    /\ Init /\ AppleInit
    /\ \/ part = "account" /\ published = Key
       \/ part = "token"

SignInNext ==
    \/ part = "account" /\ Next /\ UNCHANGED <<appleVars, part>>
    \/ part = "token" /\ AppleNext /\ UNCHANGED <<vars, part>>

SignInSpec == SignInInit /\ [][SignInNext]_allVars

SignInTypeOK == TypeOK /\ AppleTypeOK

ModelSymmetry == Permutations(Worker) \cup Permutations(Subject) \cup Permutations(Email)
=============================================================================
