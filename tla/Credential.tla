----------------------------- MODULE Credential -----------------------------
(***************************************************************************)
(* What the session store promises, with no database, lock or request in  *)
(* sight: a login owns at most one refresh credential at a time, a        *)
(* credential is handed over for a fresh one or given up, and a credential *)
(* that was given up never works again.  AuthSession implements it.        *)
(***************************************************************************)
CONSTANTS Session,      \* credentials (a refresh token and its auth_sessions row)
          NoSession     \* no credential

VARIABLES current,      \* current[l]: the credential login l can still exchange
          spent         \* credentials that can never be exchanged again

vars == <<current, spent>>

TypeOK == /\ current \in [Session -> Session \cup {NoSession}]
          /\ spent \subseteq Session

Init == /\ current = [l \in Session |-> NoSession]
        /\ spent = {}

Fresh(s) == /\ s \notin spent
            /\ \A l \in Session : current[l] # s

\* A login is named after the first credential it was granted.
Grant(l) == /\ Fresh(l)
            /\ current[l] = NoSession
            /\ current' = [current EXCEPT ![l] = l]
            /\ UNCHANGED spent

Exchange(l, s) == /\ current[l] # NoSession
                  /\ Fresh(s)
                  /\ current' = [current EXCEPT ![l] = s]
                  /\ spent' = spent \cup {current[l]}

Surrender(l) == /\ current[l] # NoSession
                /\ current' = [current EXCEPT ![l] = NoSession]
                /\ spent' = spent \cup {current[l]}

Next == \E l \in Session :
           \/ Grant(l)
           \/ Surrender(l)
           \/ \E s \in Session : Exchange(l, s)

Spec == Init /\ [][Next]_vars
=============================================================================
