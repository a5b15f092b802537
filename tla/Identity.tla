------------------------------ MODULE Identity ------------------------------
(***************************************************************************)
(* Accounts: users, auth_identities (one row per provider and subject) and  *)
(* the quota row a new user starts with.  A sign-in from the app finds or    *)
(* creates the account in one READ COMMITTED transaction; one from the web   *)
(* only finds it.  The unique constraint on auth_identities is what two      *)
(* first sign-ins meet at.                                                  *)
(***************************************************************************)
EXTENDS Naturals, FiniteSets

CONSTANTS Subject,       \* provider and provider_user_id
          Email,
          Worker,        \* concurrent request goroutines
          MaxUsers,      \* bound: user ids ever drawn
          NoEmail,       \* no e-mail address, or NULL
          NoRow

ASSUME IdentityAssumption ==
    /\ MaxUsers \in Nat /\ NoEmail \notin Email
    /\ NoRow \notin Email \cup {NoEmail}
    /\ NoRow \notin [user : 1..MaxUsers, email : Email \cup {NoEmail}]

VARIABLES users,         \* users[u]: the committed row's e-mail address
          identities,    \* identities[s]: the committed auth_identities row
          quotas,        \* users with a quota row
          job,           \* job[w]: what sign-in w is doing
          drawn,         \* user ids drawn so far
          answered       \* history: answered[s], users that sign-ins of s ended with

vars == <<users, identities, quotas, job, drawn, answered>>

-----------------------------------------------------------------------------
UserId == 1..MaxUsers
Mail == Email \cup {NoEmail}

\* "insert": no identity was found; "inserted": the new rows wait for Commit;
\* "merge": the account was found; "user", "both": the users row, then also the
\* auth_identities row, is written and locked.
Job == [at : {"insert"}, source : {"app"}, subject : Subject, email : Mail]
         \cup [at : {"inserted"}, source : {"app"}, subject : Subject, email : Mail,
               user : UserId]
         \cup [at : {"merge", "user", "both"}, source : {"app", "web"},
               subject : Subject, email : Mail, user : UserId]
Idle == [at |-> "idle"]

TypeOK ==
    /\ users \in [UserId -> Mail \cup {NoRow}]
    /\ identities \in [Subject -> [user : UserId, email : Mail] \cup {NoRow}]
    /\ quotas \subseteq UserId
    /\ job \in [Worker -> Job \cup {Idle}]
    /\ drawn \in 0..MaxUsers
    /\ answered \in [Subject -> SUBSET UserId]

Init ==
    /\ users = [u \in UserId |-> NoRow]
    /\ identities = [s \in Subject |-> NoRow]
    /\ quotas = {} /\ drawn = 0
    /\ job = [w \in Worker |-> Idle]
    /\ answered = [s \in Subject |-> {}]

-----------------------------------------------------------------------------
\* Mutant: the web registers as the app does.
NotFoundRegisters(source, s, e) ==
    [at |-> "insert", source |-> source, subject |-> s, email |-> e]

\* No identity: the app goes on to register, the web is answered 404.
NotFound(source, s, e) ==
    IF source = "app"
    THEN [at |-> "insert", source |-> source, subject |-> s, email |-> e]
    ELSE Idle

\* The SELECT that LoginOrRegisterMock and LoginExistingByIdentity begin with.
Begin(w, source, s, e) ==
    /\ job[w].at = "idle"
    /\ job' = [job EXCEPT ![w] =
                 IF identities[s] = NoRow THEN NotFound(source, s, e)
                 ELSE [at |-> "merge", source |-> source, subject |-> s, email |-> e,
                       user |-> identities[s].user]]
    /\ UNCHANGED <<users, identities, quotas, drawn, answered>>

\* Mutant: no unique constraint on (provider, provider_user_id).
InsertUnconstrained(w) ==
    LET j == job[w] IN
    /\ j.at = "insert" /\ drawn < MaxUsers
    /\ drawn' = drawn + 1
    /\ job' = [job EXCEPT ![w] = [at |-> "inserted", source |-> j.source,
                 subject |-> j.subject, email |-> j.email, user |-> drawn + 1]]
    /\ UNCHANGED <<users, identities, quotas, answered>>

\* insertUserAndIdentity: the INSERT into auth_identities waits for another
\* transaction's uncommitted row of the subject.
InsertUserAndIdentity(w) ==
    LET j == job[w] IN
    /\ j.at = "insert" /\ drawn < MaxUsers
    /\ identities[j.subject] = NoRow
    /\ \A v \in Worker : job[v].at = "inserted" => job[v].subject # j.subject
    /\ drawn' = drawn + 1
    /\ job' = [job EXCEPT ![w] = [at |-> "inserted", source |-> j.source,
                 subject |-> j.subject, email |-> j.email, user |-> drawn + 1]]
    /\ UNCHANGED <<users, identities, quotas, answered>>

\* If that row was committed, the INSERT fails and with it the request.
InsertConflicts(w) ==
    /\ job[w].at = "insert" /\ identities[job[w].subject] # NoRow
    /\ job' = [job EXCEPT ![w] = Idle]
    /\ UNCHANGED <<users, identities, quotas, drawn, answered>>

\* The user is read once more after Commit.  replied: that works too and the
\* sign-in goes on; it does not when Commit or the SELECT reports an error.
Answers(j, replied) ==
    answered' = IF replied THEN [answered EXCEPT ![j.subject] = @ \cup {j.user}] ELSE answered

InsertCommits(w, replied) ==
    LET j == job[w] IN
    /\ j.at = "inserted"
    /\ users' = [users EXCEPT ![j.user] = j.email]
    /\ identities' = [identities EXCEPT ![j.subject] = [user |-> j.user, email |-> j.email]]
    /\ quotas' = quotas \cup {j.user}
    /\ Answers(j, replied)
    /\ job' = [job EXCEPT ![w] = Idle]
    /\ UNCHANGED drawn

UserLocked(u) == \E v \in Worker : job[v].at \in {"user", "both"} /\ job[v].user = u

\* Mutant: mergeUser outside the transaction.
MergeUserCommitted(w) ==
    LET j == job[w] IN
    /\ j.at = "merge" /\ j.email # NoEmail
    /\ users' = [users EXCEPT ![j.user] = j.email]
    /\ job' = [job EXCEPT ![w].at = "user"]
    /\ UNCHANGED <<identities, quotas, drawn, answered>>

\* mergeUser and mergeIdentityEmail write an address that was given; the first
\* takes the lock that the second then never has to wait for.
MergeUser(w) ==
    /\ job[w].at = "merge" /\ job[w].email # NoEmail
    /\ ~UserLocked(job[w].user)
    /\ job' = [job EXCEPT ![w].at = "user"]
    /\ UNCHANGED <<users, identities, quotas, drawn, answered>>

MergeIdentityEmail(w) ==
    /\ job[w].at = "user"
    /\ job' = [job EXCEPT ![w].at = "both"]
    /\ UNCHANGED <<users, identities, quotas, drawn, answered>>

MergeCommits(w, replied) ==
    LET j == job[w] IN
    /\ j.at = "both"
    /\ users' = [users EXCEPT ![j.user] = j.email]
    /\ identities' = [identities EXCEPT ![j.subject] = [@ EXCEPT !.email = j.email]]
    /\ Answers(j, replied)
    /\ job' = [job EXCEPT ![w] = Idle]
    /\ UNCHANGED <<quotas, drawn>>

\* Nothing in the sign-in to merge (what else it may say of the user is not
\* modelled).
NothingToMerge(w) ==
    LET j == job[w] IN
    /\ j.at = "merge" /\ j.email = NoEmail
    /\ Answers(j, TRUE)
    /\ job' = [job EXCEPT ![w] = Idle]
    /\ UNCHANGED <<users, identities, quotas, drawn>>

\* A statement fails, the request is cancelled, the process crashes.
Abort(w) ==
    /\ job[w].at # "idle"
    /\ job' = [job EXCEPT ![w] = Idle]
    /\ UNCHANGED <<users, identities, quotas, drawn, answered>>

Next == \E w \in Worker :
           \/ \E source \in {"app", "web"}, s \in Subject, e \in Mail : Begin(w, source, s, e)
           \/ InsertUserAndIdentity(w) \/ InsertConflicts(w)
           \/ MergeUser(w) \/ MergeIdentityEmail(w)
           \/ \E replied \in BOOLEAN : InsertCommits(w, replied) \/ MergeCommits(w, replied)
           \/ NothingToMerge(w) \/ Abort(w)

Spec == Init /\ [][Next]_vars

-----------------------------------------------------------------------------
(* Properties *)

\* However many first sign-ins race, on whatever devices: a person has one
\* account, and every sign-in that succeeds is answered with it.
OneAccount ==
    \A s \in Subject : answered[s] # {} =>
        identities[s] # NoRow /\ answered[s] = {identities[s].user}

\* Every account is whole: it belongs to exactly one subject, with the same
\* e-mail address (merged into the two tables by two statements), and has its
\* quota row.  What a lost race or a failure began leaves nothing behind.
Owners(u) == {s \in Subject : identities[s] # NoRow /\ identities[s].user = u}
AccountsWhole ==
    \A u \in UserId :
        users[u] # NoRow \/ u \in quotas =>
            /\ users[u] # NoRow /\ u \in quotas
            /\ Cardinality(Owners(u)) = 1
            /\ \A s \in Owners(u) : identities[s].email = users[u]
=============================================================================
