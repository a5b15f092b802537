---------------------------- MODULE AuthSession ----------------------------
(***************************************************************************)
(* Mobile sign-in sessions: the auth_sessions table and the three handlers *)
(* that change it (login, refresh with token rotation, logout), as the     *)
(* concurrent HTTP requests of one server process over PostgreSQL.         *)
(*                                                                         *)
(* A refresh token is identified with the row that stores its hash (the    *)
(* hash is UNIQUE).  A rotation is one transaction: its SELECT ... FOR     *)
(* UPDATE takes the row lock, and everything it writes becomes visible at  *)
(* Commit, so the writes are one step here and what happens between the    *)
(* SELECT and the Commit is every other request's steps.                   *)
(***************************************************************************)
EXTENDS Integers

CONSTANTS User,
          MaxSessions,   \* bound: how many rows are ever inserted
          Req,           \* concurrent request goroutines
          NoReq,         \* no request: the row is not locked
          RefreshTTL,    \* cfg.RefreshSessionTTL
          AccessTTL,     \* cfg.AccessTokenTTL
          MaxClock       \* bound: the last instant considered

\* NewTokenIssuer refuses an access TTL that is not positive.
ASSUME AuthSessionAssumption ==
    /\ NoReq \notin Req
    /\ MaxSessions \in Nat /\ RefreshTTL \in Nat /\ MaxClock \in Nat
    /\ AccessTTL \in Nat \ {0}

VARIABLES
    session,     \* session[s]: the committed auth_sessions row with id s
    last,        \* ids 1..last were generated so far
    holder,      \* holder[s]: the request whose transaction locks row s
    req,         \* req[r]: what request r is doing
    clock,       \* time.Now()
    held,        \* sessions whose tokens reached a client
    accessExp,   \* accessExp[s]: exp claim of the access token issued with s
    root         \* history: the login that session s descends from

tables == <<session, last, root>>
vars == <<session, last, holder, req, clock, held, accessExp, root>>

-----------------------------------------------------------------------------
\* gen_random_uuid() never repeats an id; nothing else about ids matters, so
\* they are numbered in the order they are generated.
Session == 1..MaxSessions
NoSession == 0          \* SQL NULL, or a refresh token that no row knows

\* state "live": revoked_at IS NULL; otherwise the revoke_reason, for which
\* the code knows these two values.  NoRow: no row has this id.
NoRow == [state |-> "none"]
Row == [state : {"live", "rotated", "logout"}, user : User, expires : Nat,
        revokedAt : Nat, next : Session \cup {NoSession}]

Phase == {"idle", "issue", "select", "rotate", "reply", "logout"}
Request == [at : Phase, tok : Session \cup {NoSession},
            new : Session \cup {NoSession}, now : Nat]
Idle == [at |-> "idle", tok |-> NoSession, new |-> NoSession, now |-> 0]

TypeOK ==
    /\ session \in [Session -> Row \cup {NoRow}]
    /\ last \in 0..MaxSessions
    /\ holder \in [Session -> Req \cup {NoReq}]
    /\ req \in [Req -> Request]
    /\ clock \in Nat
    /\ held \subseteq Session
    /\ accessExp \in [Session -> Nat]
    /\ root \in [Session -> Session \cup {NoSession}]

Init ==
    /\ session = [s \in Session |-> NoRow]
    /\ last = 0
    /\ holder = [s \in Session |-> NoReq]
    /\ req = [r \in Req |-> Idle]
    /\ clock = 0
    /\ held = {}
    /\ accessExp = [s \in Session |-> 0]
    /\ root = [s \in Session |-> NoSession]

Live(s) == session[s].state = "live"
Unlocked(s) == holder[s] = NoReq
Finish(r) == req' = [req EXCEPT ![r] = Idle]

\* A rolled back, committed or abandoned transaction gives its row lock back.
Release(r) == holder' = [s \in Session |-> IF holder[s] = r THEN NoReq ELSE holder[s]]

\* Mutant: the expiry is computed backwards.
LiveRowBackdated(u, now) == [state |-> "live", user |-> u, expires |-> now - RefreshTTL,
                             revokedAt |-> 0, next |-> NoSession]

LiveRow(u, now) == [state |-> "live", user |-> u, expires |-> now + RefreshTTL,
                    revokedAt |-> 0, next |-> NoSession]

-----------------------------------------------------------------------------
(* Login.  completeAuthLogin for source "app": the user exists by now (see  *)
(* module Identity); the session row is inserted, then the access token is *)
(* signed, then the reply carries both.                                     *)

InsertAuthSession(r, u) ==
    LET s == last + 1 IN
    /\ req[r].at = "idle"
    /\ s \in Session
    /\ session' = [session EXCEPT ![s] = LiveRow(u, clock)]
    /\ last' = s
    /\ root' = [root EXCEPT ![s] = s]
    /\ req' = [req EXCEPT ![r] = [Idle EXCEPT !.at = "issue", !.new = s]]
    /\ UNCHANGED <<holder, clock, held, accessExp>>

LoginIssue(r) ==
    /\ req[r].at = "issue"
    /\ accessExp' = [accessExp EXCEPT ![req[r].new] = clock + AccessTTL]
    /\ req' = [req EXCEPT ![r].at = "reply"]
    /\ UNCHANGED <<tables, holder, clock, held>>

\* Mutant: the error path does not return, and the reply is sent all the same.
LoginIssueFailsReplies(r) ==
    /\ req[r].at = "issue"
    /\ session' = [session EXCEPT ![req[r].new] = NoRow]
    /\ req' = [req EXCEPT ![r].at = "reply"]
    /\ UNCHANGED <<last, root, holder, clock, held, accessExp>>

\* Signing failed: DeleteAuthSession, whose own error is ignored.
LoginIssueFails(r) ==
    /\ req[r].at = "issue"
    /\ \/ session' = [session EXCEPT ![req[r].new] = NoRow]
       \/ UNCHANGED session
    /\ Finish(r)
    /\ UNCHANGED <<last, root, holder, clock, held, accessExp>>

-----------------------------------------------------------------------------
(* Refresh.  A client may present any refresh token it was ever sent, any   *)
(* number of times, or one that the server never issued (NoSession).        *)

RefreshBegin(r, s) ==
    /\ req[r].at = "idle"
    /\ s \in held \cup {NoSession}
    /\ req' = [req EXCEPT ![r] = [Idle EXCEPT !.at = "select", !.tok = s]]
    /\ UNCHANGED <<tables, holder, clock, held, accessExp>>

\* SELECT ... FOR UPDATE finds no row: errRefreshInvalid.
RefreshUnknown(r) ==
    /\ req[r].at = "select"
    /\ \/ req[r].tok = NoSession
       \/ req[r].tok # NoSession /\ session[req[r].tok] = NoRow
    /\ Finish(r)
    /\ UNCHANGED <<tables, holder, clock, held, accessExp>>

\* The row is there but unusable: errRefreshReuse, errRefreshRevoked or
\* errRefreshExpired.  The transaction rolls back.
RefreshRejected(r) ==
    /\ req[r].at = "select"
    /\ req[r].tok # NoSession
    /\ Unlocked(req[r].tok)
    /\ session[req[r].tok] # NoRow
    /\ Live(req[r].tok) => session[req[r].tok].expires <= clock
    /\ Finish(r)
    /\ UNCHANGED <<tables, holder, clock, held, accessExp>>

\* Mutant: SELECT without FOR UPDATE.
RefreshAcceptedUnlocked(r) ==
    /\ req[r].at = "select" /\ req[r].tok # NoSession
    /\ Live(req[r].tok) /\ session[req[r].tok].expires > clock
    /\ req' = [req EXCEPT ![r].at = "rotate", ![r].now = clock]
    /\ UNCHANGED <<tables, holder, clock, held, accessExp>>

\* Mutant: only rotated rows are refused, logged out ones are not.
RefreshAcceptedLoggedOut(r) ==
    /\ req[r].at = "select" /\ req[r].tok # NoSession
    /\ Unlocked(req[r].tok)
    /\ session[req[r].tok] # NoRow /\ session[req[r].tok].state # "rotated"
    /\ session[req[r].tok].expires > clock
    /\ holder' = [holder EXCEPT ![req[r].tok] = r]
    /\ req' = [req EXCEPT ![r].at = "rotate", ![r].now = clock]
    /\ UNCHANGED <<tables, clock, held, accessExp>>

\* The row is live and not expired: the transaction now holds its lock, and
\* now is the instant every later timestamp of the rotation is computed from.
RefreshAccepted(r) ==
    /\ req[r].at = "select"
    /\ req[r].tok # NoSession
    /\ Unlocked(req[r].tok)
    /\ Live(req[r].tok)
    /\ session[req[r].tok].expires > clock
    /\ holder' = [holder EXCEPT ![req[r].tok] = r]
    /\ req' = [req EXCEPT ![r].at = "rotate", ![r].now = clock]
    /\ UNCHANGED <<tables, clock, held, accessExp>>

\* Mutant: the old row is not revoked.
RefreshCommitKeepsOld(r) ==
    LET t == last + 1 IN
    /\ req[r].at = "rotate" /\ t \in Session
    /\ session' = [session EXCEPT ![t] = LiveRow(session[req[r].tok].user, req[r].now)]
    /\ last' = t
    /\ root' = [root EXCEPT ![t] = root[req[r].tok]]
    /\ accessExp' = [accessExp EXCEPT ![t] = clock + AccessTTL]
    /\ Release(r)
    /\ req' = [req EXCEPT ![r].at = "reply", ![r].new = t]
    /\ UNCHANGED <<clock, held>>

\* INSERT the successor, UPDATE the old row, sign the access token, Commit.
RefreshCommit(r) ==
    LET s == req[r].tok  t == last + 1  now == req[r].now IN
    /\ req[r].at = "rotate"
    /\ t \in Session
    /\ session' = [session EXCEPT
                     ![t] = LiveRow(session[s].user, now),
                     ![s] = [session[s] EXCEPT !.state = "rotated",
                                               !.revokedAt = now, !.next = t]]
    /\ last' = t
    /\ root' = [root EXCEPT ![t] = root[s]]
    /\ accessExp' = [accessExp EXCEPT ![t] = clock + AccessTTL]
    /\ Release(r)
    /\ req' = [req EXCEPT ![r].at = "reply", ![r].new = t]
    /\ UNCHANGED <<clock, held>>

\* Mutant: the error path leaves the transaction open.
RefreshAbortKeepsLock(r) ==
    /\ req[r].at = "rotate"
    /\ Finish(r)
    /\ UNCHANGED <<tables, holder, clock, held, accessExp>>

\* GenerateRefreshToken, a statement, the signing or Commit returns an error:
\* the deferred Rollback runs and the handler answers 500.
RefreshAbort(r) ==
    /\ req[r].at = "rotate"
    /\ Release(r)
    /\ Finish(r)
    /\ UNCHANGED <<tables, clock, held, accessExp>>

-----------------------------------------------------------------------------
\* The reply of a login or a refresh reaches the client.
Reply(r) ==
    /\ req[r].at = "reply"
    /\ held' = held \cup {req[r].new}
    /\ Finish(r)
    /\ UNCHANGED <<tables, holder, clock, accessExp>>

\* The client disconnects, which cancels the request's context, or the reply
\* is lost: an open transaction rolls back, committed rows stay.  A crash of
\* the process is this step of each of its requests.
Disconnect(r) ==
    /\ req[r].at # "idle"
    /\ Finish(r)
    /\ Release(r)
    /\ UNCHANGED <<tables, clock, held, accessExp>>

-----------------------------------------------------------------------------
(* Logout.  bearerAuthHandler verifies the access token (signature and exp, *)
(* never the session row); handleAuthLogout revokes the row of its sid.     *)

LogoutBegin(r, s) ==
    /\ req[r].at = "idle"
    /\ s \in held
    /\ accessExp[s] > clock
    /\ req' = [req EXCEPT ![r] = [Idle EXCEPT !.at = "logout", !.tok = s, !.now = clock]]
    /\ UNCHANGED <<tables, holder, clock, held, accessExp>>

\* Mutant: the UPDATE lacks "revoked_at IS NULL".
RevokeSessionLogoutAgain(r) ==
    LET s == req[r].tok IN
    /\ req[r].at = "logout" /\ Unlocked(s)
    /\ session' = [session EXCEPT ![s].state = "logout", ![s].revokedAt = req[r].now]
    /\ Finish(r)
    /\ UNCHANGED <<last, root, holder, clock, held, accessExp>>

\* One UPDATE ... WHERE revoked_at IS NULL, which waits for the row lock and
\* then looks at the row again; it answers 200 whether or not a row matched.
RevokeSessionLogout(r) ==
    LET s == req[r].tok IN
    /\ req[r].at = "logout"
    /\ Unlocked(s)
    /\ session' = IF Live(s)
                  THEN [session EXCEPT ![s].state = "logout", ![s].revokedAt = req[r].now]
                  ELSE session
    /\ Finish(r)
    /\ UNCHANGED <<last, root, holder, clock, held, accessExp>>

Tick ==
    /\ clock < MaxClock
    /\ clock' = clock + 1
    /\ UNCHANGED <<tables, holder, req, held, accessExp>>

-----------------------------------------------------------------------------
\* SELECT ... FOR UPDATE, which waits while another transaction holds the row.
RefreshSelect(r) == RefreshUnknown(r) \/ RefreshRejected(r) \/ RefreshAccepted(r)

\* The steps a request takes by itself once the client has sent it.
Handle(r) ==
    \/ LoginIssue(r) \/ LoginIssueFails(r)
    \/ RefreshSelect(r)
    \/ RefreshCommit(r)
    \/ RefreshAbort(r)
    \/ RevokeSessionLogout(r)
    \/ Reply(r)

Next ==
    \/ \E r \in Req :
         \/ \E u \in User : InsertAuthSession(r, u)
         \/ \E s \in Session \cup {NoSession} : RefreshBegin(r, s)
         \/ \E s \in Session : LogoutBegin(r, s)
         \/ Handle(r)
         \/ Disconnect(r)
    \/ Tick

Spec == Init /\ [][Next]_vars

\* A handler that can go on does, and PostgreSQL queues the waiters of a row
\* lock: one that becomes free again and again is granted to each of them.
Fairness == \A r \in Req : /\ WF_vars(Handle(r))
                          /\ SF_vars(RefreshSelect(r))
                          /\ SF_vars(RevokeSessionLogout(r))

FairSpec == Spec /\ Fairness

-----------------------------------------------------------------------------
(* Properties *)

\* revoke_reason "rotated" and replaced_by_session_id go together; the
\* successor is a row of the same user and the same login, no two rows share
\* it, and the exchange happened before the old row expired
\* (RotateRefreshToken: expires_at test, INSERT, UPDATE).
RotationChain ==
    \A s \in Session : session[s] # NoRow =>
        /\ session[s].state = "rotated" <=> session[s].next # NoSession
        /\ session[s].state = "rotated" =>
             LET n == session[s].next IN
             /\ session[n] # NoRow
             /\ session[n].user = session[s].user /\ root[n] = root[s]
             /\ session[n].expires = session[s].revokedAt + RefreshTTL
             /\ session[s].revokedAt < session[s].expires
             /\ \A t \in Session \ {s} : session[t] # NoRow => session[t].next # n

\* However many refreshes and logouts race, the rows one login leads to have
\* one end: at most one of them was not rotated away.  So a refresh token is
\* exchanged at most once, and a login that was logged out has no live row.
Unrotated(s) == session[s] # NoRow /\ session[s].state # "rotated"

OneSessionPerLogin ==
    \A s, t \in Session :
        Unrotated(s) /\ Unrotated(t) /\ root[s] = root[t] => s = t

\* The rows of a login are one chain, however many refreshes and logouts race and
\* wherever they fail: linked one to one, each exchanged in time, with one end.
OneChainPerLogin == RotationChain /\ OneSessionPerLogin

\* A revoked row is never written again: neither un-revoked nor revoked anew
\* with another reason or time (the UPDATEs of rotation and logout).
RevokedRowsKept ==
    \A s \in Session : session[s] # NoRow /\ ~Live(s) => session'[s] = session[s]
RevocationIsFinal == [][RevokedRowsKept]_session

\* bearerAuthHandler never looks at auth_sessions, so logout does not stop
\* access tokens; but none of that login outlives the logout by AccessTTL.
AccessEndsAfterLogout ==
    \A s, t \in Session :
        session[s] # NoRow /\ session[s].state = "logout" /\ root[t] = root[s]
            => accessExp[t] <= session[s].revokedAt + AccessTTL

\* Tokens a client received belong to a committed row: no reply is sent for a
\* rotation that was rolled back or a login whose row was deleted.
TokensAreBacked == \A s \in held : session[s] # NoRow /\ accessExp[s] > 0

\* No request waits for a row lock for ever: every way out of a rotation,
\* commit, error and disconnection, gives the lock back.
EveryRequestEnds == \A r \in Req : req[r].at # "idle" ~> req[r].at = "idle"

\* The store implements Credential: a login's credential is its live row,
\* and every other row it ever had is spent.
LiveOf(l) == {s \in Session : Live(s) /\ root[s] = l}
Current == [l \in Session |-> IF LiveOf(l) = {} THEN NoSession
                              ELSE CHOOSE s \in LiveOf(l) : TRUE]
Spent == {s \in 1..last : ~Live(s)}

Contract == INSTANCE Credential WITH current <- Current, spent <- Spent
ImplementsCredential == Contract!Spec
=============================================================================
