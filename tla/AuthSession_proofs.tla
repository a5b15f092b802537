------------------------- MODULE AuthSession_proofs -------------------------
(***************************************************************************)
(* Proofs about AuthSession, for every number of users, sessions and       *)
(* concurrent requests and every value of the two lifetimes.               *)
(***************************************************************************)
EXTENDS AuthSession, TLAPS

\* A request rotates a row exactly while it holds its lock, and that row is
\* live all that time: neither a logout nor another rotation gets at it.
LockInv ==
    /\ \A r \in Req : req[r].at = "rotate" =>
          /\ req[r].tok \in held
          /\ holder[req[r].tok] = r
          /\ Live(req[r].tok)
    /\ \A s \in Session : holder[s] # NoReq =>
          req[holder[s]].at = "rotate" /\ req[holder[s]].tok = s

\* Ids above last have not been generated: no row, no login, no holder of
\* their tokens.
IdInv ==
    /\ \A s \in Session : s > last => session[s] = NoRow
    /\ \A s \in Session : root[s] \in 0..last
    /\ \A s \in Session : session[s] # NoRow => root[s] \in Session
    /\ \A s \in held : s <= last
    /\ \A r \in Req : req[r].at \in {"issue", "reply"} =>
          req[r].new \in Session /\ req[r].new <= last

\* The row a login may still delete is known to that request alone.
PrivateInv ==
    /\ \A r \in Req : req[r].at \in {"issue", "reply"} => req[r].new \notin held
    /\ \A r \in Req : req[r].at = "issue" => Live(req[r].new)
    /\ \A r1, r2 \in Req :
          /\ r1 # r2
          /\ req[r1].at \in {"issue", "reply"}
          /\ req[r2].at \in {"issue", "reply"}
          => req[r1].new # req[r2].new
    /\ \A r \in Req : req[r].at \in {"select", "logout"} =>
          req[r].tok \in held \cup {NoSession}
    /\ \A r \in Req : req[r].at = "logout" => req[r].tok \in held

IInv == /\ TypeOK
        /\ LockInv
        /\ IdInv
        /\ PrivateInv
        /\ OneSessionPerLogin

-----------------------------------------------------------------------------
LEMMA InitIInv == Init => IInv
BY AuthSessionAssumption
DEF Init, IInv, TypeOK, LockInv, IdInv, PrivateInv, OneSessionPerLogin, Unrotated,
    Idle, Request, Phase, Session, NoSession, NoRow

\* A rotating request's row exists, so it has a user to pass on.
LEMMA RotatingRow ==
    ASSUME IInv, NEW r \in Req, req[r].at = "rotate"
    PROVE  /\ req[r].tok \in Session
           /\ session[req[r].tok] \in Row
           /\ req[r].tok <= last
BY DEF IInv, TypeOK, LockInv, IdInv, Live, NoRow

LEMMA NextIInv == IInv /\ [Next]_vars => IInv'
<1> USE AuthSessionAssumption
<1> SUFFICES ASSUME IInv, [Next]_vars PROVE IInv'
  OBVIOUS
<1>1. ASSUME NEW r \in Req, NEW u \in User, InsertAuthSession(r, u) PROVE IInv'
  <2> USE <1>1 DEF InsertAuthSession, Idle
  <2>a. LiveRow(u, clock) \in Row
    BY DEF IInv, TypeOK, LiveRow, Row
  <2>b. req'[r] \in Request
    BY DEF IInv, TypeOK, Request, Phase, Session, NoSession
  <2>1. TypeOK'
    BY <2>a, <2>b DEF IInv, TypeOK, Session
  <2>2. LockInv'
    BY DEF IInv, TypeOK, LockInv, IdInv, Live, Session, LiveRow
  <2>3. IdInv'
    BY DEF IInv, TypeOK, IdInv, Session, NoSession
  <2>4. PrivateInv'
    BY DEF IInv, TypeOK, PrivateInv, IdInv, Session, NoSession, Live, LiveRow
  <2>c. \A x \in Session : x # last + 1 =>
           session'[x] = session[x] /\ root'[x] = root[x] /\ root'[x] # last + 1
    BY DEF IInv, TypeOK, IdInv, Session
  <2>d. root'[last + 1] = last + 1
    BY DEF IInv, TypeOK
  <2>5. OneSessionPerLogin'
    BY <2>c, <2>d DEF IInv, OneSessionPerLogin, Unrotated
  <2> QED BY <2>1, <2>2, <2>3, <2>4, <2>5 DEF IInv
<1>2. ASSUME NEW r \in Req, LoginIssue(r) PROVE IInv'
  <2> USE <1>2 DEF LoginIssue, tables
  <2>a. req'[r] \in Request
    BY DEF IInv, TypeOK, Request, Phase
  <2>1. TypeOK'
    BY <2>a DEF IInv, TypeOK, IdInv
  <2>2. LockInv'
    BY DEF IInv, TypeOK, LockInv, Live
  <2>3. IdInv'
    BY DEF IInv, TypeOK, IdInv
  <2>4. PrivateInv'
    BY DEF IInv, TypeOK, PrivateInv, Live
  <2>5. OneSessionPerLogin'
    BY DEF IInv, OneSessionPerLogin, Unrotated
  <2> QED BY <2>1, <2>2, <2>3, <2>4, <2>5 DEF IInv
<1>3. ASSUME NEW r \in Req, LoginIssueFails(r) PROVE IInv'
  <2> USE <1>3 DEF LoginIssueFails, Finish, Idle
  <2>1. TypeOK'
    BY DEF IInv, TypeOK, Request, Phase, NoSession
  <2>2. LockInv'
    BY DEF IInv, TypeOK, LockInv, PrivateInv, Live
  <2>3. IdInv'
    BY DEF IInv, TypeOK, IdInv
  <2>4. PrivateInv'
    <3>1. req'[r] = Idle /\ \A q \in Req : q # r => req'[q] = req[q]
      BY DEF IInv, TypeOK
    <3>2. \A q \in Req : q # r /\ req[q].at = "issue" => req[q].new # req[r].new
      BY DEF IInv, PrivateInv
    <3>3. \A q \in Req : q # r /\ req[q].at = "issue" =>
             session'[req[q].new] = session[req[q].new]
      BY <3>2 DEF IInv, TypeOK, IdInv
    <3> QED BY <3>1, <3>2, <3>3 DEF IInv, TypeOK, PrivateInv, Live
  <2>5. OneSessionPerLogin'
    BY DEF IInv, TypeOK, OneSessionPerLogin, Unrotated
  <2> QED BY <2>1, <2>2, <2>3, <2>4, <2>5 DEF IInv
<1>4. ASSUME NEW r \in Req, NEW s \in Session \cup {NoSession}, RefreshBegin(r, s)
      PROVE  IInv'
  <2> USE <1>4 DEF RefreshBegin, tables, Idle
  <2>1. TypeOK'
    BY DEF IInv, TypeOK, Request, Phase, NoSession
  <2>2. LockInv'
    BY DEF IInv, TypeOK, LockInv, Live
  <2>3. IdInv'
    BY DEF IInv, TypeOK, IdInv
  <2>4. PrivateInv'
    BY DEF IInv, TypeOK, PrivateInv, Live
  <2>5. OneSessionPerLogin'
    BY DEF IInv, OneSessionPerLogin, Unrotated
  <2> QED BY <2>1, <2>2, <2>3, <2>4, <2>5 DEF IInv
<1>5. ASSUME NEW r \in Req, RefreshUnknown(r) \/ RefreshRejected(r) PROVE IInv'
  <2> USE <1>5 DEF RefreshUnknown, RefreshRejected, tables, Finish, Idle
  <2>1. TypeOK'
    BY DEF IInv, TypeOK, Request, Phase, NoSession
  <2>2. LockInv'
    BY DEF IInv, TypeOK, LockInv, Live
  <2>3. IdInv'
    BY DEF IInv, TypeOK, IdInv
  <2>4. PrivateInv'
    BY DEF IInv, TypeOK, PrivateInv, Live
  <2>5. OneSessionPerLogin'
    BY DEF IInv, OneSessionPerLogin, Unrotated
  <2> QED BY <2>1, <2>2, <2>3, <2>4, <2>5 DEF IInv
<1>6. ASSUME NEW r \in Req, RefreshAccepted(r) PROVE IInv'
  <2> USE <1>6 DEF RefreshAccepted, tables, Unlocked
  <2>a. req'[r] \in Request
    BY DEF IInv, TypeOK, Request, Phase
  <2>1. TypeOK'
    BY <2>a DEF IInv, TypeOK, Request
  <2>2. LockInv'
    BY DEF IInv, TypeOK, LockInv, PrivateInv, Live, Request
  <2>3. IdInv'
    BY DEF IInv, TypeOK, IdInv
  <2>4. PrivateInv'
    BY DEF IInv, TypeOK, PrivateInv, Live
  <2>5. OneSessionPerLogin'
    BY DEF IInv, OneSessionPerLogin, Unrotated
  <2> QED BY <2>1, <2>2, <2>3, <2>4, <2>5 DEF IInv
<1>7. ASSUME NEW r \in Req, RefreshCommit(r) PROVE IInv'
  <2> DEFINE s == req[r].tok
             t == last + 1
  <2>0. /\ req[r].at = "rotate" /\ last' = t /\ held' = held /\ clock' = clock
        /\ t \in Session
    BY <1>7 DEF RefreshCommit
  <2>1. /\ s \in Session /\ session[s] \in Row /\ session[s] # NoRow
        /\ s <= last /\ Live(s) /\ s \in held
    BY <2>0, RotatingRow DEF IInv, LockInv, Live, NoRow
  <2>2. last \in Nat /\ t \in Nat /\ t > last /\ s # t /\ t \notin held
    BY <2>0, <2>1 DEF IInv, TypeOK, IdInv, Session
  <2>3. /\ session'[t] = LiveRow(session[s].user, req[r].now)
        /\ session'[s] = [session[s] EXCEPT !.state = "rotated",
                                            !.revokedAt = req[r].now, !.next = t]
        /\ \A x \in Session : x # s /\ x # t => session'[x] = session[x]
        /\ session' = [x \in Session |-> session'[x]]
    BY <1>7, <2>0, <2>1, <2>2 DEF RefreshCommit, IInv, TypeOK
  <2>4. session'[t] \in Row
    BY <2>1, <2>3 DEF LiveRow, Row, IInv, TypeOK, Request
  <2>5. session'[s] \in Row /\ session'[s].state = "rotated"
    <3>1. req[r].now \in Nat
      BY DEF IInv, TypeOK, Request
    <3> QED BY <2>0, <2>1, <2>3, <3>1 DEF Row
  <2>6. /\ req'[r] \in Request /\ req'[r].at = "reply" /\ req'[r].new = t
        /\ \A q \in Req : q # r => req'[q] = req[q]
        /\ req' = [q \in Req |-> req'[q]]
    BY <1>7, <2>0 DEF RefreshCommit, IInv, TypeOK, Request, Phase
  <2>7. /\ holder' \in [Session -> Req \cup {NoReq}]
        /\ \A x \in Session : holder[x] = r => holder'[x] = NoReq
        /\ \A x \in Session : holder[x] # r => holder'[x] = holder[x]
    BY <1>7 DEF RefreshCommit, IInv, TypeOK, Release
  <2>8. /\ root' \in [Session -> Session \cup {NoSession}]
        /\ root'[t] = root[s]
        /\ \A x \in Session : x # t => root'[x] = root[x]
    BY <1>7, <2>0, <2>1 DEF RefreshCommit, IInv, TypeOK
  <2>9. TypeOK'
    <3>1. session' \in [Session -> Row \cup {NoRow}]
      BY <2>3, <2>4, <2>5 DEF IInv, TypeOK
    <3>2. req' \in [Req -> Request]
      BY <2>6 DEF IInv, TypeOK
    <3>3. accessExp' \in [Session -> Nat]
      BY <1>7 DEF RefreshCommit, IInv, TypeOK
    <3>4. last' \in 0..MaxSessions
      BY <2>0, <2>2 DEF Session
    <3> QED BY <2>0, <2>7, <2>8, <3>1, <3>2, <3>3, <3>4 DEF IInv, TypeOK
  <2>10. LockInv'
    <3>1. ASSUME NEW q \in Req, req'[q].at = "rotate"
          PROVE  /\ req'[q].tok \in held'
                 /\ holder'[req'[q].tok] = q
                 /\ Live(req[q].tok)'
      <4>1. q # r /\ req'[q] = req[q]
        BY <2>6, <3>1
      <4>2. /\ req[q].tok \in held /\ holder[req[q].tok] = q /\ Live(req[q].tok)
            /\ holder[s] = r
        BY <2>0, <3>1, <4>1 DEF IInv, LockInv
      <4>3. req[q].tok \in Session /\ req[q].tok # s /\ req[q].tok # t
        BY <2>2, <4>1, <4>2 DEF IInv, TypeOK
      <4> QED BY <2>0, <2>3, <2>7, <4>1, <4>2, <4>3 DEF Live
    <3>2. ASSUME NEW x \in Session, holder'[x] # NoReq
          PROVE  req'[holder'[x]].at = "rotate" /\ req'[holder'[x]].tok = x
      <4>1. holder'[x] = holder[x] /\ holder[x] \in Req /\ holder[x] # r
        BY <2>7, <3>2 DEF IInv, TypeOK
      <4> QED BY <2>6, <3>2, <4>1 DEF IInv, LockInv
    <3> QED BY <3>1, <3>2 DEF LockInv
  <2>11. IdInv'
    <3>1. \A x \in Session : x > t => session'[x] = NoRow
      BY <2>1, <2>2, <2>3 DEF IInv, IdInv, Session
    <3>2. \A x \in Session : root'[x] \in 0..t
      BY <2>1, <2>2, <2>8 DEF IInv, IdInv
    <3>3. ASSUME NEW q \in Req, req'[q].at \in {"issue", "reply"}
          PROVE  req'[q].new \in Session /\ req'[q].new <= t
      <4>1. CASE q = r
        BY <2>0, <2>2, <2>6, <4>1
      <4>2. CASE q # r
        BY <2>2, <2>6, <3>3, <4>2 DEF IInv, IdInv, Session
      <4> QED BY <4>1, <4>2
    <3>4. \A x \in held : x <= t
      BY <2>2 DEF IInv, TypeOK, IdInv, Session
    <3>5. \A x \in Session : session'[x] # NoRow => root'[x] \in Session
      <4>1. root[s] \in Session
        BY <2>1 DEF IInv, IdInv
      <4> QED BY <2>1, <2>3, <2>8, <4>1 DEF IInv, IdInv
    <3> QED BY <2>0, <3>1, <3>2, <3>3, <3>4, <3>5 DEF IdInv
  <2>12. PrivateInv'
    <3>1. \A q \in Req : req[q].at \in {"issue", "reply"} => req[q].new # t
      BY <2>2 DEF IInv, IdInv, Session
    <3>2. \A q \in Req : req[q].at = "issue" => req[q].new # s /\ req[q].new \in Session
      BY <2>1 DEF IInv, PrivateInv, IdInv
    <3>3. \A q \in Req : req'[q].at = "issue" => Live(req[q].new)'
      BY <2>3, <2>6, <3>1, <3>2 DEF IInv, PrivateInv, Live
    <3> QED BY <2>0, <2>2, <2>6, <3>1, <3>3 DEF IInv, PrivateInv, Live
  <2>13. OneSessionPerLogin'
    <3>1. Unrotated(s) /\ \A x \in Session : x = s => ~Unrotated(x)'
      BY <2>1, <2>5 DEF Unrotated, Live
    <3>2. \A x \in Session : x # s /\ x # t => (Unrotated(x)' <=> Unrotated(x))
      BY <2>3 DEF Unrotated
    <3>3. SUFFICES ASSUME NEW x \in Session, NEW y \in Session,
                          Unrotated(x)', Unrotated(y)', root'[x] = root'[y]
                   PROVE  x = y
      BY DEF OneSessionPerLogin
    <3>4. x # s /\ y # s
      BY <3>1, <3>3
    <3>5. CASE x = t /\ y # t
      BY <2>1, <2>8, <3>1, <3>2, <3>3, <3>4, <3>5 DEF IInv, OneSessionPerLogin
    <3>6. CASE x # t /\ y = t
      BY <2>1, <2>8, <3>1, <3>2, <3>3, <3>4, <3>6 DEF IInv, OneSessionPerLogin
    <3>7. CASE x # t /\ y # t
      BY <2>8, <3>2, <3>3, <3>4, <3>7 DEF IInv, OneSessionPerLogin
    <3> QED BY <3>5, <3>6, <3>7
  <2> QED BY <2>9, <2>10, <2>11, <2>12, <2>13 DEF IInv
<1>8. ASSUME NEW r \in Req, RefreshAbort(r) \/ Disconnect(r) PROVE IInv'
  <2> USE <1>8 DEF RefreshAbort, Disconnect, tables, Finish, Idle
  <2>a. /\ holder' \in [Session -> Req \cup {NoReq}]
        /\ \A x \in Session : holder[x] = r => holder'[x] = NoReq
        /\ \A x \in Session : holder[x] # r => holder'[x] = holder[x]
    BY DEF IInv, TypeOK, Release
  <2>b. Idle \in Request
    BY DEF Request, Phase, NoSession
  <2>1. TypeOK'
    BY <2>a, <2>b DEF IInv, TypeOK
  <2>2. LockInv'
    <3>1. \A q \in Req : req'[q].at = "rotate" => q # r /\ req'[q] = req[q]
      BY DEF IInv, TypeOK
    <3>2. \A x \in Session : holder'[x] # NoReq => holder[x] \in Req \ {r}
      BY <2>a DEF IInv, TypeOK
    <3> QED BY <2>a, <3>1, <3>2 DEF IInv, TypeOK, LockInv, Live
  <2>3. IdInv'
    BY DEF IInv, TypeOK, IdInv
  <2>4. PrivateInv'
    BY DEF IInv, TypeOK, PrivateInv, Live
  <2>5. OneSessionPerLogin'
    BY DEF IInv, OneSessionPerLogin, Unrotated
  <2> QED BY <2>1, <2>2, <2>3, <2>4, <2>5 DEF IInv
<1>9. ASSUME NEW r \in Req, Reply(r) PROVE IInv'
  <2> USE <1>9 DEF Reply, tables, Finish, Idle
  <2>1. TypeOK'
    BY DEF IInv, TypeOK, Request, Phase, NoSession, IdInv
  <2>2. LockInv'
    BY DEF IInv, TypeOK, LockInv, Live
  <2>3. IdInv'
    BY DEF IInv, TypeOK, IdInv
  <2>4. PrivateInv'
    BY DEF IInv, TypeOK, PrivateInv, Live
  <2>5. OneSessionPerLogin'
    BY DEF IInv, OneSessionPerLogin, Unrotated
  <2> QED BY <2>1, <2>2, <2>3, <2>4, <2>5 DEF IInv
<1>10. ASSUME NEW r \in Req, NEW s \in Session, LogoutBegin(r, s) PROVE IInv'
  <2> USE <1>10 DEF LogoutBegin, tables, Idle
  <2>1. TypeOK'
    BY DEF IInv, TypeOK, Request, Phase, NoSession
  <2>2. LockInv'
    BY DEF IInv, TypeOK, LockInv, Live
  <2>3. IdInv'
    BY DEF IInv, TypeOK, IdInv
  <2>4. PrivateInv'
    BY DEF IInv, TypeOK, PrivateInv, Live
  <2>5. OneSessionPerLogin'
    BY DEF IInv, OneSessionPerLogin, Unrotated
  <2> QED BY <2>1, <2>2, <2>3, <2>4, <2>5 DEF IInv
<1>11. ASSUME NEW r \in Req, RevokeSessionLogout(r) PROVE IInv'
  <2> USE <1>11 DEF RevokeSessionLogout, Finish, Idle, Unlocked
  <2>0. req[r].tok \in Session
    BY DEF IInv, TypeOK, PrivateInv, Live
  <2>1. TypeOK'
    BY <2>0 DEF IInv, TypeOK, Request, Phase, NoSession, Row, NoRow, Live
  <2>2. LockInv'
    BY <2>0 DEF IInv, TypeOK, LockInv, Live
  <2>3. IdInv'
    BY <2>0 DEF IInv, TypeOK, IdInv, NoRow, Live
  <2>4. PrivateInv'
    <3>1. \A q \in Req : q # r => req'[q] = req[q]
      BY DEF IInv, TypeOK
    <3>2. \A q \in Req : req[q].at = "issue" => q # r /\ req[q].new # req[r].tok
      BY DEF IInv, TypeOK, PrivateInv, NoSession, Session
    <3>3. \A q \in Req : req[q].at = "issue" => session'[req[q].new] = session[req[q].new]
      BY <2>0, <3>2 DEF IInv, TypeOK, IdInv
    <3>4. req'[r] = Idle /\ held' = held
      BY DEF IInv, TypeOK
    <3> HIDE <1>11
    <3> QED BY <3>1, <3>3, <3>4 DEF IInv, PrivateInv, Live
  <2>5. OneSessionPerLogin'
    BY <2>0 DEF IInv, TypeOK, OneSessionPerLogin, Unrotated, Live, NoRow
  <2> QED BY <2>1, <2>2, <2>3, <2>4, <2>5 DEF IInv
<1>12. CASE Tick
  BY <1>12 DEF Tick, tables, IInv, TypeOK, LockInv, IdInv, PrivateInv,
               OneSessionPerLogin, Unrotated, Live
<1>13. CASE UNCHANGED vars
  BY <1>13 DEF vars, IInv, TypeOK, LockInv, IdInv, PrivateInv,
               OneSessionPerLogin, Unrotated, Live
<1> QED
  BY <1>1, <1>2, <1>3, <1>4, <1>5, <1>6, <1>7, <1>8, <1>9, <1>10, <1>11, <1>12, <1>13
  DEF Next, Handle, RefreshSelect

\* The inductive invariant of AuthSession.
THEOREM Inductive == Spec => []IInv
<1>1. Init => IInv
  BY InitIInv
<1>2. IInv /\ [Next]_vars => IInv'
  BY NextIInv
<1> QED BY <1>1, <1>2, PTL DEF Spec

\* Type correctness of the session store and its requests.
THEOREM TypeCorrect == Spec => []TypeOK
<1>1. IInv => TypeOK
  BY DEF IInv
<1> QED BY <1>1, Inductive, PTL

\* However many refreshes, logouts, failures and disconnections interleave,
\* a login has at most one session that was not rotated away.
THEOREM OneSession == Spec => []OneSessionPerLogin
<1>1. IInv => OneSessionPerLogin
  BY DEF IInv
<1> QED BY <1>1, Inductive, PTL
-----------------------------------------------------------------------------
LEMMA RevocationStep == IInv /\ [Next]_vars => [RevokedRowsKept]_session
<1> USE AuthSessionAssumption
<1> SUFFICES ASSUME IInv, Next, NEW s \in Session, session[s] # NoRow, ~Live(s)
             PROVE  session'[s] = session[s]
  BY DEF RevokedRowsKept, vars
<1>1. ASSUME NEW r \in Req, NEW u \in User, InsertAuthSession(r, u)
      PROVE  session'[s] = session[s]
  BY <1>1 DEF InsertAuthSession, IInv, TypeOK, IdInv, Session
<1>2. ASSUME NEW r \in Req, LoginIssueFails(r) PROVE session'[s] = session[s]
  BY <1>2 DEF LoginIssueFails, IInv, TypeOK, PrivateInv
<1>3. ASSUME NEW r \in Req, RefreshCommit(r) PROVE session'[s] = session[s]
  <2>1. s # req[r].tok
    BY <1>3 DEF RefreshCommit, IInv, LockInv
  <2>2. last \in Nat /\ s <= last /\ s \in Nat
    BY DEF IInv, TypeOK, IdInv, Session
  <2>3. s # last + 1
    BY <2>2
  <2> QED BY <1>3, <2>1, <2>3 DEF RefreshCommit, IInv, TypeOK
<1>4. ASSUME NEW r \in Req, RevokeSessionLogout(r) PROVE session'[s] = session[s]
  BY <1>4 DEF RevokeSessionLogout, IInv, TypeOK
<1>5. ASSUME NEW r \in Req,
             \/ LoginIssue(r) \/ RefreshSelect(r) \/ RefreshAbort(r) \/ Reply(r)
             \/ Disconnect(r)
             \/ \E x \in Session \cup {NoSession} : RefreshBegin(r, x)
             \/ \E x \in Session : LogoutBegin(r, x)
      PROVE  session'[s] = session[s]
  BY <1>5 DEF LoginIssue, RefreshSelect, RefreshUnknown, RefreshRejected, RefreshAccepted,
              RefreshAbort, Reply, Disconnect, RefreshBegin, LogoutBegin, tables
<1>6. CASE Tick
  BY <1>6 DEF Tick, tables
<1> QED BY <1>1, <1>2, <1>3, <1>4, <1>5, <1>6 DEF Next, Handle

\* A row that was revoked is never written again, whatever else runs.
THEOREM RevocationFinal == Spec => RevocationIsFinal
<1>1. IInv /\ [Next]_vars => [RevokedRowsKept]_session
  BY RevocationStep
<1> QED BY <1>1, Inductive, PTL DEF Spec, RevocationIsFinal

-----------------------------------------------------------------------------
(* Chains, tokens and time: what holds of the rows that a login leads to,    *)
(* proved on top of IInv.                                                    *)

\* A row that is being rotated has not expired when that began.
RotatingInTime ==
    \A r \in Req : req[r].at = "rotate" => req[r].now < session[req[r].tok].expires

\* The row a login may still delete heads a chain of its own, of one row.
IssuedAlone ==
    \A r \in Req : req[r].at = "issue" =>
        \A s \in Session : /\ session[s] # NoRow => session[s].next # req[r].new
                           /\ root[s] = root[req[r].new] => s = req[r].new

\* A reply that is on its way carries what TokensAreBacked says of its arrival.
ReplyBacked ==
    \A r \in Req : req[r].at = "reply" =>
        session[req[r].new] # NoRow /\ accessExp[req[r].new] > 0

\* No access token outlives this instant by more than AccessTTL; and the chain
\* of a row about to be logged out gets none that outlives the logout by more.
TokensAge ==
    /\ \A s \in Session : accessExp[s] <= clock + AccessTTL
    /\ \A r \in Req : req[r].at = "logout" /\ Live(req[r].tok) =>
          \A t \in Session : root[t] = root[req[r].tok] =>
             accessExp[t] <= req[r].now + AccessTTL

ChainInv == /\ RotationChain
            /\ TokensAreBacked
            /\ AccessEndsAfterLogout
            /\ RotatingInTime
            /\ IssuedAlone
            /\ ReplyBacked
            /\ TokensAge

LEMMA InitChain == Init => ChainInv
BY AuthSessionAssumption
DEF Init, ChainInv, RotationChain, TokensAreBacked, AccessEndsAfterLogout, RotatingInTime,
    IssuedAlone, ReplyBacked, TokensAge, Idle, NoRow

\* A step that changes no row, no token and no clock, and lets one request go
\* from one phase to another.
LEMMA QuietStep ==
    ASSUME IInv, ChainInv, NEW r \in Req, UNCHANGED <<session, root, clock, accessExp>>,
           \A q \in Req : q # r => req'[q] = req[q],
           req'[r].at \in {"idle", "select", "rotate", "logout", "reply"},
           req'[r].at = "rotate" => req'[r].now < session[req'[r].tok].expires,
           req'[r].at = "reply" =>
               session[req'[r].new] # NoRow /\ accessExp[req'[r].new] > 0,
           req'[r].at = "logout" => \A t \in Session : accessExp[t] <= req'[r].now + AccessTTL,
           \A s \in held' : session[s] # NoRow /\ accessExp[s] > 0
    PROVE  ChainInv'
<1>1. RotationChain' /\ TokensAreBacked' /\ AccessEndsAfterLogout'
  BY DEF ChainInv, RotationChain, TokensAreBacked, AccessEndsAfterLogout
<1>2. RotatingInTime'
  BY DEF ChainInv, RotatingInTime
<1>3. IssuedAlone'
  BY DEF ChainInv, IssuedAlone
<1>4. ReplyBacked'
  BY DEF ChainInv, ReplyBacked
<1>5. TokensAge'
  BY DEF ChainInv, TokensAge, Live
<1> QED
  BY <1>1, <1>2, <1>3, <1>4, <1>5 DEF ChainInv

LEMMA QuietSteps ==
    ASSUME IInv, ChainInv, NEW r \in Req,
           \/ \E s \in Session \cup {NoSession} : RefreshBegin(r, s)
           \/ \E s \in Session : LogoutBegin(r, s)
           \/ RefreshSelect(r) \/ RefreshAbort(r) \/ Reply(r) \/ Disconnect(r)
    PROVE  ChainInv'
<1>1. \A q \in Req : q # r => req'[q] = req[q]
  BY DEF RefreshBegin, LogoutBegin, RefreshSelect, RefreshUnknown, RefreshRejected,
         RefreshAccepted, RefreshAbort, Reply, Disconnect, Finish, IInv, TypeOK
<1>2. UNCHANGED <<session, root, clock, accessExp>>
  BY DEF RefreshBegin, LogoutBegin, RefreshSelect, RefreshUnknown, RefreshRejected,
         RefreshAccepted, RefreshAbort, Reply, Disconnect, tables
<1>3. /\ req[r] \in Request
      /\ \A s \in held : session[s] # NoRow /\ accessExp[s] > 0
      /\ \A t \in Session : accessExp[t] <= clock + AccessTTL
  BY DEF IInv, TypeOK, ChainInv, TokensAreBacked, TokensAge
<1>4. ASSUME NEW s \in Session \cup {NoSession}, RefreshBegin(r, s) PROVE ChainInv'
  <2>1. req'[r].at = "select" /\ held' = held
    BY <1>4 DEF RefreshBegin, Idle, IInv, TypeOK
  <2> QED
    BY <1>1, <1>2, <1>3, <2>1, QuietStep
<1>5. ASSUME NEW s \in Session, LogoutBegin(r, s) PROVE ChainInv'
  <2>1. req'[r].at = "logout" /\ req'[r].now = clock /\ held' = held
    BY <1>5 DEF LogoutBegin, Idle, IInv, TypeOK
  <2> QED
    BY <1>1, <1>2, <1>3, <2>1, QuietStep
<1>6. CASE RefreshAccepted(r)
  <2>1. /\ req'[r].at = "rotate" /\ req'[r].tok = req[r].tok /\ req'[r].now = clock
        /\ held' = held /\ session[req[r].tok].expires > clock
    BY <1>3, <1>6 DEF RefreshAccepted, IInv, TypeOK, Request
  <2>2. session[req[r].tok] \in Row /\ clock \in Nat
    BY <1>3, <1>6 DEF RefreshAccepted, Live, NoRow, IInv, TypeOK, Request
  <2>3. clock < session[req[r].tok].expires
    BY <2>1, <2>2 DEF Row
  <2> QED
    BY <1>1, <1>2, <1>3, <2>1, <2>3, QuietStep
<1>7. CASE RefreshUnknown(r) \/ RefreshRejected(r) \/ RefreshAbort(r) \/ Disconnect(r)
  <2>1. req'[r].at = "idle" /\ held' = held
    BY <1>7 DEF RefreshUnknown, RefreshRejected, RefreshAbort, Disconnect, Finish, Idle,
                IInv, TypeOK
  <2> QED
    BY <1>1, <1>2, <1>3, <2>1, QuietStep
<1>8. CASE Reply(r)
  <2>1. req'[r].at = "idle" /\ held' = held \cup {req[r].new} /\ req[r].at = "reply"
    BY <1>8 DEF Reply, Finish, Idle, IInv, TypeOK
  <2>2. session[req[r].new] # NoRow /\ accessExp[req[r].new] > 0
    BY <2>1 DEF ChainInv, ReplyBacked
  <2> QED
    BY <1>1, <1>2, <1>3, <2>1, <2>2, QuietStep
<1> QED
  BY <1>4, <1>5, <1>6, <1>7, <1>8 DEF RefreshSelect

\* A row with a successor knows it under an id that was generated.
LEMMA Successors ==
    ASSUME IInv, RotationChain, NEW s \in Session, session[s] # NoRow
    PROVE  /\ session[s] \in Row
           /\ session[s].next # NoSession => session[s].next \in 1..last
           /\ s \in 1..last
<1>1. session[s] \in Row /\ session[s].next \in Session \cup {NoSession}
      /\ last \in 0..MaxSessions
  BY DEF IInv, TypeOK, Row
<1>2. \A x \in Session : session[x] # NoRow => x <= last
  BY <1>1, AuthSessionAssumption DEF IInv, IdInv, Session
<1>3. session[s].next # NoSession => session[session[s].next] # NoRow
  BY DEF RotationChain
<1> QED
  BY <1>1, <1>2, <1>3 DEF Session

LEMMA InsertChain ==
    ASSUME IInv, ChainInv, NEW r \in Req, NEW u \in User, InsertAuthSession(r, u)
    PROVE  ChainInv'
<1> DEFINE new == last + 1
<1>1. /\ new \in Session /\ last \in Nat /\ new \notin 1..last /\ new # NoSession
      /\ session[new] = NoRow /\ new \notin held /\ accessExp[new] \in Nat
  BY AuthSessionAssumption
  DEF InsertAuthSession, IInv, TypeOK, IdInv, Session, NoSession
<1>2. /\ session'[new] = LiveRow(u, clock) /\ root'[new] = new
      /\ \A s \in Session : s # new => session'[s] = session[s] /\ root'[s] = root[s]
      /\ UNCHANGED <<clock, held, accessExp>>
  BY <1>1 DEF InsertAuthSession, IInv, TypeOK
<1>3. /\ req'[r].at = "issue" /\ req'[r].new = new
      /\ \A q \in Req : q # r => req'[q] = req[q]
  BY DEF InsertAuthSession, Idle, IInv, TypeOK
<1>4. /\ session'[new].state = "live" /\ session'[new].next = NoSession
      /\ session'[new] # NoRow
  BY <1>2 DEF LiveRow, NoRow
<1>5. \A s \in Session : session[s] # NoRow =>
         /\ s # new /\ session[s] \in Row
         /\ session[s].next # NoSession => session[s].next \in Session \ {new}
         /\ session[s].next # new
  <2>1. 1..last \subseteq Session
    BY <1>1, AuthSessionAssumption DEF Session
  <2>2. \A s \in Session : session[s] # NoRow =>
           /\ session[s] \in Row /\ s \in 1..last
           /\ session[s].next # NoSession => session[s].next \in 1..last
    BY Successors DEF ChainInv
  <2> HIDE DEF new
  <2> QED
    BY <1>1, <2>1, <2>2
<1>6. \A s \in Session : root[s] # new
  BY <1>1 DEF IInv, IdInv
<1> HIDE DEF new
<1>7. RotationChain'
  <2> SUFFICES ASSUME NEW s \in Session, session'[s] # NoRow
               PROVE  /\ session'[s].state = "rotated" <=> session'[s].next # NoSession
                      /\ session'[s].state = "rotated" =>
                          LET n == session'[s].next IN
                          /\ session'[n] # NoRow
                          /\ session'[n].user = session'[s].user /\ root'[n] = root'[s]
                          /\ session'[n].expires = session'[s].revokedAt + RefreshTTL
                          /\ session'[s].revokedAt < session'[s].expires
                          /\ \A t \in Session \ {s} :
                                session'[t] # NoRow => session'[t].next # n
    BY DEF RotationChain
  <2>1. CASE s = new
    BY <1>4, <2>1
  <2>2. CASE s # new
    <3>1. session'[s] = session[s] /\ root'[s] = root[s] /\ session[s] # NoRow
      BY <1>2, <2>2
    <3>2. CASE session[s].next = NoSession
      BY <3>1, <3>2 DEF ChainInv, RotationChain
    <3>3. CASE session[s].next # NoSession
      <4> DEFINE n == session[s].next
      <4>1. n \in Session /\ n # new /\ session'[n] = session[n] /\ root'[n] = root[n]
        BY <1>2, <1>5, <3>1, <3>3
      <4>2. \A t \in Session \ {s} : session'[t] # NoRow => session'[t].next # n
        BY <1>2, <1>4, <3>1, <3>3 DEF ChainInv, RotationChain
      <4> QED
        BY <3>1, <3>3, <4>1, <4>2 DEF ChainInv, RotationChain
    <3> QED
      BY <3>2, <3>3
  <2> QED
    BY <2>1, <2>2
<1>8. TokensAreBacked'
  BY <1>1, <1>2 DEF ChainInv, TokensAreBacked, IInv, TypeOK
<1>9. AccessEndsAfterLogout'
  BY <1>1, <1>2, <1>4, <1>6 DEF ChainInv, AccessEndsAfterLogout
<1>10. RotatingInTime'
  BY <1>1, <1>2, <1>3, RotatingRow DEF ChainInv, RotatingInTime, Live, NoRow, IInv, LockInv
<1>11. IssuedAlone'
  <2>1. \A q \in Req : q # r /\ req[q].at = "issue" => req[q].new # new /\ req[q].new \in Session
    BY <1>1 DEF IInv, IdInv, PrivateInv, Live, NoRow
  <2>2. ASSUME NEW q \in Req, req'[q].at = "issue", NEW s \in Session
        PROVE  /\ session'[s] # NoRow => session'[s].next # req'[q].new
               /\ root'[s] = root'[req'[q].new] => s = req'[q].new
    <3>1. CASE q = r
      BY <1>1, <1>2, <1>3, <1>4, <1>5, <1>6, <3>1
    <3>2. CASE q # r
      <4>1. req'[q] = req[q] /\ req[q].new \in Session /\ req[q].new # new
        BY <1>3, <2>1, <2>2, <3>2
      <4>2. req[q].new # NoSession
        BY <4>1 DEF Session, NoSession
      <4>3. root'[req[q].new] = root[req[q].new] /\ root[req[q].new] # new
        BY <1>2, <1>6, <4>1
      <4>4. CASE s = new
        BY <1>2, <1>4, <4>1, <4>2, <4>3, <4>4
      <4>5. CASE s # new
        BY <1>2, <2>2, <4>1, <4>3, <4>5 DEF ChainInv, IssuedAlone
      <4> QED
        BY <4>4, <4>5
    <3> QED
      BY <3>1, <3>2
  <2> QED
    BY <2>2 DEF IssuedAlone
<1>12. ReplyBacked'
  BY <1>1, <1>2, <1>3, <1>4 DEF ChainInv, ReplyBacked, IInv, IdInv
<1>13. TokensAge'
  <2>1. \A q \in Req : req'[q].at = "logout" =>
           /\ req'[q] = req[q] /\ req[q].tok \in held /\ req[q].tok \in Session
           /\ req[q].tok # new
    BY <1>1, <1>3 DEF IInv, PrivateInv, TypeOK
  <2> QED
    BY <1>1, <1>2, <1>6, <2>1 DEF ChainInv, TokensAge, Live
<1> QED
  BY <1>7, <1>8, <1>9, <1>10, <1>11, <1>12, <1>13 DEF ChainInv

LEMMA LoginIssueChain ==
    ASSUME IInv, ChainInv, NEW r \in Req, LoginIssue(r)
    PROVE  ChainInv'
<1> DEFINE new == req[r].new
<1>1. /\ new \in Session /\ new \notin held /\ Live(new) /\ session[new] # NoRow
      /\ req[r].at = "issue" /\ clock \in Nat
  BY DEF LoginIssue, IInv, TypeOK, IdInv, PrivateInv, Live, NoRow
<1>2. /\ accessExp'[new] = clock + AccessTTL /\ clock + AccessTTL > 0
      /\ \A s \in Session : s # new => accessExp'[s] = accessExp[s]
      /\ UNCHANGED <<session, root, clock, held>>
  BY <1>1, AuthSessionAssumption DEF LoginIssue, tables, IInv, TypeOK
<1>3. /\ req'[r].at = "reply" /\ req'[r].new = new
      /\ \A q \in Req : q # r => req'[q] = req[q]
  BY <1>1 DEF LoginIssue, IInv, TypeOK, Request
<1>4. \A s \in Session : root[s] = root[new] => s = new
  BY <1>1 DEF ChainInv, IssuedAlone
<1>5. \A q \in Req : req[q].at = "reply" => req[q].new \in Session /\ req[q].new # new
  BY <1>1 DEF IInv, IdInv, PrivateInv
<1> HIDE DEF new
<1>6. RotationChain'
  BY <1>2 DEF ChainInv, RotationChain
<1>7. TokensAreBacked'
  BY <1>1, <1>2 DEF ChainInv, TokensAreBacked, IInv, TypeOK
<1>8. AccessEndsAfterLogout'
  BY <1>1, <1>2, <1>4 DEF ChainInv, AccessEndsAfterLogout, Live
<1>9. RotatingInTime' /\ IssuedAlone'
  BY <1>2, <1>3 DEF ChainInv, RotatingInTime, IssuedAlone
<1>10. ReplyBacked'
  BY <1>1, <1>2, <1>3, <1>5 DEF ChainInv, ReplyBacked
<1>11. TokensAge'
  <2>1. \A q \in Req : req'[q].at = "logout" =>
           /\ req'[q] = req[q] /\ req[q].tok \in Session
           /\ root[req[q].tok] # root[new]
    BY <1>1, <1>3, <1>4 DEF IInv, PrivateInv, TypeOK
  <2>2. \A s \in Session : accessExp'[s] <= clock' + AccessTTL
    BY <1>1, <1>2, AuthSessionAssumption DEF ChainInv, TokensAge
  <2>3. \A q \in Req : req'[q].at = "logout" /\ Live(req[q].tok) =>
           \A t \in Session : root[t] = root[req[q].tok] =>
              accessExp'[t] <= req'[q].now + AccessTTL
    BY <1>2, <2>1 DEF ChainInv, TokensAge
  <2> QED
    BY <1>2, <2>1, <2>2, <2>3 DEF TokensAge, Live
<1> QED
  BY <1>6, <1>7, <1>8, <1>9, <1>10, <1>11 DEF ChainInv

LEMMA LoginIssueFailsChain ==
    ASSUME IInv, ChainInv, NEW r \in Req, LoginIssueFails(r)
    PROVE  ChainInv'
<1> DEFINE new == req[r].new
<1>1. /\ new \in Session /\ new \notin held /\ req[r].at = "issue"
  BY DEF LoginIssueFails, IInv, IdInv, PrivateInv
<1>2. /\ \A s \in Session : s # new => session'[s] = session[s]
      /\ session'[new] = session[new] \/ session'[new] = NoRow
      /\ UNCHANGED <<root, clock, held, accessExp>>
  BY <1>1 DEF LoginIssueFails, IInv, TypeOK
<1>3. /\ req'[r].at = "idle"
      /\ \A q \in Req : q # r => req'[q] = req[q]
  BY DEF LoginIssueFails, Finish, Idle, IInv, TypeOK
<1>4. /\ \A s \in Session : session[s] # NoRow => session[s].next # new
      /\ \A s \in Session : root[s] = root[new] => s = new
  BY <1>1 DEF ChainInv, IssuedAlone
<1>5. \A q \in Req : req[q].at = "reply" => req[q].new \in Session /\ req[q].new # new
  BY <1>1 DEF IInv, IdInv, PrivateInv
<1> HIDE DEF new
<1>6. RotationChain'
  <2>1. ASSUME NEW s \in Session, session'[s] # NoRow
        PROVE  session'[s] = session[s] /\ session[s] # NoRow
    BY <1>2, <2>1
  <2>2. ASSUME NEW s \in Session, session[s] # NoRow, session[s].state = "rotated"
        PROVE  session'[session[s].next] = session[session[s].next]
    <3>1. session[s].next \in Session
      BY <2>2, Successors DEF ChainInv, RotationChain, Row
    <3> QED
      BY <1>2, <1>4, <2>2, <3>1
  <2> QED
    BY <1>2, <2>1, <2>2 DEF ChainInv, RotationChain
<1>7. TokensAreBacked'
  BY <1>1, <1>2 DEF ChainInv, TokensAreBacked, IInv, TypeOK
<1>8. AccessEndsAfterLogout'
  BY <1>2 DEF ChainInv, AccessEndsAfterLogout
<1>9. RotatingInTime'
  BY <1>1, <1>2, <1>3, RotatingRow DEF ChainInv, RotatingInTime, IInv, LockInv
<1>10. IssuedAlone'
  BY <1>2, <1>3 DEF ChainInv, IssuedAlone
<1>11. ReplyBacked'
  BY <1>1, <1>2, <1>3, <1>5 DEF ChainInv, ReplyBacked
<1>12. TokensAge'
  <2>1. \A q \in Req : req'[q].at = "logout" =>
           /\ req'[q] = req[q] /\ req[q].tok \in Session /\ req[q].tok # new
    BY <1>1, <1>3 DEF IInv, PrivateInv, TypeOK
  <2> QED
    BY <1>2, <2>1 DEF ChainInv, TokensAge, Live
<1> QED
  BY <1>6, <1>7, <1>8, <1>9, <1>10, <1>11, <1>12 DEF ChainInv

LEMMA LogoutChain ==
    ASSUME IInv, ChainInv, NEW r \in Req, RevokeSessionLogout(r)
    PROVE  ChainInv'
<1> DEFINE s == req[r].tok
<1>1. /\ s \in Session /\ s \in held /\ req[r].at = "logout" /\ Unlocked(s)
      /\ session[s] \in Row
  BY DEF RevokeSessionLogout, IInv, TypeOK, PrivateInv, ChainInv, TokensAreBacked
<1>2. /\ req'[r].at = "idle"
      /\ \A q \in Req : q # r => req'[q] = req[q]
      /\ UNCHANGED <<root, clock, held, accessExp>>
  BY DEF RevokeSessionLogout, Finish, Idle, IInv, TypeOK
<1>3. CASE ~Live(s)
  <2>1. UNCHANGED <<session, root, clock, accessExp>>
    BY <1>3 DEF RevokeSessionLogout
  <2> QED
    BY <1>2, <2>1, QuietStep DEF ChainInv, TokensAreBacked
<1>4. CASE Live(s)
  <2>1. /\ \A x \in Session : x # s => session'[x] = session[x]
        /\ session'[s] = [session[s] EXCEPT !.state = "logout", !.revokedAt = req[r].now]
    BY <1>1, <1>4 DEF RevokeSessionLogout, IInv, TypeOK
  <2>2. /\ session'[s].state = "logout" /\ session'[s].revokedAt = req[r].now
        /\ session'[s].user = session[s].user /\ session'[s].expires = session[s].expires
        /\ session'[s].next = session[s].next /\ session'[s] # NoRow
    <3> HIDE DEF s
    <3> QED
      BY <1>1, <2>1 DEF Row, NoRow
  <2>3. session[s].state = "live" /\ session[s].next = NoSession /\ session[s] # NoRow
    BY <1>1, <1>4 DEF Live, ChainInv, RotationChain, NoRow
  <2>4. \A t \in Session : root[t] = root[s] => accessExp[t] <= req[r].now + AccessTTL
    BY <1>1, <1>4 DEF ChainInv, TokensAge
  <2>5. /\ \A q \in Req : req[q].at = "rotate" => req[q].tok \in Session /\ req[q].tok # s
        /\ \A q \in Req : req[q].at = "issue" => req[q].new \in Session /\ req[q].new # s
        /\ \A q \in Req : req[q].at = "reply" => req[q].new \in Session /\ req[q].new # s
    BY <1>1, RotatingRow, AuthSessionAssumption DEF Unlocked, IInv, TypeOK, LockInv, IdInv, PrivateInv
  <2> HIDE DEF s
  <2>6. RotationChain'
    <3>1. \A x \in Session : /\ session'[x].next = session[x].next
                             /\ session'[x].user = session[x].user
                             /\ session'[x].expires = session[x].expires
                             /\ session'[x] # NoRow <=> session[x] # NoRow
                             /\ session'[x].state = "rotated" <=> session[x].state = "rotated"
                             /\ session[x].state = "rotated" =>
                                   session'[x].revokedAt = session[x].revokedAt
      BY <2>1, <2>2, <2>3
    <3>2. \A x \in Session : session[x] # NoRow /\ session[x].state = "rotated" =>
             session[x].next \in Session
      BY Successors DEF ChainInv, RotationChain, Row
    <3> QED
      BY <1>2, <3>1, <3>2 DEF ChainInv, RotationChain
  <2>7. TokensAreBacked'
    BY <1>2, <2>1, <2>2 DEF ChainInv, TokensAreBacked, IInv, TypeOK
  <2>8. AccessEndsAfterLogout'
    BY <1>2, <2>1, <2>2, <2>4 DEF ChainInv, AccessEndsAfterLogout
  <2>9. RotatingInTime'
    BY <1>2, <2>1, <2>5 DEF ChainInv, RotatingInTime
  <2>10. IssuedAlone'
    <3>1. \A x \in Session : session'[x] # NoRow =>
             session[x] # NoRow /\ session'[x].next = session[x].next
      BY <2>1, <2>2, <2>3
    <3>2. \A q \in Req : req'[q].at = "issue" => req'[q] = req[q]
      BY <1>2
    <3> QED
      BY <1>2, <3>1, <3>2 DEF ChainInv, IssuedAlone
  <2>11. ReplyBacked'
    BY <1>2, <2>1, <2>5 DEF ChainInv, ReplyBacked
  <2>12. TokensAge'
    <3>1. \A q \in Req : req'[q].at = "logout" => req'[q] = req[q] /\ req[q].tok \in Session
      BY <1>2 DEF IInv, PrivateInv, TypeOK
    <3>2. \A x \in Session : Live(x)' => Live(x)
      BY <2>1, <2>2 DEF Live
    <3> QED
      BY <1>2, <3>1, <3>2 DEF ChainInv, TokensAge
  <2> QED
    BY <2>6, <2>7, <2>8, <2>9, <2>10, <2>11, <2>12 DEF ChainInv
<1> QED
  BY <1>3, <1>4

LEMMA RotationChainStep ==
    ASSUME IInv, ChainInv, NEW r \in Req, RefreshCommit(r)
    PROVE  ChainInv'
<1> DEFINE old == req[r].tok
           new == last + 1
           now == req[r].now
<1>1. /\ req[r].at = "rotate" /\ new \in Session /\ old \in Session
      /\ session[old] \in Row /\ session[old] # NoRow /\ old \in held /\ Live(old)
      /\ holder[old] = r /\ now < session[old].expires
      /\ now \in Nat /\ clock \in Nat
  BY RotatingRow
  DEF RefreshCommit, IInv, TypeOK, LockInv, Request, ChainInv, TokensAreBacked, RotatingInTime
<1>2. /\ last \in Nat /\ new \notin 1..last /\ new # NoSession /\ new # old
      /\ session[new] = NoRow /\ new \notin held
  <2>1. last \in Nat /\ old <= last
    BY <1>1, RotatingRow DEF IInv, TypeOK
  <2>2. new \notin 1..last /\ new > last /\ new # NoSession /\ new # old
    BY <1>1, <2>1, AuthSessionAssumption DEF Session, NoSession
  <2>3. \A s \in held : s <= last /\ s \in 1..MaxSessions
    BY DEF IInv, TypeOK, IdInv, Session
  <2> QED
    BY <1>1, <2>1, <2>2, <2>3, AuthSessionAssumption DEF IInv, IdInv
<1>3. /\ session'[new] = LiveRow(session[old].user, now)
      /\ session'[old] = [session[old] EXCEPT !.state = "rotated", !.revokedAt = now,
                                              !.next = new]
      /\ \A s \in Session : s # old /\ s # new => session'[s] = session[s]
      /\ root'[new] = root[old] /\ \A s \in Session : s # new => root'[s] = root[s]
      /\ accessExp'[new] = clock + AccessTTL
      /\ \A s \in Session : s # new => accessExp'[s] = accessExp[s]
      /\ UNCHANGED <<clock, held>>
  BY <1>1, <1>2 DEF RefreshCommit, IInv, TypeOK
<1>4. /\ req'[r].at = "reply" /\ req'[r].new = new
      /\ \A q \in Req : q # r => req'[q] = req[q]
  BY <1>1 DEF RefreshCommit, IInv, TypeOK, Request
<1> HIDE DEF old, new, now
<1>5. /\ session'[new].state = "live" /\ session'[new].next = NoSession
      /\ session'[new].user = session[old].user
      /\ session'[new].expires = now + RefreshTTL /\ session'[new] # NoRow
  BY <1>3 DEF LiveRow, NoRow
<1>6. /\ session'[old].state = "rotated" /\ session'[old].next = new
      /\ session'[old].revokedAt = now /\ session'[old].user = session[old].user
      /\ session'[old].expires = session[old].expires /\ session'[old] # NoRow
  BY <1>1, <1>3 DEF Row, NoRow
<1>7. \A s \in Session : session[s] # NoRow =>
         /\ s # new /\ session[s].next # new
         /\ session[s].state = "rotated" => session[s].next \in Session \ {new}
  <2>1. 1..last \subseteq Session
    BY <1>1, <1>2, AuthSessionAssumption DEF Session, IInv, TypeOK
  <2>2. \A s \in Session : session[s] # NoRow =>
           /\ s \in 1..last
           /\ session[s].next # NoSession => session[s].next \in 1..last
           /\ session[s].state = "rotated" => session[s].next # NoSession
    BY Successors DEF ChainInv, RotationChain
  <2> QED
    BY <1>2, <2>1, <2>2
<1>8. \A s \in Session : session'[s] # NoRow /\ s # new => session[s] # NoRow
  BY <1>1, <1>3
<1>9. RotationChain'
  <2> SUFFICES ASSUME NEW s \in Session, session'[s] # NoRow
               PROVE  /\ session'[s].state = "rotated" <=> session'[s].next # NoSession
                      /\ session'[s].state = "rotated" =>
                          LET n == session'[s].next IN
                          /\ session'[n] # NoRow
                          /\ session'[n].user = session'[s].user /\ root'[n] = root'[s]
                          /\ session'[n].expires = session'[s].revokedAt + RefreshTTL
                          /\ session'[s].revokedAt < session'[s].expires
                          /\ \A t \in Session \ {s} :
                                session'[t] # NoRow => session'[t].next # n
    BY DEF RotationChain
  <2>1. CASE s = new
    BY <1>5, <2>1
  <2>2. CASE s = old
    <3>1. \A t \in Session \ {old} : session'[t] # NoRow => session'[t].next # new
      BY <1>2, <1>3, <1>5, <1>7
    <3>2. root'[new] = root'[old]
      BY <1>1, <1>2, <1>3
    <3> QED
      BY <1>1, <1>2, <1>5, <1>6, <2>2, <3>1, <3>2
  <2>3. CASE s # old /\ s # new
    <3>1. session'[s] = session[s] /\ session[s] # NoRow /\ root'[s] = root[s]
      BY <1>3, <2>3
    <3>2. session[s].state = "rotated" <=> session[s].next # NoSession
      BY <3>1 DEF ChainInv, RotationChain
    <3>3. ASSUME session[s].state = "rotated"
          PROVE  LET n == session[s].next IN
                 /\ session'[n] # NoRow
                 /\ session'[n].user = session[s].user /\ root'[n] = root[s]
                 /\ session'[n].expires = session[s].revokedAt + RefreshTTL
                 /\ session[s].revokedAt < session[s].expires
                 /\ \A t \in Session \ {s} : session'[t] # NoRow => session'[t].next # n
      <4> DEFINE n == session[s].next
      <4>1. /\ n \in Session /\ n # new /\ session[n] # NoRow
            /\ session[n].user = session[s].user /\ root[n] = root[s]
            /\ session[n].expires = session[s].revokedAt + RefreshTTL
            /\ session[s].revokedAt < session[s].expires
            /\ \A t \in Session \ {s} : session[t] # NoRow => session[t].next # n
        BY <1>7, <3>1, <3>3 DEF ChainInv, RotationChain
      <4> HIDE DEF n
      <4>2. /\ session'[n] # NoRow /\ session'[n].user = session[n].user
            /\ session'[n].expires = session[n].expires /\ root'[n] = root[n]
        BY <1>3, <1>6, <4>1
      <4>3. \A t \in Session \ {s} : session'[t] # NoRow => session'[t].next # n
        <5>1. n # NoSession
          BY <4>1 DEF Session, NoSession
        <5> QED
          BY <1>3, <1>5, <1>6, <1>8, <4>1, <5>1
      <4> QED
        BY <4>1, <4>2, <4>3 DEF n
    <3> QED
      BY <3>1, <3>2, <3>3
  <2> QED
    BY <2>1, <2>2, <2>3
<1>10. TokensAreBacked'
  BY <1>1, <1>2, <1>3, <1>6 DEF ChainInv, TokensAreBacked, IInv, TypeOK
\* The chain's one end was live: no row of it was logged out.
<1>11. \A s \in Session : Unrotated(s) /\ root[s] = root[old] => s = old
  BY <1>1 DEF IInv, OneSessionPerLogin, Unrotated, Live
<1>12. AccessEndsAfterLogout'
  <2> SUFFICES ASSUME NEW s \in Session, NEW t \in Session, session'[s] # NoRow,
                      session'[s].state = "logout", root'[t] = root'[s]
               PROVE  accessExp'[t] <= session'[s].revokedAt + AccessTTL
    BY DEF AccessEndsAfterLogout
  <2>1. s # old /\ s # new /\ session'[s] = session[s] /\ root'[s] = root[s]
    BY <1>3, <1>5, <1>6
  <2>2. root[s] # root[old]
    BY <1>11, <2>1 DEF Unrotated
  <2>3. t # new /\ accessExp'[t] = accessExp[t] /\ root'[t] = root[t]
    BY <1>3, <2>1, <2>2
  <2> QED
    BY <2>1, <2>3 DEF ChainInv, AccessEndsAfterLogout
<1>13. RotatingInTime'
  <2>1. \A q \in Req : req'[q].at = "rotate" =>
           /\ req'[q] = req[q] /\ req[q].tok \in Session
           /\ req[q].tok # old /\ req[q].tok # new
    BY <1>1, <1>2, <1>4, RotatingRow DEF IInv, LockInv
  <2> QED
    BY <1>3, <2>1 DEF ChainInv, RotatingInTime
<1>14. IssuedAlone'
  <2> SUFFICES ASSUME NEW q \in Req, req'[q].at = "issue", NEW s \in Session
               PROVE  /\ session'[s] # NoRow => session'[s].next # req'[q].new
                      /\ root'[s] = root'[req'[q].new] => s = req'[q].new
    BY DEF IssuedAlone
  <2>1. /\ req'[q] = req[q] /\ req[q].at = "issue" /\ req[q].new \in Session
        /\ req[q].new \notin held /\ session[req[q].new] # NoRow
    BY <1>4 DEF IInv, IdInv, PrivateInv, Live, NoRow
  <2>2. req[q].new # old /\ req[q].new # new /\ req[q].new # NoSession
    BY <1>1, <1>2, <2>1 DEF Session, NoSession
  <2>3. /\ session[s] # NoRow => session[s].next # req[q].new
        /\ root[s] = root[req[q].new] => s = req[q].new
        /\ root[old] # root[req[q].new]
    BY <1>1, <2>1, <2>2 DEF ChainInv, IssuedAlone
  <2>4. root'[req[q].new] = root[req[q].new]
    BY <1>3, <2>1, <2>2
  <2>5. session'[s] # NoRow => session'[s].next # req[q].new
    BY <1>3, <1>5, <1>6, <2>2, <2>3
  <2>6. root'[s] = root[req[q].new] => s = req[q].new
    BY <1>3, <2>3
  <2> QED
    BY <2>1, <2>4, <2>5, <2>6
<1>15. ReplyBacked'
  <2>1. \A q \in Req : q # r /\ req[q].at = "reply" =>
           req[q].new \in Session /\ req[q].new # old /\ req[q].new # new
    BY <1>1, <1>2 DEF IInv, IdInv, PrivateInv, ChainInv, ReplyBacked
  <2>2. accessExp'[new] > 0
    BY <1>1, <1>3, AuthSessionAssumption
  <2> QED
    BY <1>3, <1>4, <1>5, <2>1, <2>2 DEF ChainInv, ReplyBacked
<1>16. TokensAge'
  <2>1. \A s \in Session : accessExp'[s] <= clock' + AccessTTL
    BY <1>1, <1>3, AuthSessionAssumption DEF ChainInv, TokensAge
  <2>2. ASSUME NEW q \in Req, req'[q].at = "logout", Live(req[q].tok)', NEW t \in Session,
               root'[t] = root'[req'[q].tok]
        PROVE  accessExp'[t] <= req'[q].now + AccessTTL
    <3> DEFINE s == req[q].tok
    <3>1. /\ req'[q] = req[q] /\ req[q].at = "logout" /\ s \in held /\ s \in Session
      BY <1>4, <2>2 DEF IInv, TypeOK, PrivateInv
    <3>2. s # new /\ s # old /\ session'[s] = session[s] /\ root'[s] = root[s] /\ Live(s)
      <4>1. s # new
        BY <1>2, <3>1
      <4>2. session'[s].state = "live"
        BY <2>2, <3>1 DEF Live
      <4> QED
        BY <1>3, <1>6, <3>1, <4>1, <4>2 DEF Live
    <3>3. root[s] # root[old]
      BY <1>11, <3>1, <3>2 DEF Unrotated, Live, NoRow
    <3>4. t # new /\ root[t] = root[s] /\ accessExp'[t] = accessExp[t]
      BY <1>3, <2>2, <3>1, <3>2, <3>3
    <3> QED
      BY <3>1, <3>2, <3>4 DEF ChainInv, TokensAge
  <2> QED
    BY <2>1, <2>2 DEF TokensAge
<1> QED
  BY <1>9, <1>10, <1>12, <1>13, <1>14, <1>15, <1>16 DEF ChainInv

LEMMA TickChain ==
    ASSUME IInv, ChainInv, Tick \/ UNCHANGED vars
    PROVE  ChainInv'
<1>1. /\ UNCHANGED <<session, root, req, held, accessExp>>
      /\ clock \in Nat /\ clock' \in Nat /\ clock' >= clock
  BY DEF Tick, tables, vars, IInv, TypeOK
<1>2. TokensAge'
  BY <1>1, AuthSessionAssumption DEF ChainInv, TokensAge, IInv, TypeOK, Live
<1> QED
  BY <1>1, <1>2
  DEF ChainInv, RotationChain, TokensAreBacked, AccessEndsAfterLogout, RotatingInTime,
      IssuedAlone, ReplyBacked

LEMMA NextChain == IInv /\ ChainInv /\ [Next]_vars => ChainInv'
BY QuietSteps, InsertChain, LoginIssueChain, LoginIssueFailsChain, LogoutChain,
   RotationChainStep, TickChain DEF Next, Handle

LEMMA Chains == Spec => []ChainInv
BY InitChain, NextChain, Inductive, PTL DEF Spec

\* A rotated row and its successor belong together, in every chain of rotations:
\* same user, same login, nobody else's successor, exchanged before it expired.
THEOREM ChainsHold == Spec => []RotationChain
<1>1. ChainInv => RotationChain
  BY DEF ChainInv
<1> QED BY <1>1, Chains, PTL

\* The rows of a login are one chain with one end.
THEOREM OneChain == Spec => []OneChainPerLogin
<1>1. RotationChain /\ OneSessionPerLogin => OneChainPerLogin
  BY DEF OneChainPerLogin
<1> QED BY <1>1, ChainsHold, OneSession, PTL

\* No client holds tokens of a row that was rolled back or deleted.
THEOREM HeldTokensBacked == Spec => []TokensAreBacked
<1>1. ChainInv => TokensAreBacked
  BY DEF ChainInv
<1> QED BY <1>1, Chains, PTL

\* Access tokens of a login end within AccessTTL of its logout, though a logout
\* carries the time at which it was asked for, not the one at which it wrote.
THEOREM AccessEnds == Spec => []AccessEndsAfterLogout
<1>1. ChainInv => AccessEndsAfterLogout
  BY DEF ChainInv
<1> QED BY <1>1, Chains, PTL

-----------------------------------------------------------------------------
(* Refinement: AuthSession implements Credential. *)

\* What the refinement mapping means, free of CHOOSE: the current credential
\* of l is s exactly when s is a live row of login l.
CurrentMeaning ==
    \A l \in Session :
       /\ \A s \in Session : Current[l] = s <=> Live(s) /\ root[s] = l
       /\ Current[l] = NoSession \/ Current[l] \in Session

LEMMA CurrentRow == IInv => CurrentMeaning
<1> SUFFICES ASSUME IInv, NEW l \in Session
             PROVE  /\ \A s \in Session : Current[l] = s <=> Live(s) /\ root[s] = l
                    /\ Current[l] = NoSession \/ Current[l] \in Session
  BY DEF CurrentMeaning
<1>1. \A s, t \in LiveOf(l) : s = t
  BY DEF IInv, LiveOf, OneSessionPerLogin, Unrotated, Live, NoRow
<1>2. \A s \in Session : s \in LiveOf(l) <=> Live(s) /\ root[s] = l
  BY DEF LiveOf
<1>3. CASE LiveOf(l) = {}
  <2>1. Current[l] = NoSession
    BY <1>3 DEF Current
  <2> QED BY <1>2, <1>3, <2>1 DEF Session, NoSession
<1>4. CASE LiveOf(l) # {}
  <2>1. Current[l] = CHOOSE s \in LiveOf(l) : TRUE
    BY <1>4 DEF Current
  <2>2. Current[l] \in LiveOf(l)
    BY <1>4, <2>1
  <2>3. LiveOf(l) \subseteq Session
    BY DEF LiveOf
  <2> QED BY <1>1, <1>2, <2>2, <2>3
<1> QED BY <1>3, <1>4

LEMMA InitContract == Init => Contract!Init
BY AuthSessionAssumption
DEF Init, Contract!Init, Current, Spent, LiveOf, Live, NoRow, Session, NoSession

\* Steps that leave the table alone leave the contract's state alone.
LEMMA TableUnchanged ==
    UNCHANGED tables => UNCHANGED <<Current, Spent>>
BY DEF tables, Current, Spent, LiveOf, Live

\* A new row of its own login is a grant.
LEMMA GrantStep ==
    ASSUME IInv, IInv', CurrentMeaning, CurrentMeaning',
           NEW s \in Session, s = last + 1, last' = s, Live(s)', root'[s] = s,
           \A x \in Session : x # s => session'[x] = session[x] /\ root'[x] = root[x]
    PROVE  Contract!Grant(s)
<1>1. /\ last \in Nat /\ s \in Nat /\ s \notin 1..last
      /\ \A x \in Session : x # s => (Live(x)' <=> Live(x))
      /\ NoSession \notin Session
  BY DEF IInv, TypeOK, Session, NoSession, Live
<1>2. ~Live(s) /\ \A x \in Session : root[x] # s
  BY <1>1 DEF IInv, IdInv, Live, NoRow, Session
<1>3. Current[s] = NoSession /\ \A l \in Session : Current[l] # s
  <2>1. \A l, x \in Session : Current[l] = x => Live(x) /\ root[x] = l
    BY DEF CurrentMeaning
  <2>2. Current[s] \notin Session
    BY <1>2, <2>1
  <2>3. Current[s] = NoSession
    BY <2>2 DEF CurrentMeaning
  <2>4. \A l \in Session : Current[l] # s
    BY <1>2, <2>1
  <2> QED
    BY <2>3, <2>4
<1>4. Current' = [Current EXCEPT ![s] = s]
  <2>1. Current'[s] = s
    BY DEF CurrentMeaning
  <2>2. ASSUME NEW l \in Session, l # s PROVE Current'[l] = Current[l]
    <3>1. \A x \in Session : Current'[l] = x <=> Current[l] = x
      BY <1>1, <1>2, <1>3, <2>2 DEF CurrentMeaning
    <3> QED BY <1>1, <3>1 DEF CurrentMeaning
  <2>3. /\ Current' = [l \in Session |-> Current'[l]]
        /\ Current = [l \in Session |-> Current[l]]
    BY DEF Current
  <2> QED BY <2>1, <2>2, <2>3
<1>5. Spent' = Spent
  <2>1. 1..s \subseteq Session /\ 1..s = 1..last \cup {s}
    BY <1>1, AuthSessionAssumption DEF Session
  <2> QED BY <1>1, <2>1 DEF Spent
<1>6. s \notin Spent
  BY <1>1 DEF Spent
<1> QED BY <1>3, <1>4, <1>5, <1>6 DEF Contract!Grant, Contract!Fresh

\* A live row that is revoked by a logout or deleted is a surrender.
LEMMA SurrenderStep ==
    ASSUME IInv, IInv', CurrentMeaning, CurrentMeaning',
           NEW s \in Session, Live(s), ~Live(s)', UNCHANGED <<last, root>>,
           \A x \in Session : x # s => session'[x] = session[x]
    PROVE  \E l \in Session : Contract!Surrender(l)
<1>0. PICK l \in Session : l = root[s]
  BY DEF IInv, IdInv, Live, NoRow
<1>1. /\ root[s] = l /\ s \in 1..last /\ 1..last \subseteq Session
      /\ \A x \in Session : x # s => (Live(x)' <=> Live(x))
      /\ NoSession \notin Session
  <2>1. session[s] # NoRow
    BY DEF Live, NoRow
  <2>2. ~(s > last) /\ last \in 0..MaxSessions
    BY <2>1 DEF IInv, TypeOK, IdInv
  <2>3. s \in 1..last /\ 1..last \subseteq Session /\ NoSession \notin Session
    BY <2>2, AuthSessionAssumption DEF Session, NoSession
  <2> QED BY <1>0, <2>2, <2>3 DEF Live
<1>2. Current[l] = s
  BY <1>1 DEF CurrentMeaning
<1>3. Current' = [Current EXCEPT ![l] = NoSession]
  <2>1. Current'[l] = NoSession
    <3>1. \A x \in Session : Live(x) /\ root[x] = l => x = s
      BY <1>2 DEF CurrentMeaning
    <3>2. \A x \in Session : ~(Live(x)' /\ root'[x] = l)
      BY <1>1, <3>1
    <3>3. Current'[l] = NoSession \/ Current'[l] \in Session
      BY DEF CurrentMeaning
    <3>4. \A x \in Session : Current'[l] # x
      BY <3>2 DEF CurrentMeaning
    <3> QED BY <3>3, <3>4
  <2>2. ASSUME NEW k \in Session, k # l PROVE Current'[k] = Current[k]
    <3>1. \A x \in Session : Current'[k] = x <=> Current[k] = x
      BY <1>1, <2>2 DEF CurrentMeaning
    <3>2. /\ Current'[k] = NoSession \/ Current'[k] \in Session
          /\ Current[k] = NoSession \/ Current[k] \in Session
      BY DEF CurrentMeaning
    <3> QED BY <3>1, <3>2
  <2>3. /\ Current' = [k \in Session |-> Current'[k]]
        /\ Current = [k \in Session |-> Current[k]]
    BY DEF Current
  <2> QED BY <2>1, <2>2, <2>3
<1>4. Spent' = Spent \cup {Current[l]}
  BY <1>1, <1>2 DEF Spent
<1>5. Contract!Surrender(l)
  BY <1>1, <1>2, <1>3, <1>4 DEF Contract!Surrender
<1> QED BY <1>1, <1>5

\* A committed rotation is an exchange.
LEMMA ExchangeStep ==
    ASSUME IInv, IInv', CurrentMeaning, CurrentMeaning',
           NEW s \in Session, NEW t \in Session, t = last + 1, last' = t, s <= last,
           Live(s), ~Live(s)', Live(t)', root'[t] = root[s],
           \A x \in Session : x # t => root'[x] = root[x],
           \A x \in Session : x # s /\ x # t => session'[x] = session[x]
    PROVE  \E l \in Session : Contract!Exchange(l, t)
<1> DEFINE l == root[s]
<1>1. /\ last \in Nat /\ t \in Nat /\ t \notin 1..last /\ s \in 1..last /\ s # t
      /\ l \in Session
      /\ \A x \in Session : x # s /\ x # t => (Live(x)' <=> Live(x))
      /\ NoSession \notin Session
  BY DEF IInv, TypeOK, IdInv, Session, NoSession, Live, NoRow
<1>2. ~Live(t)
  BY <1>1 DEF IInv, IdInv, Live, NoRow, Session
<1>3. Current[l] = s /\ \A k \in Session : Current[k] # t
  BY <1>1, <1>2 DEF CurrentMeaning
<1>4. Current' = [Current EXCEPT ![l] = t]
  <2>1. Current'[l] = t
    BY <1>1 DEF CurrentMeaning
  <2>2. ASSUME NEW k \in Session, k # l PROVE Current'[k] = Current[k]
    <3>1. Current[k] # s /\ Current'[k] # s /\ Current[k] # t /\ Current'[k] # t
      BY <1>1, <1>3, <2>2 DEF CurrentMeaning
    <3>2. \A x \in Session : x # s /\ x # t => (Current'[k] = x <=> Current[k] = x)
      BY <1>1 DEF CurrentMeaning
    <3> QED BY <1>1, <3>1, <3>2 DEF CurrentMeaning
  <2>3. /\ Current' = [k \in Session |-> Current'[k]]
        /\ Current = [k \in Session |-> Current[k]]
    BY DEF Current
  <2> QED BY <2>1, <2>2, <2>3
<1>5. Spent' = Spent \cup {Current[l]}
  <2>1. 1..t \subseteq Session /\ 1..t = 1..last \cup {t}
    BY <1>1, AuthSessionAssumption DEF Session
  <2> QED BY <1>1, <1>3, <2>1 DEF Spent
<1>6. t \notin Spent
  BY <1>1 DEF Spent
<1>7. Contract!Exchange(l, t)
  BY <1>1, <1>3, <1>4, <1>5, <1>6 DEF Contract!Exchange, Contract!Fresh
<1> QED BY <1>1, <1>7

LEMMA NextContract ==
    ASSUME IInv, IInv', CurrentMeaning, CurrentMeaning', [Next]_vars
    PROVE  [Contract!Next]_<<Current, Spent>>
<1> USE AuthSessionAssumption
<1>1. ASSUME NEW r \in Req, NEW u \in User, InsertAuthSession(r, u)
      PROVE  Contract!Next
  <2> DEFINE s == last + 1
  <2>1. /\ s \in Session /\ last' = s /\ session'[s].state = "live" /\ root'[s] = s
        /\ \A x \in Session : x # s => session'[x] = session[x] /\ root'[x] = root[x]
    BY <1>1 DEF InsertAuthSession, LiveRow, IInv, TypeOK
  <2>2. \A x \in Session : x = s => Live(x)'
    BY <2>1 DEF Live
  <2>3. PICK x \in Session : x = s
    BY <2>1
  <2>4. Contract!Grant(x)
    BY <2>1, <2>2, <2>3, GrantStep
  <2> QED BY <2>4 DEF Contract!Next
<1>2. ASSUME NEW r \in Req, LoginIssueFails(r) \/ RevokeSessionLogout(r)
      PROVE  [Contract!Next]_<<Current, Spent>>
  <2>1. CASE UNCHANGED session
    BY <1>2, <2>1, TableUnchanged DEF LoginIssueFails, RevokeSessionLogout, tables
  <2>2. CASE ~UNCHANGED session
    <3> DEFINE s == IF req[r].at = "issue" THEN req[r].new ELSE req[r].tok
    <3>1. s \in Session /\ Live(s)
      BY <1>2, <2>2 DEF LoginIssueFails, RevokeSessionLogout, IInv, PrivateInv, IdInv, TypeOK
    <3>2. /\ UNCHANGED <<last, root>>
          /\ \A x \in Session : x # s => session'[x] = session[x]
          /\ session'[s].state # "live"
      <4>1. CASE LoginIssueFails(r)
        BY <2>2, <3>1, <4>1 DEF LoginIssueFails, IInv, TypeOK, NoRow
      <4>2. CASE RevokeSessionLogout(r)
        <5>1. session[s] \in Row
          BY <3>1 DEF IInv, TypeOK, Live, NoRow
        <5> QED BY <3>1, <4>2, <5>1 DEF RevokeSessionLogout, IInv, TypeOK, Row
      <4> QED BY <1>2, <4>1, <4>2
    <3>3. PICK x \in Session : x = s
      BY <3>1
    <3>5. Live(x) /\ ~Live(x)'
      BY <3>1, <3>2, <3>3 DEF Live
    <3>4. \E l \in Session : Contract!Surrender(l)
      BY <3>2, <3>3, <3>5, SurrenderStep
    <3> QED BY <3>4 DEF Contract!Next
  <2> QED BY <2>1, <2>2
<1>3. ASSUME NEW r \in Req, RefreshCommit(r) PROVE Contract!Next
  <2> DEFINE s == req[r].tok
             t == last + 1
  <2>1. s \in Session /\ s <= last /\ Live(s) /\ t \in Session /\ last' = t
    BY <1>3, RotatingRow DEF RefreshCommit, IInv, LockInv
  <2>2. s # t /\ root'[t] = root[s]
        /\ \A x \in Session : x # t => root'[x] = root[x]
    BY <1>3, <2>1 DEF RefreshCommit, IInv, TypeOK
  <2>3. /\ session'[t] = LiveRow(session[s].user, req[r].now)
        /\ session'[s] = [session[s] EXCEPT !.state = "rotated",
                                            !.revokedAt = req[r].now, !.next = t]
        /\ \A x \in Session : x # s /\ x # t => session'[x] = session[x]
    BY <1>3, <2>1, <2>2 DEF RefreshCommit, IInv, TypeOK
  <2>4. session[s] \in Row
    BY <2>1 DEF IInv, TypeOK, Live, NoRow
  <2>5. session'[t].state = "live" /\ session'[s].state = "rotated"
    BY <2>3, <2>4 DEF LiveRow, Row
  <2>6. PICK x \in Session, y \in Session : x = s /\ y = t
    BY <2>1
  <2>7. ~Live(x)' /\ Live(y)'
    BY <2>5, <2>6 DEF Live
  <2>8. \E l \in Session : Contract!Exchange(l, y)
    BY <2>1, <2>2, <2>3, <2>6, <2>7, ExchangeStep
  <2> QED BY <2>8 DEF Contract!Next
<1>4. ASSUME NEW r \in Req,
             \/ LoginIssue(r) \/ RefreshSelect(r) \/ RefreshAbort(r) \/ Reply(r)
             \/ Disconnect(r)
             \/ \E x \in Session \cup {NoSession} : RefreshBegin(r, x)
             \/ \E x \in Session : LogoutBegin(r, x)
      PROVE  UNCHANGED <<Current, Spent>>
  BY <1>4, TableUnchanged
  DEF LoginIssue, RefreshSelect, RefreshUnknown, RefreshRejected, RefreshAccepted,
      RefreshAbort, Reply, Disconnect, RefreshBegin, LogoutBegin
<1>5. ASSUME Tick \/ UNCHANGED vars PROVE UNCHANGED <<Current, Spent>>
  BY <1>5, TableUnchanged DEF Tick, vars, tables
<1> QED BY <1>1, <1>2, <1>3, <1>4, <1>5 DEF Next, Handle

\* Every behaviour of the session store is one of Credential: the handlers,
\* their transactions and their failures never give a login two credentials
\* and never accept a spent one.
THEOREM Refinement == Spec => ImplementsCredential
<1>1. Init => Contract!Init
  BY InitContract
<1>2. IInv => CurrentMeaning
  BY CurrentRow
<1>3. IInv /\ IInv' /\ CurrentMeaning /\ CurrentMeaning' /\ [Next]_vars
        => [Contract!Next]_<<Current, Spent>>
  BY NextContract
<1> QED BY <1>1, <1>2, <1>3, Inductive, PTL
        DEF Spec, ImplementsCredential, Contract!Spec, Contract!vars

=============================================================================
