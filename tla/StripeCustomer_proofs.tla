------------------------ MODULE StripeCustomer_proofs ------------------------
(***************************************************************************)
(* Proofs about StripeCustomer, for any users, concurrent requests and       *)
(* number of customers.                                                     *)
(***************************************************************************)
EXTENDS StripeCustomer, TLAPS

Holding == {"insert", "reselect", "delete"}

\* A customer that a request has created and not yet dealt with is its own, is
\* live, and is on record only if the request was told that it is not.
Held(w) ==
    LET c == job[w].new IN
    /\ c \in Customer /\ Live(c) /\ customer[c].user = job[w].user
    /\ \A v \in Worker : job[v].at \in Holding /\ v # w => job[v].new # c
    /\ \A u \in User : mapping[u] = c => job[w].at = "delete" /\ c \in errored
HeldInv == \A w \in Worker : job[w].at \in Holding => Held(w)

\* A request answers with what is on record, or not at all.
Answers(j) ==
    LET recorded == {NoCustomer, mapping[j.user]} IN
    /\ j.answer \in recorded
    /\ j.at = "create" => j.new = NoCustomer
    /\ j.at = "answer" => j.new \in recorded
AnswerInv == \A w \in Worker : job[w].at # "idle" => Answers(job[w])

\* What is on record was created for that user.
MappedInv ==
    \A u \in User : mapping[u] # NoCustomer =>
        customer[mapping[u]] # NoCustomer /\ customer[mapping[u]].user = u

\* The inductive invariant.
IInv == /\ TypeOK /\ HeldInv /\ AnswerInv /\ MappedInv
        /\ OneCustomerPerUser /\ MappedIsLive /\ NoSilentOrphan

-----------------------------------------------------------------------------
LEMMA Customers == NoCustomer \notin Customer
BY CustomerAssumption DEF Customer

LEMMA JobShape ==
    ASSUME NEW j \in Job \cup {Idle}
    PROVE  /\ j.at # "idle" => j \in Job
           /\ j.at = "idle" => j.new = NoCustomer
           /\ j.new \in Customer \cup {NoCustomer}
BY DEF Job, Idle

LEMMA InitIInv == Init => IInv
<1> SUFFICES ASSUME Init PROVE IInv
  OBVIOUS
<1>1. \A w \in Worker : job[w] = Idle /\ job[w].at = "idle"
  BY DEF Init, Idle
<1>2. TypeOK
  BY <1>1 DEF Init, TypeOK
<1>3. HeldInv /\ AnswerInv
  BY <1>1 DEF HeldInv, AnswerInv, Holding
<1>4. MappedInv /\ OneCustomerPerUser /\ MappedIsLive /\ NoSilentOrphan
  BY DEF Init, MappedInv, OneCustomerPerUser, MappedIsLive, NoSilentOrphan, Live
<1> QED
  BY <1>2, <1>3, <1>4 DEF IInv

\* A step at neither Stripe's customers nor the table, that leaves request w in
\* the state b: w creates nothing, keeps its answer true, and what it lets go of
\* is on record or counted as left behind.
LEMMA QuietStep ==
    ASSUME IInv, NEW w \in Worker, NEW b \in Job \cup {Idle},
           job' = [job EXCEPT ![w] = b],
           UNCHANGED <<customer, mapping, errored>>,
           leaked \subseteq leaked', leaked' \subseteq Customer,
           sessions' \subseteq [user : User, customer : Customer], OneCustomerPerUser',
           b.at \in Holding => /\ job[w].at \in Holding
                               /\ b.new = job[w].new /\ b.user = job[w].user
                               /\ job[w].at = "delete" => b.at = "delete",
           b.at # "idle" => Answers(b),
           b.at = "answer" => b.answer # NoCustomer,
           job[w].new \in {NoCustomer, b.new} \cup leaked' \cup {mapping[u] : u \in User}
    PROVE  IInv'
<1>1. \A v \in Worker : job'[v] = IF v = w THEN b ELSE job[v]
  BY DEF IInv, TypeOK
<1>2. TypeOK'
  BY <1>1 DEF IInv, TypeOK
<1>3. HeldInv'
  <2>1. ASSUME NEW v \in Worker, job'[v].at \in Holding PROVE Held(v)'
    <3>1. /\ job[v].at \in Holding
          /\ job'[v].new = job[v].new /\ job'[v].user = job[v].user
          /\ job[v].at = "delete" => job'[v].at = "delete"
      BY <1>1, <2>1
    <3>2. Held(v)
      BY <3>1 DEF IInv, HeldInv
    <3>3. \A x \in Worker : job'[x].at \in Holding => job[x].at \in Holding /\ job'[x].new = job[x].new
      BY <1>1
    <3> QED
      BY <3>1, <3>2, <3>3 DEF Held, Live
  <2> QED
    BY <2>1 DEF HeldInv
<1>4. AnswerInv'
  BY <1>1 DEF IInv, AnswerInv, Answers
<1>5. MappedInv' /\ MappedIsLive'
  BY DEF IInv, MappedInv, MappedIsLive, Live
<1>6. NoSilentOrphan'
  <2>1. ASSUME NEW c \in Customer, Live(c)
        PROVE  \/ c \in {mapping[u] : u \in User} \cup leaked'
               \/ \E v \in Worker : job'[v].new = c
    <3>1. CASE \E v \in Worker \ {w} : job[v].new = c
      BY <1>1, <3>1
    <3>2. CASE job[w].new = c
      BY <1>1, <3>2, Customers
    <3> QED
      BY <2>1, <3>1, <3>2 DEF IInv, NoSilentOrphan
  <2> QED
    BY <2>1 DEF NoSilentOrphan, Live
<1> QED
  BY <1>2, <1>3, <1>4, <1>5, <1>6 DEF IInv

\* What a request that has not ended knows.
LEMMA Busy ==
    ASSUME IInv, NEW w \in Worker, job[w].at # "idle"
    PROVE  /\ job[w] \in Job /\ Answers(job[w])
           /\ job[w].at \in Holding => Held(w)
           /\ job[w].new \in Customer \cup {NoCustomer}
           /\ mapping[job[w].user] \in Customer \cup {NoCustomer}
<1>1. job[w] \in Job /\ job[w].user \in User /\ job[w].new \in Customer \cup {NoCustomer}
  BY JobShape DEF IInv, TypeOK, Job
<1> QED
  BY <1>1 DEF IInv, TypeOK, AnswerInv, HeldInv

LEMMA EnsureStep ==
    ASSUME IInv, NEW w \in Worker, NEW u \in User, EnsureStripeCustomerID(w, u)
    PROVE  IInv'
<1> DEFINE b == [at |-> IF mapping[u] = NoCustomer THEN "create" ELSE "answer",
                 user |-> u, new |-> NoCustomer, answer |-> mapping[u]]
<1>1. /\ b \in Job /\ b.at \in {"create", "answer"}
      /\ b.user = u /\ b.new = NoCustomer /\ b.answer = mapping[u]
      /\ b.at = "answer" => b.answer # NoCustomer
  BY DEF IInv, TypeOK, Job
<1>2. job' = [job EXCEPT ![w] = b] /\ UNCHANGED <<customer, mapping, sessions, leaked, errored>>
  BY DEF EnsureStripeCustomerID
<1>3. job[w].new = NoCustomer
  BY JobShape DEF EnsureStripeCustomerID, IInv, TypeOK
<1> HIDE DEF b
<1>4. Answers(b) /\ b.at \notin Holding
  BY <1>1 DEF Answers, Holding
<1>5. sessions' \subseteq [user : User, customer : Customer] /\ OneCustomerPerUser'
      /\ leaked' \subseteq Customer /\ leaked \subseteq leaked'
  BY <1>2 DEF IInv, TypeOK, OneCustomerPerUser
<1> QED
  BY <1>1, <1>2, <1>3, <1>4, <1>5, QuietStep

\* A request ends.
LEMMA IdleStep ==
    ASSUME IInv, NEW w \in Worker, job' = [job EXCEPT ![w] = Idle],
           UNCHANGED <<customer, mapping, errored>>,
           leaked \subseteq leaked', leaked' \subseteq Customer,
           sessions' \subseteq [user : User, customer : Customer], OneCustomerPerUser',
           job[w].new \in {NoCustomer} \cup leaked' \cup {mapping[u] : u \in User}
    PROVE  IInv'
<1>1. Idle.at = "idle" /\ Idle.at \notin Holding
  BY DEF Idle, Holding
<1> QED
  BY <1>1, QuietStep

LEMMA OpenSessionStep ==
    ASSUME IInv, NEW w \in Worker, OpenSession(w)
    PROVE  IInv'
<1> DEFINE j == job[w]
           s == [user |-> j.user, customer |-> j.answer]
<1>1. j \in Job /\ Answers(j) /\ j.user \in User /\ j.answer = mapping[j.user]
      /\ j.answer \in Customer
  BY Busy DEF OpenSession, IInv, TypeOK, Answers, Job
<1>2. s \in [user : User, customer : Customer] /\ s.user = j.user /\ s.customer = j.answer
  BY <1>1
<1>3. customer[mapping[j.user]].user = j.user
  BY <1>1, Customers DEF IInv, MappedInv
<1>4. sessions' \subseteq sessions \cup {s} /\ UNCHANGED <<customer, mapping, leaked, errored>>
      /\ job' = [job EXCEPT ![w] = Idle]
  BY DEF OpenSession
<1> HIDE DEF s
<1>5. sessions' \subseteq [user : User, customer : Customer] /\ OneCustomerPerUser'
  BY <1>1, <1>2, <1>3, <1>4 DEF IInv, TypeOK, OneCustomerPerUser
<1>6. j.new \in {NoCustomer} \cup {mapping[u] : u \in User}
  BY <1>1 DEF OpenSession, Answers
<1>7. leaked \subseteq leaked' /\ leaked' \subseteq Customer
  BY <1>4 DEF IInv, TypeOK
<1> QED
  BY <1>4, <1>5, <1>6, <1>7, IdleStep

LEMMA CrashStep ==
    ASSUME IInv, NEW w \in Worker, Crash(w)
    PROVE  IInv'
<1>1. job[w].new \in Customer \cup {NoCustomer}
  BY Busy DEF Crash
<1>2. /\ leaked \subseteq leaked' /\ leaked' \subseteq Customer
      /\ job[w].new \in {NoCustomer} \cup leaked'
  BY <1>1 DEF Crash, IInv, TypeOK
<1>3. sessions' \subseteq [user : User, customer : Customer] /\ OneCustomerPerUser'
  BY DEF Crash, IInv, TypeOK, OneCustomerPerUser
<1> QED
  BY <1>2, <1>3, IdleStep DEF Crash

\* A step that leaves Stripe, the table and the sessions alone and moves request
\* w, which goes on with the customer it has.
LEMMA MoveStep ==
    ASSUME IInv, NEW w \in Worker, NEW b \in Job, job[w].at \in Holding,
           job' = [job EXCEPT ![w] = b],
           UNCHANGED <<customer, mapping, sessions, leaked, errored>>,
           b.at \in Holding, b.new = job[w].new, b.user = job[w].user,
           job[w].at # "delete", Answers(b)
    PROVE  IInv'
<1>1. sessions' \subseteq [user : User, customer : Customer] /\ OneCustomerPerUser'
      /\ leaked' \subseteq Customer /\ leaked \subseteq leaked'
  BY DEF IInv, TypeOK, OneCustomerPerUser
<1>2. b.at # "answer"
  BY DEF Holding
<1> QED
  BY <1>1, <1>2, QuietStep

LEMMA ReselectStep ==
    ASSUME IInv, NEW w \in Worker, Reselect(w)
    PROVE  IInv'
<1> DEFINE j == job[w]
<1>1. j \in Job /\ j.at = "reselect" /\ j.at \in Holding
      /\ mapping[j.user] \in Customer \cup {NoCustomer}
  BY Busy DEF Reselect, Holding
<1>2. PICK c \in {mapping[j.user], NoCustomer} :
         job' = [job EXCEPT ![w] = [j EXCEPT !.at = "delete", !.answer = c]]
  BY DEF Reselect, IInv, TypeOK
<1> DEFINE b == [j EXCEPT !.at = "delete", !.answer = c]
<1>3. b \in Job /\ b.at = "delete" /\ b.answer = c /\ b.new = j.new /\ b.user = j.user
  BY <1>1 DEF Job
<1>4. job' = [job EXCEPT ![w] = b] /\ UNCHANGED <<customer, mapping, sessions, leaked, errored>>
  BY <1>2 DEF Reselect
<1> HIDE DEF b
<1>5. Answers(b) /\ b.at \in Holding
  BY <1>3 DEF Answers, Holding
<1> QED
  BY <1>1, <1>3, <1>4, <1>5, MoveStep

\* A customer that Stripe has not created yet is in nobody's hands and on no
\* record.
LEMMA FreshCustomer ==
    ASSUME IInv, NEW c \in Customer, customer[c] = NoCustomer
    PROVE  /\ \A v \in Worker : job[v].at \in Holding => job[v].new # c
           /\ \A u \in User : mapping[u] # c
           /\ \A s \in sessions : s.customer # c
<1>1. \A v \in Worker : job[v].at \in Holding => job[v].new # c
  BY DEF IInv, HeldInv, Held, Live
<1>2. \A u \in User : mapping[u] # c
  BY Customers DEF IInv, MappedInv
<1>3. \A s \in sessions : s.customer # c
  BY <1>2 DEF IInv, TypeOK, OneCustomerPerUser
<1> QED
  BY <1>1, <1>2, <1>3

\* Stripe creates customer c for request w, which learns of it (b holds it) or
\* ends without (c is left behind).
LEMMA CreateStep ==
    ASSUME IInv, NEW w \in Worker, job[w].at = "create", NEW c \in Customer,
           NewCustomer(c, job[w].user), NEW b \in Job \cup {Idle},
           job' = [job EXCEPT ![w] = b], UNCHANGED <<mapping, sessions, errored>>,
           \/ b = Idle /\ leaked' = leaked \cup {c}
           \/ /\ b.at = "insert" /\ b.new = c /\ b.user = job[w].user
              /\ b.answer = job[w].answer /\ leaked' = leaked
    PROVE  IInv'
<1> DEFINE row == [state |-> "live", user |-> job[w].user]
<1>1. job[w] \in Job /\ job[w].user \in User /\ Answers(job[w])
      /\ job[w].new = NoCustomer
  BY Busy DEF Answers, Job
<1>2. /\ row \in [state : CustomerState, user : User] /\ row # NoCustomer
      /\ row.state = "live" /\ row.user = job[w].user
  BY <1>1, CustomerAssumption DEF CustomerState
<1>3. /\ \A d \in Customer : customer'[d] = IF d = c THEN row ELSE customer[d]
      /\ \A v \in Worker : job'[v] = IF v = w THEN b ELSE job[v]
      /\ customer[c] = NoCustomer
  BY DEF NewCustomer, IInv, TypeOK
<1>4. customer' \in [Customer -> [state : CustomerState, user : User] \cup {NoCustomer}]
  BY <1>2 DEF NewCustomer, IInv, TypeOK
<1>5. /\ b.at \in {"idle", "insert"}
      /\ b.at = "insert" => b.new = c /\ b.user = job[w].user /\ b.answer = job[w].answer
      /\ leaked' \subseteq Customer /\ leaked \subseteq leaked'
      /\ b.at = "idle" => c \in leaked'
  BY DEF Idle, IInv, TypeOK
<1>6. TypeOK'
  BY <1>3, <1>4, <1>5 DEF IInv, TypeOK
<1>7. /\ \A v \in Worker : job[v].at \in Holding => job[v].new # c
      /\ \A u \in User : mapping[u] # c
      /\ \A s \in sessions : s.customer # c
  BY <1>3, FreshCustomer
<1> HIDE DEF row
<1>8. Live(c)' /\ customer'[c].user = job[w].user
      /\ \A d \in Customer \ {c} : customer'[d] = customer[d]
  BY <1>2, <1>3 DEF Live
<1>9. HeldInv'
  <2>1. ASSUME NEW v \in Worker, job'[v].at \in Holding PROVE Held(v)'
    <3>1. CASE v = w
      BY <1>3, <1>5, <1>7, <1>8, <2>1, <3>1 DEF Held, Holding
    <3>2. CASE v # w
      <4>1. job'[v] = job[v] /\ Held(v) /\ job[v].new # c
        BY <1>3, <1>7, <2>1, <3>2 DEF IInv, HeldInv
      <4> QED
        BY <1>3, <1>5, <1>8, <4>1 DEF Held, Live, Holding
    <3> QED
      BY <3>1, <3>2
  <2> QED
    BY <2>1 DEF HeldInv
<1>10. AnswerInv'
  <2>1. b.at # "idle" => Answers(b)'
    BY <1>1, <1>5 DEF Answers
  <2> QED
    BY <1>3, <2>1 DEF IInv, AnswerInv, Answers
<1>11. MappedInv' /\ MappedIsLive'
  <2>1. ASSUME NEW u \in User, mapping[u] # NoCustomer
        PROVE  customer'[mapping[u]] = customer[mapping[u]]
    BY <1>7, <1>8, <2>1 DEF IInv, TypeOK
  <2> QED
    BY <2>1 DEF IInv, MappedInv, MappedIsLive, Live
<1>12. OneCustomerPerUser'
  BY <1>7, <1>8 DEF IInv, TypeOK, OneCustomerPerUser
<1>13. NoSilentOrphan'
  <2>1. ASSUME NEW d \in Customer, Live(d)'
        PROVE  \/ d \in {mapping[u] : u \in User} \cup leaked'
               \/ \E v \in Worker : job'[v].new = d
    <3>1. CASE d = c
      BY <1>3, <1>5, <3>1
    <3>2. CASE d # c
      <4>1. Live(d)
        BY <1>8, <2>1, <3>2 DEF Live
      <4>2. \A v \in Worker : job[v].new = d => v # w
        BY <1>1, Customers
      <4> QED
        BY <1>3, <1>5, <4>1, <4>2 DEF IInv, NoSilentOrphan
    <3> QED
      BY <3>1, <3>2
  <2> QED
    BY <2>1 DEF NoSilentOrphan
<1> QED
  BY <1>6, <1>9, <1>10, <1>11, <1>12, <1>13 DEF IInv

LEMMA CustomersNewStep ==
    ASSUME IInv, NEW w \in Worker, CustomersNew(w)
    PROVE  IInv'
<1> DEFINE j == job[w]
<1>1. j \in Job /\ j.at = "create"
  BY Busy DEF CustomersNew
<1>2. PICK c \in Customer : NewCustomer(c, j.user)
                           /\ job' = [job EXCEPT ![w] = [j EXCEPT !.at = "insert", !.new = c]]
  BY DEF CustomersNew, IInv, TypeOK
<1> DEFINE b == [j EXCEPT !.at = "insert", !.new = c]
<1>3. b \in Job /\ b.at = "insert" /\ b.new = c /\ b.user = j.user /\ b.answer = j.answer
  BY <1>1 DEF Job
<1>4. job' = [job EXCEPT ![w] = b] /\ UNCHANGED <<mapping, sessions, leaked, errored>>
  BY <1>2 DEF CustomersNew
<1> HIDE DEF b
<1> QED
  BY <1>1, <1>2, <1>3, <1>4, CreateStep

LEMMA CustomersNewFailsStep ==
    ASSUME IInv, NEW w \in Worker, CustomersNewFails(w)
    PROVE  IInv'
<1>1. job[w].at = "create" /\ job[w].new = NoCustomer
  BY Busy DEF CustomersNewFails, Answers
<1>2. CASE UNCHANGED <<customer, leaked>>
  <2>1. /\ leaked' \subseteq Customer /\ leaked \subseteq leaked'
        /\ sessions' \subseteq [user : User, customer : Customer] /\ OneCustomerPerUser'
    BY <1>2 DEF CustomersNewFails, IInv, TypeOK, OneCustomerPerUser
  <2> QED
    BY <1>1, <1>2, <2>1, IdleStep DEF CustomersNewFails
<1>3. ASSUME NEW c \in Customer, NewCustomer(c, job[w].user), leaked' = leaked \cup {c}
      PROVE  IInv'
  BY <1>1, <1>3, CreateStep DEF CustomersNewFails
<1> QED
  BY <1>2, <1>3 DEF CustomersNewFails

\* The INSERT of request w puts its customer on record, and w has the state b:
\* it answers with this customer, or was told that the INSERT failed.
LEMMA RecordStep ==
    ASSUME IInv, NEW w \in Worker, job[w].at = "insert",
           mapping[job[w].user] = NoCustomer,
           mapping' = [mapping EXCEPT ![job[w].user] = job[w].new],
           NEW b \in Job, job' = [job EXCEPT ![w] = b],
           b.user = job[w].user, b.new = job[w].new,
           UNCHANGED <<customer, sessions, leaked>>,
           \/ b.at = "answer" /\ b.answer = job[w].new /\ errored' = errored
           \/ /\ b.at = "delete" /\ b.answer = job[w].answer
              /\ errored' = errored \cup {job[w].new}
    PROVE  IInv'
<1> DEFINE j == job[w]
<1>1. /\ j \in Job /\ j.user \in User /\ Answers(j) /\ Held(w) /\ j.at \in Holding
      /\ j.new \in Customer /\ j.new # NoCustomer /\ j.answer = NoCustomer
  <2>1. j \in Job /\ Answers(j) /\ Held(w) /\ j.at \in Holding
    BY Busy DEF Holding
  <2> QED
    BY <2>1, Customers DEF Answers, Held, Job
<1>2. /\ \A v \in Worker : job'[v] = IF v = w THEN b ELSE job[v]
      /\ \A u \in User : mapping'[u] = IF u = j.user THEN j.new ELSE mapping[u]
      /\ UNCHANGED <<customer, sessions, leaked>>
  BY DEF IInv, TypeOK
<1>3. errored \subseteq errored' /\ errored' \subseteq Customer
      /\ b.at \in {"answer", "delete"}
      /\ b.answer \in {NoCustomer, j.new} /\ (b.at = "answer" => b.answer = j.new)
      /\ (b.at = "delete" => j.new \in errored')
  BY <1>1 DEF IInv, TypeOK
<1>4. TypeOK'
  <2>1. mapping' \in [User -> Customer \cup {NoCustomer}]
    BY <1>1 DEF IInv, TypeOK
  <2>2. job' \in [Worker -> Job \cup {Idle}]
        /\ \A v \in Worker : job'[v].at = "answer" => job'[v].answer # NoCustomer
    BY <1>1, <1>2, <1>3 DEF IInv, TypeOK
  <2> QED
    BY <1>2, <1>3, <2>1, <2>2 DEF IInv, TypeOK
<1>5. HeldInv'
  <2>1. ASSUME NEW v \in Worker, job'[v].at \in Holding PROVE Held(v)'
    <3>1. CASE v = w
      <4>1. b.at = "delete" /\ j.new \in errored'
        BY <1>2, <1>3, <2>1, <3>1 DEF Holding
      <4> QED
        BY <1>1, <1>2, <3>1, <4>1 DEF Held, Live
    <3>2. CASE v # w
      <4>1. job'[v] = job[v] /\ job[v].at \in Holding /\ Held(v) /\ job[v].new # j.new
        BY <1>1, <1>2, <2>1, <3>2 DEF IInv, HeldInv, Held
      <4> QED
        BY <1>1, <1>2, <1>3, <4>1 DEF Held, Live
    <3> QED
      BY <3>1, <3>2
  <2> QED
    BY <2>1 DEF HeldInv
<1>6. AnswerInv'
  <2>1. ASSUME NEW v \in Worker, job'[v].at # "idle" PROVE Answers(job[v])'
    <3>1. CASE v = w
      BY <1>1, <1>2, <1>3, <3>1 DEF Answers
    <3>2. CASE v # w
      <4>1. job'[v] = job[v] /\ Answers(job[v]) /\ job[v].user \in User
        BY <1>2, <2>1, <3>2, JobShape DEF IInv, TypeOK, AnswerInv, Job
      <4> QED
        BY <1>2, <4>1 DEF Answers
    <3> QED
      BY <3>1, <3>2
  <2> QED
    BY <2>1 DEF AnswerInv
<1>7. MappedInv' /\ MappedIsLive'
  BY <1>1, <1>2, <1>3 DEF IInv, MappedInv, MappedIsLive, Held, Live
<1>8. OneCustomerPerUser'
  <2>1. \A s \in sessions : s.user \in User /\ s.customer \in Customer
    BY DEF IInv, TypeOK
  <2> QED
    BY <1>2, <2>1, Customers DEF IInv, OneCustomerPerUser
<1>9. NoSilentOrphan'
  <2>1. \A v \in Worker : job'[v].new = job[v].new
    BY <1>2
  <2>2. \A u \in User : mapping[u] # NoCustomer => mapping'[u] = mapping[u]
    BY <1>2
  <2> QED
    BY <1>2, <2>1, <2>2, Customers DEF IInv, NoSilentOrphan, Live
<1> QED
  BY <1>4, <1>5, <1>6, <1>7, <1>8, <1>9 DEF IInv

LEMMA InsertStep ==
    ASSUME IInv, NEW w \in Worker, Insert(w)
    PROVE  IInv'
<1> DEFINE j == job[w]
           won == [j EXCEPT !.at = "answer", !.answer = j.new]
           lost == [j EXCEPT !.at = "reselect"]
<1>1. j \in Job /\ j.at = "insert" /\ j.at \in Holding /\ Answers(j) /\ j.new \in Customer
  BY Busy DEF Insert, Holding, Held
<1>2. /\ won \in Job /\ won.at = "answer" /\ won.user = j.user /\ won.new = j.new
      /\ won.answer = j.new
      /\ lost \in Job /\ lost.at = "reselect" /\ lost.user = j.user /\ lost.new = j.new
      /\ lost.answer = j.answer
  BY <1>1 DEF Job
<1>3. UNCHANGED <<customer, sessions, leaked, errored>>
      /\ IF mapping[j.user] = NoCustomer
         THEN mapping' = [mapping EXCEPT ![j.user] = j.new] /\ job' = [job EXCEPT ![w] = won]
         ELSE mapping' = mapping /\ job' = [job EXCEPT ![w] = lost]
  BY DEF Insert, IInv, TypeOK
<1> HIDE DEF won, lost
<1>4. CASE mapping[j.user] = NoCustomer
  BY <1>1, <1>2, <1>3, <1>4, RecordStep
<1>5. CASE mapping[j.user] # NoCustomer
  <2>1. Answers(lost) /\ lost.at \in Holding
    BY <1>1, <1>2 DEF Answers, Holding
  <2> QED
    BY <1>1, <1>2, <1>3, <1>5, <2>1, MoveStep
<1> QED
  BY <1>4, <1>5

LEMMA InsertFailsStep ==
    ASSUME IInv, NEW w \in Worker, InsertFails(w)
    PROVE  IInv'
<1> DEFINE j == job[w]
           b == [j EXCEPT !.at = "delete"]
<1>1. j \in Job /\ j.at = "insert" /\ j.at \in Holding /\ Answers(j) /\ Held(w)
      /\ j.new \in Customer
  BY Busy DEF InsertFails, Holding, Held
<1>2. b \in Job /\ b.at = "delete" /\ b.user = j.user /\ b.new = j.new /\ b.answer = j.answer
  BY <1>1 DEF Job
<1>3. /\ job' = [job EXCEPT ![w] = b] /\ errored' = errored \cup {j.new}
      /\ UNCHANGED <<customer, sessions, leaked>>
      /\ mapping' = mapping \/ (mapping[j.user] = NoCustomer
                               /\ mapping' = [mapping EXCEPT ![j.user] = j.new])
  BY DEF InsertFails, IInv, TypeOK
<1> HIDE DEF b
<1>4. CASE mapping[j.user] = NoCustomer /\ mapping' = [mapping EXCEPT ![j.user] = j.new]
  BY <1>1, <1>2, <1>3, <1>4, RecordStep
<1>5. CASE mapping' = mapping
  <2>1. \A v \in Worker : job'[v] = IF v = w THEN b ELSE job[v]
    BY <1>3 DEF IInv, TypeOK
  <2>2. TypeOK'
    BY <1>1, <1>2, <1>3, <1>5, <2>1 DEF IInv, TypeOK
  <2>3. \A v \in Worker :
           /\ job'[v].new = job[v].new /\ job'[v].user = job[v].user
           /\ job'[v].at = job[v].at \/ (v = w /\ job'[v].at = "delete")
           /\ job'[v].at \in Holding <=> job[v].at \in Holding
    BY <1>1, <1>2, <2>1 DEF Holding
  <2>4. HeldInv'
    <3>1. ASSUME NEW v \in Worker, job'[v].at \in Holding PROVE Held(v)'
      <4>1. Held(v)
        BY <2>3, <3>1 DEF IInv, HeldInv
      <4>2. \A u \in User : mapping[u] = job[v].new => v # w
        BY <1>1, <4>1 DEF Held
      <4> QED
        BY <1>3, <1>5, <2>3, <4>1, <4>2 DEF Held, Live
    <3> QED
      BY <3>1 DEF HeldInv
  <2>5. AnswerInv'
    <3>1. ASSUME NEW v \in Worker, job'[v].at # "idle" PROVE Answers(job[v])'
      <4>1. CASE v = w
        BY <1>1, <1>2, <1>5, <2>1, <4>1 DEF Answers
      <4>2. CASE v # w
        BY <1>5, <2>1, <3>1, <4>2 DEF IInv, AnswerInv, Answers
      <4> QED
        BY <4>1, <4>2
    <3> QED
      BY <3>1 DEF AnswerInv
  <2>6. MappedInv' /\ MappedIsLive' /\ OneCustomerPerUser'
    BY <1>3, <1>5 DEF IInv, MappedInv, MappedIsLive, OneCustomerPerUser, Live
  <2>7. NoSilentOrphan'
    BY <1>3, <1>5, <2>3 DEF IInv, NoSilentOrphan, Live
  <2> QED
    BY <2>2, <2>4, <2>5, <2>6, <2>7 DEF IInv
<1> QED
  BY <1>3, <1>4, <1>5

\* The call that undoes a creation only ever meets a customer that is on no
\* record, or on that of an INSERT that had reported an error.
LEMMA CustomersDelStep ==
    ASSUME IInv, NEW w \in Worker, CustomersDel(w)
    PROVE  IInv'
<1> DEFINE j == job[w]
           b == IF j.answer = NoCustomer THEN Idle
                ELSE [j EXCEPT !.at = "answer", !.new = NoCustomer]
<1>1. /\ j \in Job /\ j.at = "delete" /\ j.at \in Holding /\ Answers(j) /\ Held(w)
      /\ j.new \in Customer
  BY Busy DEF CustomersDel, Holding, Held
<1>2. /\ b \in Job \cup {Idle} /\ b.at \in {"idle", "answer"} /\ b.at \notin Holding
      /\ b.new = NoCustomer
      /\ b.at # "idle" => b.answer # NoCustomer /\ b.answer = j.answer /\ b.user = j.user
  <2>1. CASE j.answer = NoCustomer
    BY <2>1 DEF Idle, Holding
  <2>2. CASE j.answer # NoCustomer
    BY <1>1, <2>2 DEF Job, Holding
  <2> QED
    BY <2>1, <2>2
<1>3. /\ job' = [job EXCEPT ![w] = b] /\ UNCHANGED <<mapping, sessions, errored>>
      /\ \/ /\ customer' = [customer EXCEPT ![j.new] = [@ EXCEPT !.state = "deleted"]]
            /\ leaked' = leaked
         \/ leaked' = leaked \cup {j.new} /\ customer' = customer
  <2>1. job' = [job EXCEPT ![w] = b]
    BY DEF CustomersDel, IInv, TypeOK
  <2> QED
    BY <2>1 DEF CustomersDel
<1> HIDE DEF b
<1>4. b.at # "idle" => Answers(b)
  BY <1>1, <1>2 DEF Answers
<1>5. CASE leaked' = leaked \cup {j.new} /\ customer' = customer
  <2>1. /\ leaked' \subseteq Customer /\ leaked \subseteq leaked'
        /\ sessions' \subseteq [user : User, customer : Customer] /\ OneCustomerPerUser'
        /\ job[w].new \in leaked'
    BY <1>1, <1>3, <1>5 DEF IInv, TypeOK, OneCustomerPerUser
  <2> QED
    BY <1>2, <1>3, <1>4, <1>5, <2>1, QuietStep
<1>6. CASE /\ customer' = [customer EXCEPT ![j.new] = [@ EXCEPT !.state = "deleted"]]
           /\ leaked' = leaked
  <2> DEFINE row == [customer[j.new] EXCEPT !.state = "deleted"]
  <2>1. Live(j.new) /\ customer[j.new] \in [state : CustomerState, user : User]
    BY <1>1 DEF Held, Live, IInv, TypeOK
  <2>2. /\ row \in [state : CustomerState, user : User] /\ row # NoCustomer
        /\ row.state = "deleted" /\ row.user = customer[j.new].user
    BY <2>1, CustomerAssumption DEF CustomerState
  <2>3. /\ \A d \in Customer : customer'[d] = IF d = j.new THEN row ELSE customer[d]
        /\ \A v \in Worker : job'[v] = IF v = w THEN b ELSE job[v]
    BY <1>3, <1>6 DEF IInv, TypeOK
  <2>4. customer' \in [Customer -> [state : CustomerState, user : User] \cup {NoCustomer}]
    BY <1>6, <2>2 DEF IInv, TypeOK
  <2> HIDE DEF row
  <2>5. TypeOK'
    BY <1>2, <1>3, <1>6, <2>3, <2>4 DEF IInv, TypeOK
  <2>6. \A d \in Customer : d # j.new => customer'[d] = customer[d]
    BY <2>3
  <2>7. \A d \in Customer : Live(d)' => d # j.new /\ Live(d)
    BY <2>2, <2>3 DEF Live
  <2>8. HeldInv'
    <3>1. ASSUME NEW v \in Worker, job'[v].at \in Holding PROVE Held(v)'
      <4>1. v # w /\ job'[v] = job[v] /\ Held(v) /\ job[v].new # j.new
        BY <1>1, <1>2, <2>3, <3>1 DEF IInv, HeldInv, Held
      <4> QED
        BY <1>2, <1>3, <2>3, <4>1 DEF Held, Live
    <3> QED
      BY <3>1 DEF HeldInv
  <2>9. AnswerInv'
    <3>1. ASSUME NEW v \in Worker, job'[v].at # "idle" PROVE Answers(job[v])'
      <4>1. CASE v = w
        BY <1>3, <1>4, <2>3, <3>1, <4>1 DEF Answers
      <4>2. CASE v # w
        BY <1>3, <2>3, <3>1, <4>2 DEF IInv, AnswerInv, Answers
      <4> QED
        BY <4>1, <4>2
    <3> QED
      BY <3>1 DEF AnswerInv
  <2>10. MappedInv' /\ OneCustomerPerUser'
    <3>1. \A d \in Customer : /\ customer[d] # NoCustomer => customer'[d] # NoCustomer
                              /\ customer'[d].user = customer[d].user
      BY <2>2, <2>3
    <3>2. MappedInv'
      BY <1>3, <3>1 DEF IInv, TypeOK, MappedInv
    <3>3. OneCustomerPerUser'
      BY <1>3, <3>1 DEF IInv, TypeOK, OneCustomerPerUser
    <3> QED
      BY <3>2, <3>3
  <2>11. MappedIsLive'
    <3>1. ASSUME NEW u \in User, mapping[u] # NoCustomer
          PROVE  Live(mapping[u])' \/ mapping[u] \in errored
      <4>1. CASE mapping[u] = j.new
        BY <1>1, <4>1 DEF Held
      <4>2. CASE mapping[u] # j.new
        <5>1. customer'[mapping[u]] = customer[mapping[u]] /\ mapping' = mapping
          BY <1>3, <2>6, <3>1, <4>2 DEF IInv, TypeOK
        <5> QED
          BY <3>1, <5>1 DEF IInv, MappedIsLive, Live
      <4> QED
        BY <4>1, <4>2
    <3> QED
      BY <1>3, <3>1 DEF MappedIsLive, Live
  <2>12. NoSilentOrphan'
    <3>1. ASSUME NEW d \in Customer, Live(d)'
          PROVE  \/ d \in {mapping[u] : u \in User} \cup leaked
                 \/ \E v \in Worker : job'[v].new = d
      BY <2>3, <2>7, <3>1 DEF IInv, NoSilentOrphan
    <3> QED
      BY <1>3, <1>6, <3>1 DEF NoSilentOrphan
  <2> QED
    BY <2>5, <2>8, <2>9, <2>10, <2>11, <2>12 DEF IInv
<1> QED
  BY <1>3, <1>5, <1>6

LEMMA NextIInv == IInv /\ [Next]_vars => IInv'
<1> SUFFICES ASSUME IInv, [Next]_vars PROVE IInv'
  OBVIOUS
<1>1. CASE UNCHANGED vars
  BY <1>1 DEF vars, IInv, TypeOK, HeldInv, Held, AnswerInv, Answers, MappedInv,
     OneCustomerPerUser, MappedIsLive, NoSilentOrphan, Live
<1> QED
  BY <1>1, EnsureStep, CustomersNewStep, CustomersNewFailsStep, InsertStep, InsertFailsStep,
     ReselectStep, CustomersDelStep, OpenSessionStep, CrashStep DEF Next

LEMMA Inductive == Spec => []IInv
BY InitIInv, NextIInv, PTL DEF Spec

-----------------------------------------------------------------------------
\* Customers, records and requests keep their types, and a request that is to
\* open a session has a customer to open it for.
THEOREM TypeCorrect == Spec => []TypeOK
<1>1. IInv => TypeOK
  BY DEF IInv
<1> QED
  BY <1>1, Inductive, PTL

\* For any users and any number of racing first requests: all sessions of a
\* user are for one customer, the user's own, and the one on record.
THEOREM OneCustomer == Spec => []OneCustomerPerUser
<1>1. IInv => OneCustomerPerUser
  BY DEF IInv
<1> QED
  BY <1>1, Inductive, PTL

\* A customer on record is gone only after its own INSERT reported an error.
THEOREM MappedStaysLive == Spec => []MappedIsLive
<1>1. IInv => MappedIsLive
  BY DEF IInv
<1> QED
  BY <1>1, Inductive, PTL

\* Losing a race orphans no customer; only failed calls and crashes do.
THEOREM NoOrphan == Spec => []NoSilentOrphan
<1>1. IInv => NoSilentOrphan
  BY DEF IInv
<1> QED
  BY <1>1, Inductive, PTL
=============================================================================
