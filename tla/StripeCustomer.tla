--------------------------- MODULE StripeCustomer ---------------------------
(***************************************************************************)
(* The Stripe customer of a user: EnsureStripeCustomerID, which creates it  *)
(* on first use, at Stripe and in stripe_customers, and the sessions that   *)
(* the checkout and portal handlers open for it.                           *)
(*                                                                         *)
(* Neither system can roll the other back: what a request has done at       *)
(* Stripe when its INSERT loses or fails it must undo by a further call.    *)
(***************************************************************************)
EXTENDS Naturals, FiniteSets

CONSTANTS User,
          Worker,        \* concurrent request goroutines
          MaxCustomers,  \* bound: customers ever created at Stripe
          NoCustomer

ASSUME CustomerAssumption ==
    /\ MaxCustomers \in Nat /\ NoCustomer \notin Nat
    /\ NoCustomer \notin [state : {"live", "deleted"}, user : User]

VARIABLES customer,      \* customer[c]: customer c at Stripe
          mapping,       \* mapping[u]: the row of stripe_customers
          job,           \* job[w]: what request w is doing
          sessions,      \* checkout and portal sessions opened at Stripe
          leaked,        \* history: customers an error or a crash left behind
          errored        \* history: customers whose INSERT reported an error

vars == <<customer, mapping, job, sessions, leaked, errored>>

-----------------------------------------------------------------------------
Customer == 1..MaxCustomers
CustomerState == {"live", "deleted"}

\* at "create": no row was found; "insert", "reselect": the customer new exists
\* at Stripe, the INSERT is next, respectively has met a conflict; "delete":
\* new is to be deleted before answer is returned; "answer": a session is to
\* be opened for the customer answer.
Job == [at : {"create", "insert", "reselect", "delete", "answer"}, user : User,
        new : Customer \cup {NoCustomer}, answer : Customer \cup {NoCustomer}]
Idle == [at |-> "idle", new |-> NoCustomer]

TypeOK ==
    /\ customer \in [Customer -> [state : CustomerState, user : User] \cup {NoCustomer}]
    /\ mapping \in [User -> Customer \cup {NoCustomer}]
    /\ job \in [Worker -> Job \cup {Idle}]
    /\ \A w \in Worker : job[w].at = "answer" => job[w].answer # NoCustomer
    /\ sessions \subseteq [user : User, customer : Customer]
    /\ leaked \subseteq Customer /\ errored \subseteq Customer

Init ==
    /\ customer = [c \in Customer |-> NoCustomer]
    /\ mapping = [u \in User |-> NoCustomer]
    /\ job = [w \in Worker |-> Idle]
    /\ sessions = {} /\ leaked = {} /\ errored = {}

-----------------------------------------------------------------------------
Live(c) == customer[c] # NoCustomer /\ customer[c].state = "live"

\* Stripe gives every customer an id of its own.
NewCustomer(c, u) ==
    /\ customer[c] = NoCustomer
    /\ \A d \in Customer : customer[d] = NoCustomer => c <= d
    /\ customer' = [customer EXCEPT ![c] = [state |-> "live", user |-> u]]

\* The SELECT that EnsureStripeCustomerID begins with; LookupStripeCustomerID,
\* for the portal, is the same but for answering 404 instead of creating one.
EnsureStripeCustomerID(w, u) ==
    /\ job[w].at = "idle"
    /\ job' = [job EXCEPT ![w] =
                 [at |-> IF mapping[u] = NoCustomer THEN "create" ELSE "answer",
                  user |-> u, new |-> NoCustomer, answer |-> mapping[u]]]
    /\ UNCHANGED <<customer, mapping, sessions, leaked, errored>>

CustomersNew(w) ==
    /\ job[w].at = "create"
    /\ \E c \in Customer :
         /\ NewCustomer(c, job[w].user)
         /\ job' = [job EXCEPT ![w] = [@ EXCEPT !.at = "insert", !.new = c]]
    /\ UNCHANGED <<mapping, sessions, leaked, errored>>

\* The call reports an error; Stripe may have created the customer all the same.
CustomersNewFails(w) ==
    /\ job[w].at = "create"
    /\ \/ UNCHANGED <<customer, leaked>>
       \/ \E c \in Customer : NewCustomer(c, job[w].user) /\ leaked' = leaked \cup {c}
    /\ job' = [job EXCEPT ![w] = Idle]
    /\ UNCHANGED <<mapping, sessions, errored>>

\* Mutant: ON CONFLICT DO UPDATE.
InsertOverwrites(w) ==
    LET j == job[w] IN
    /\ j.at = "insert"
    /\ mapping' = [mapping EXCEPT ![j.user] = j.new]
    /\ job' = [job EXCEPT ![w] = [@ EXCEPT !.at = "answer", !.answer = j.new]]
    /\ UNCHANGED <<customer, sessions, leaked, errored>>

\* INSERT ... ON CONFLICT (user_id) DO NOTHING RETURNING: one user, one row.
Insert(w) ==
    LET j == job[w] IN
    /\ j.at = "insert"
    /\ IF mapping[j.user] = NoCustomer
       THEN /\ mapping' = [mapping EXCEPT ![j.user] = j.new]
            /\ job' = [job EXCEPT ![w] = [@ EXCEPT !.at = "answer", !.answer = j.new]]
       ELSE /\ job' = [job EXCEPT ![w] = [@ EXCEPT !.at = "reselect"]]
            /\ UNCHANGED mapping
    /\ UNCHANGED <<customer, sessions, leaked, errored>>

\* Mutant: the caller goes on with the customer it could not record.
InsertFailsAnswers(w) ==
    /\ job[w].at = "insert"
    /\ job' = [job EXCEPT ![w] = [@ EXCEPT !.at = "answer"]]
    /\ errored' = errored \cup {job[w].new}
    /\ UNCHANGED <<customer, mapping, sessions, leaked>>

\* The INSERT reports an error: a lost connection, the client gone.  It may
\* have been committed before.
InsertFails(w) ==
    LET j == job[w] IN
    /\ j.at = "insert"
    /\ \/ UNCHANGED mapping
       \/ /\ mapping[j.user] = NoCustomer
          /\ mapping' = [mapping EXCEPT ![j.user] = j.new]
    /\ job' = [job EXCEPT ![w] = [@ EXCEPT !.at = "delete"]]
    /\ errored' = errored \cup {j.new}
    /\ UNCHANGED <<customer, sessions, leaked>>

\* Mutant: the wrong one of the two customers is deleted.
ReselectDeletesExisting(w) ==
    LET j == job[w] IN
    /\ j.at = "reselect"
    /\ job' = [job EXCEPT ![w] = [@ EXCEPT !.at = "delete", !.new = mapping[j.user],
                                           !.answer = mapping[j.user]]]
    /\ UNCHANGED <<customer, mapping, sessions, leaked, errored>>

\* Mutant: the loser answers and leaves its customer alone.
ReselectKeepsExtra(w) ==
    LET j == job[w] IN
    /\ j.at = "reselect"
    /\ job' = [job EXCEPT ![w] = [@ EXCEPT !.at = "answer", !.new = NoCustomer,
                                           !.answer = mapping[j.user]]]
    /\ UNCHANGED <<customer, mapping, sessions, leaked, errored>>

\* A race was lost: the winner's customer is the answer; if the SELECT fails
\* there is none.
Reselect(w) ==
    LET j == job[w] IN
    /\ j.at = "reselect"
    /\ \E c \in {mapping[j.user], NoCustomer} :
         job' = [job EXCEPT ![w] = [@ EXCEPT !.at = "delete", !.answer = c]]
    /\ UNCHANGED <<customer, mapping, sessions, leaked, errored>>

\* Del is called whatever becomes of the request, its failure only logged.
CustomersDel(w) ==
    LET j == job[w] IN
    /\ j.at = "delete"
    /\ \/ /\ customer' = [customer EXCEPT ![j.new] = [@ EXCEPT !.state = "deleted"]]
          /\ UNCHANGED leaked
       \/ /\ leaked' = leaked \cup {j.new}
          /\ UNCHANGED customer
    /\ job' = [job EXCEPT ![w] = IF j.answer = NoCustomer THEN Idle
                                 ELSE [@ EXCEPT !.at = "answer", !.new = NoCustomer]]
    /\ UNCHANGED <<mapping, sessions, errored>>

\* CreateProCheckoutSession, CreateCustomerPortalSession: Stripe refuses a
\* customer that was deleted.
OpenSession(w) ==
    LET j == job[w] IN
    /\ j.at = "answer"
    /\ sessions' = IF Live(j.answer)
                   THEN sessions \cup {[user |-> j.user, customer |-> j.answer]}
                   ELSE sessions
    /\ job' = [job EXCEPT ![w] = Idle]
    /\ UNCHANGED <<customer, mapping, leaked, errored>>

\* The process stops anywhere in between.
Crash(w) ==
    /\ job[w].at # "idle"
    /\ leaked' = leaked \cup ({job[w].new} \ {NoCustomer})
    /\ job' = [job EXCEPT ![w] = Idle]
    /\ UNCHANGED <<customer, mapping, sessions, errored>>

Next == \E w \in Worker :
           \/ \E u \in User : EnsureStripeCustomerID(w, u)
           \/ CustomersNew(w) \/ CustomersNewFails(w)
           \/ Insert(w) \/ InsertFails(w) \/ Reselect(w)
           \/ CustomersDel(w) \/ OpenSession(w) \/ Crash(w)

Spec == Init /\ [][Next]_vars

-----------------------------------------------------------------------------
(* Properties *)

\* However many requests raced for the first customer, and whatever failed
\* since: all sessions of a user are for one customer, created for that user,
\* and it is the customer on record.
OneCustomerPerUser ==
    \A s \in sessions : /\ s.customer = mapping[s.user]
                        /\ customer[s.customer].user = s.user

\* A lost race deletes the loser's customer, never the one on record: a mapped
\* customer is gone from Stripe only if its own INSERT had reported an error
\* (after committing), which is how a user can get stuck with a dead customer.
MappedIsLive ==
    \A u \in User : mapping[u] # NoCustomer =>
        Live(mapping[u]) \/ mapping[u] \in errored

\* A customer at Stripe that is on nobody's record and in no request's hands
\* was left behind by a call that failed or by a crash, not by losing a race.
NoSilentOrphan ==
    \A c \in Customer :
        Live(c) => \/ c \in {mapping[u] : u \in User} \cup leaked
                   \/ \E w \in Worker : job[w].new = c
=============================================================================
