-------------------------- MODULE TranslationQuota --------------------------
(***************************************************************************)
(* The free plan's monthly allowance of context translations: the table    *)
(* monthly_context_translation_quotas and POST /api/v1/translate/context,  *)
(* whose handler looks at the allowance, then calls the translation        *)
(* provider, then charges, with no lock from the first step to the last.   *)
(***************************************************************************)
EXTENDS Integers, FiniteSets

CONSTANTS User,
          Req,        \* concurrent request goroutines
          Limit,      \* values FREE_CONTEXT_TRANSLATIONS_PER_MONTH is given
          MaxMonth,   \* bound: the last UTC month considered
          NoRow       \* the table has no row for this user and month

Row == [limit : Nat, used : Nat]

ASSUME TranslationQuotaAssumption ==
    /\ IsFiniteSet(Req)
    /\ Limit \subseteq Nat          \* parseIntEnvNonNegative
    /\ MaxMonth \in Nat \ {0}
    /\ NoRow \notin Row

VARIABLES
    row,        \* row[u, p]: the quota row of user u for month p
    known,      \* users that have registered
    pro,        \* users with an active Pro entitlement (see Entitlement)
    month,      \* PeriodKeyUTC(time.Now())
    cfgLimit,   \* cfg.FreeContextTranslationsPerMonth of the running process
    req,        \* req[r]: what request r is doing
    answered    \* history: translations that free clients received, by month

vars == <<row, known, pro, month, cfgLimit, req, answered>>

-----------------------------------------------------------------------------
Month == 1..MaxMonth
NoMonth == 0          \* the request of a Pro user charges no month
Key == User \X Month

Phase == {"idle", "view", "ensure", "provider", "charge", "answer"}
Request == [at : Phase, user : User, period : Month \cup {NoMonth}]

TypeOK ==
    /\ row \in [Key -> Row \cup {NoRow}]
    /\ known \subseteq User
    /\ pro \subseteq User
    /\ month \in Month
    /\ cfgLimit \in Limit
    /\ req \in [Req -> Request]
    /\ answered \in [Key -> Nat]

Init ==
    /\ row = [k \in Key |-> NoRow]
    /\ known = {}
    /\ pro = {}
    /\ month = 1
    /\ cfgLimit \in Limit
    /\ req \in [Req -> [at : {"idle"}, user : User, period : {NoMonth}]]
    /\ answered = [k \in Key |-> 0]

Goto(r, phase) == req' = [req EXCEPT ![r].at = phase]
Finish(r) == req' = [req EXCEPT ![r].at = "idle", ![r].period = NoMonth]
NewRow == [limit |-> cfgLimit, used |-> 0]
KeyOf(r) == <<req[r].user, req[r].period>>

-----------------------------------------------------------------------------
\* The first login of u creates the user and the row of the current month in
\* one transaction.
InsertInitial(u) ==
    /\ u \notin known
    /\ known' = known \cup {u}
    /\ row' = [row EXCEPT ![<<u, month>>] = NewRow]
    /\ UNCHANGED <<pro, month, cfgLimit, req, answered>>

\* A translation request arrives and HasActivePro is read: Pro users go to
\* the provider directly.  For the others, period is the earliest month that
\* EnsureCurrentMonthRow, which reads the clock later, can compute.
TranslateBegin(r, u) ==
    /\ req[r].at = "idle"
    /\ u \in known
    /\ req' = [req EXCEPT ![r] =
                 IF u \in pro THEN [at |-> "provider", user |-> u, period |-> NoMonth]
                              ELSE [at |-> "ensure", user |-> u, period |-> month]]
    /\ UNCHANGED <<row, known, pro, month, cfgLimit, answered>>

\* GET /me/entitlements of a user who is not Pro ensures the row as well.
ViewBegin(r, u) ==
    /\ req[r].at = "idle"
    /\ u \in known \ pro
    /\ req' = [req EXCEPT ![r] = [at |-> "view", user |-> u, period |-> month]]
    /\ UNCHANGED <<row, known, pro, month, cfgLimit, answered>>

\* Mutant: the handler does not look at what remains.
EnsureForTranslateUnchecked(r, p) ==
    /\ req[r].at = "ensure"
    /\ p \in req[r].period..month
    /\ row' = [row EXCEPT ![<<req[r].user, p>>] = IF @ = NoRow THEN NewRow ELSE @]
    /\ req' = [req EXCEPT ![r].at = "provider", ![r].period = p]
    /\ UNCHANGED <<known, pro, month, cfgLimit, answered>>

\* INSERT ... ON CONFLICT DO UPDATE (of nothing) RETURNING: p is the month
\* read from the clock before the statement ran.  A request whose row has
\* nothing left is refused (403 context_translation_quota_exhausted).
EnsureForTranslate(r, p) ==
    /\ req[r].at = "ensure"
    /\ p \in req[r].period..month
    /\ row' = [row EXCEPT ![<<req[r].user, p>>] = IF @ = NoRow THEN NewRow ELSE @]
    /\ LET q == row'[<<req[r].user, p>>] IN
       IF q.used < q.limit
       THEN req' = [req EXCEPT ![r].at = "provider", ![r].period = p]
       ELSE Finish(r)
    /\ UNCHANGED <<known, pro, month, cfgLimit, answered>>

\* Mutant: ON CONFLICT DO UPDATE SET monthly_limit = EXCLUDED.monthly_limit.
EnsureForViewResets(r, p) ==
    /\ req[r].at = "view"
    /\ p \in req[r].period..month
    /\ row' = [row EXCEPT ![<<req[r].user, p>>] =
                 IF @ = NoRow THEN NewRow ELSE [@ EXCEPT !.limit = cfgLimit]]
    /\ Finish(r)
    /\ UNCHANGED <<known, pro, month, cfgLimit, answered>>

EnsureForView(r, p) ==
    /\ req[r].at = "view"
    /\ p \in req[r].period..month
    /\ row' = [row EXCEPT ![<<req[r].user, p>>] = IF @ = NoRow THEN NewRow ELSE @]
    /\ Finish(r)
    /\ UNCHANGED <<known, pro, month, cfgLimit, answered>>

\* The provider answers within TranslateTimeout with usable output.
TranslateOk(r) ==
    /\ req[r].at = "provider"
    /\ Goto(r, IF req[r].period = NoMonth THEN "answer" ELSE "charge")
    /\ UNCHANGED <<row, known, pro, month, cfgLimit, answered>>

\* An empty field, a provider error, unusable output or a timeout: the
\* handler answers 4xx or 5xx and nothing is charged.
TranslateFails(r) ==
    /\ req[r].at = "provider"
    /\ Finish(r)
    /\ UNCHANGED <<row, known, pro, month, cfgLimit, answered>>

\* Mutant: the period is computed again when the translation is charged.
IncrementUsedCountThisMonth(r) ==
    /\ req[r].at = "charge"
    /\ row[<<req[r].user, month>>] # NoRow
    /\ row' = [row EXCEPT ![<<req[r].user, month>>].used = @ + 1]
    /\ Goto(r, "answer")
    /\ UNCHANGED <<known, pro, month, cfgLimit, answered>>

\* Mutant: the UPDATE takes one off.
IncrementUsedCountDown(r) ==
    /\ req[r].at = "charge"
    /\ row' = [row EXCEPT ![KeyOf(r)].used = @ - 1]
    /\ Goto(r, "answer")
    /\ UNCHANGED <<known, pro, month, cfgLimit, answered>>

\* used_count = used_count + 1 on the row of the month that was looked at.
IncrementUsedCount(r) ==
    /\ req[r].at = "charge"
    /\ row' = [row EXCEPT ![KeyOf(r)].used = @ + 1]
    /\ Goto(r, "answer")
    /\ UNCHANGED <<known, pro, month, cfgLimit, answered>>

\* The UPDATE returns an error (500, no translation is sent): a connection
\* lost before the statement ran, or after it was committed.
IncrementFails(r) ==
    /\ req[r].at = "charge"
    /\ \/ UNCHANGED row
       \/ row' = [row EXCEPT ![KeyOf(r)].used = @ + 1]
    /\ Finish(r)
    /\ UNCHANGED <<known, pro, month, cfgLimit, answered>>

\* The translation reaches the client.
Answer(r) ==
    /\ req[r].at = "answer"
    /\ answered' = IF req[r].period = NoMonth THEN answered
                   ELSE [answered EXCEPT ![KeyOf(r)] = @ + 1]
    /\ Finish(r)
    /\ UNCHANGED <<row, known, pro, month, cfgLimit>>

\* The client goes away: the request's context is cancelled, or the reply is
\* lost.  What was written stays.
Disconnect(r) ==
    /\ req[r].at # "idle"
    /\ Finish(r)
    /\ UNCHANGED <<row, known, pro, month, cfgLimit, answered>>

\* The process stops, with every request it was serving, and is started with
\* another FREE_CONTEXT_TRANSLATIONS_PER_MONTH.
Restart ==
    /\ \E n \in Limit : n # cfgLimit /\ cfgLimit' = n
    /\ req' = [r \in Req |-> [req[r] EXCEPT !.at = "idle", !.period = NoMonth]]
    /\ UNCHANGED <<row, known, pro, month, answered>>

\* A purchase is granted to u, or the entitlement ends.
ProChanges(u) ==
    /\ u \in known
    /\ pro' = IF u \in pro THEN pro \ {u} ELSE pro \cup {u}
    /\ UNCHANGED <<row, known, month, cfgLimit, req, answered>>

NextMonth ==
    /\ month < MaxMonth
    /\ month' = month + 1
    /\ UNCHANGED <<row, known, pro, cfgLimit, req, answered>>

Next ==
    \/ \E u \in User : InsertInitial(u) \/ ProChanges(u)
    \/ \E r \in Req, u \in User : TranslateBegin(r, u) \/ ViewBegin(r, u)
    \/ \E r \in Req, p \in Month : EnsureForTranslate(r, p) \/ EnsureForView(r, p)
    \/ \E r \in Req : \/ TranslateOk(r) \/ TranslateFails(r)
                      \/ IncrementUsedCount(r) \/ IncrementFails(r)
                      \/ Answer(r) \/ Disconnect(r)
    \/ Restart
    \/ NextMonth

Spec == Init /\ [][Next]_vars

-----------------------------------------------------------------------------
(* Properties *)

\* Requests that were let through on month k's allowance and did not charge
\* it yet, and those that charged it and did not reply yet.
Admitted(k) == {r \in Req : req[r].at \in {"provider", "charge"} /\ KeyOf(r) = k}
Answering(k) == {r \in Req : req[r].at = "answer" /\ KeyOf(r) = k}

\* How far the check-then-charge race of the handler can overshoot: requests
\* that were all let through on the last free translation may exceed the
\* limit by their number less one, whatever is charged, lost or retried in
\* between; an allowance of zero is never exceeded.
OvershootBounded ==
    \A k \in Key : row[k] # NoRow =>
        IF row[k].limit = 0
        THEN row[k].used = 0 /\ Admitted(k) = {}
        ELSE row[k].used + Cardinality(Admitted(k)) <= row[k].limit + Cardinality(Req) - 1

\* No translation is given away: what the clients of a free user received was
\* charged, to the month whose allowance let it through, also when the month
\* ends, the user becomes Pro or the process restarts between the two
\* (periodKey is carried from EnsureCurrentMonthRow to IncrementUsedCount).
AnswersAreCharged ==
    \A k \in Key : answered[k] > 0 => row[k] # NoRow /\ answered[k] <= row[k].used

\* A row keeps the limit it was created with, whatever the configuration is
\* now, and its count is only ever raised, by one.
RowOnlyCharged ==
    \A k \in Key : row[k] # NoRow =>
        /\ row'[k] # NoRow
        /\ row'[k].limit = row[k].limit
        /\ row'[k].used \in {row[k].used, row[k].used + 1}
RowsOnlyCharged == [][RowOnlyCharged]_row

\* What README.md:11 says of the allowance ("Monthly usage quota
\* enforcement"): the count of a month never passes its limit.  The handler
\* does not keep it, see the run quota_race.
QuotaEnforced == \A k \in Key : row[k] # NoRow => row[k].used <= row[k].limit
=============================================================================
