---------------------------- MODULE SignIn_proofs ----------------------------
(***************************************************************************)
(* Proofs about the two halves of a sign-in: AppleToken, for any sets of keys *)
(* and of concurrent requests, then Identity, for any subjects, addresses and *)
(* concurrent sign-ins, and at the end both together (SignInSpec).          *)
(***************************************************************************)
EXTENDS MCIdentity, FiniteSetTheorems, TLAPS

(* AppleToken *)

Calling == {"first", "second", "forced"}
Checked == Calling \cup {"verified", "refused"}
Checks == [at : Checked, key : Key, fits : BOOLEAN, ever : BOOLEAN, always : BOOLEAN,
           failed : 0..2]

\* What an attempt that has its token knows, of keys k published and c cached:
\* a token that would pass now was good at some time; one good all the while is
\* good now, and in any keys at hand; and how often a fetch has failed by then.
Known(a, k, c) ==
    /\ a.fits /\ a.key \in k => a.ever
    /\ a.at \in Calling /\ a.fits /\ a.key \in c => a.ever
    /\ a.at = "verified" => a.ever
    /\ a.always => a.fits /\ a.key \in k /\ (c # {} => a.key \in c)
    /\ a.at = "forced" => c # {}
    /\ a.at = "first" => a.failed = 0
    /\ a.at = "second" => a.failed <= 1
    /\ a.at = "second" /\ a.always => a.failed = 1
    /\ a.at = "refused" /\ a.always => a.failed = 2

\* The inductive invariant.
FairInv ==
    /\ AppleTypeOK
    /\ published # {}
    /\ \A w \in Requester : attempt[w].at \in Checked => Known(attempt[w], published, cached[w])

LEMMA AttemptShape ==
    ASSUME NEW a \in Attempt
    PROVE  /\ a.at \in {"idle", "exchange"} \cup Checked
           /\ a.at \in Checked <=> a \in Checks
           /\ a.at \notin Checked <=> a \in [at : {"idle", "exchange"}]
BY DEF Attempt, Checks, Checked, Calling

LEMMA ChecksAreAttempts == Checks \subseteq Attempt /\ NoAttempt \in Attempt
BY DEF Attempt, Checks, Checked, Calling, NoAttempt

\* A step that gives one requester the keys c and the attempt b, and leaves the
\* others and the published keys alone.
LEMMA OneRequester ==
    ASSUME FairInv, NEW w \in Requester, NEW b \in Attempt, NEW c \in SUBSET Key,
           published' = published,
           attempt' = [attempt EXCEPT ![w] = b],
           cached' = [cached EXCEPT ![w] = c],
           b.at \in Checked => Known(b, published, c)
    PROVE  FairInv'
<1>1. AppleTypeOK'
  BY DEF FairInv, AppleTypeOK
<1>2. ASSUME NEW v \in Requester, attempt'[v].at \in Checked
      PROVE  Known(attempt'[v], published', cached'[v])
  <2>1. CASE v = w
    BY <1>2, <2>1 DEF FairInv, AppleTypeOK
  <2>2. CASE v # w
    <3>1. attempt'[v] = attempt[v] /\ cached'[v] = cached[v]
      BY <2>2 DEF FairInv, AppleTypeOK
    <3> QED
      BY <1>2, <3>1 DEF FairInv
  <2> QED
    BY <2>1, <2>2
<1> QED
  BY <1>1, <1>2 DEF FairInv

\* Apple publishes other keys, or tokens expire: what every attempt knows stays
\* true of what it is told.
LEMMA AgedKnown ==
    ASSUME FairInv, NEW keys \in SUBSET Key, keys # {}, NEW expired \in SUBSET Requester,
           published' = keys, attempt' = Aged(keys, expired), UNCHANGED cached
    PROVE  FairInv'
<1>1. ASSUME NEW w \in Requester
      PROVE  /\ attempt'[w] \in Attempt
             /\ attempt'[w].at \in Checked => Known(attempt'[w], keys, cached[w])
  <2>1. attempt[w] \in Attempt
    BY DEF FairInv, AppleTypeOK
  <2>2. CASE attempt[w].at \notin Checked
    <3>1. attempt'[w] = attempt[w]
      BY <2>1, <2>2, AttemptShape DEF Aged
    <3> QED
      BY <2>1, <2>2, <3>1
  <2>3. CASE attempt[w].at \in Checked
    <3> DEFINE a == attempt[w]
               good == a.key \in keys /\ a.fits /\ w \notin expired
    <3>1. a \in Checks
      BY <2>1, <2>3, AttemptShape
    <3>2. attempt'[w] = [a EXCEPT !.fits = a.fits /\ w \notin expired,
                                  !.ever = a.ever \/ good, !.always = a.always /\ good]
      BY <2>3 DEF Aged, Checked, Calling
    <3>3. attempt'[w] \in Checks
      BY <3>1, <3>2 DEF Checks
    <3>4. Known(a, published, cached[w])
      BY <2>3 DEF FairInv
    <3>5. /\ attempt'[w].at = a.at /\ attempt'[w].key = a.key /\ attempt'[w].failed = a.failed
          /\ attempt'[w].fits = (a.fits /\ w \notin expired)
          /\ attempt'[w].ever = (a.ever \/ good)
          /\ attempt'[w].always = (a.always /\ good)
      BY <3>1, <3>2 DEF Checks
    <3>6. Known(attempt'[w], keys, cached[w])
      BY <3>4, <3>5 DEF Known
    <3> QED
      BY <3>3, <3>6, ChecksAreAttempts
  <2> QED
    BY <2>2, <2>3
<1>2. attempt' \in [Requester -> Attempt]
  BY <1>1 DEF Aged
<1> QED
  BY <1>1, <1>2 DEF FairInv, AppleTypeOK

LEMMA FairInvInit == AppleInit => FairInv
<1> SUFFICES ASSUME AppleInit PROVE FairInv
  OBVIOUS
<1>1. AppleTypeOK /\ published # {}
  BY ChecksAreAttempts DEF AppleInit, AppleTypeOK
<1>2. \A w \in Requester : attempt[w].at \notin Checked
  BY DEF AppleInit, NoAttempt, Checked, Calling
<1> QED
  BY <1>1, <1>2 DEF FairInv

\* A token comes, posted or exchanged, and its verifier has no keys yet.
LEMMA VerifyingFair ==
    ASSUME FairInv, NEW w \in Requester, NEW key \in Key, NEW fits \in BOOLEAN,
           Verifying(w, key, fits)
    PROVE  FairInv'
<1> DEFINE good == key \in published /\ fits
           b == [at |-> "first", key |-> key, fits |-> fits,
                 ever |-> good, always |-> good, failed |-> 0]
<1>1. b \in Checks
  BY DEF Checks, Checked, Calling
<1>2. Known(b, published, {})
  BY DEF Known, Calling
<1>3. attempt' = [attempt EXCEPT ![w] = b] /\ cached' = [cached EXCEPT ![w] = {}]
      /\ published' = published
  BY DEF Verifying, NewAppleVerifier
<1>4. b \in Attempt
  BY <1>1, ChecksAreAttempts
<1> QED
  <2> HIDE DEF b
  <2> QED
    BY <1>2, <1>3, <1>4, OneRequester

\* An attempt ends, or starts with a code: nothing is known of a token.
LEMMA WithoutToken ==
    ASSUME FairInv, NEW w \in Requester, NEW b \in [at : {"idle", "exchange"}],
           attempt' = [attempt EXCEPT ![w] = b], UNCHANGED <<published, cached>>
    PROVE  FairInv'
<1>1. cached' = [cached EXCEPT ![w] = cached[w]] /\ cached[w] \in SUBSET Key
  BY DEF FairInv, AppleTypeOK
<1>2. b \in Attempt /\ b.at \notin Checked
  BY AttemptShape DEF Attempt, Checked, Calling
<1> QED
  BY <1>1, <1>2, OneRequester

LEMMA FetchFair ==
    ASSUME FairInv, NEW w \in Requester, Fetch(w)
    PROVE  FairInv'
<1> DEFINE a == attempt[w]
           b == [a EXCEPT !.at = IF @ = "second" THEN "forced" ELSE @]
<1>1. a.at \in {"first", "second"} /\ a \in Checks /\ published \in SUBSET Key
  BY AttemptShape DEF Fetch, Fetches, FairInv, AppleTypeOK, Checked, Calling
<1>2. /\ b \in Checks
      /\ b.at = IF a.at = "second" THEN "forced" ELSE a.at
      /\ b.key = a.key /\ b.fits = a.fits /\ b.ever = a.ever /\ b.always = a.always
      /\ b.failed = a.failed
  BY <1>1 DEF Checks, Checked, Calling
<1>3. Known(b, published, published)
  <2>1. Known(a, published, cached[w]) /\ published # {}
    BY <1>1 DEF FairInv, Checked, Calling
  <2> QED
    BY <1>1, <1>2, <2>1 DEF Known, Calling
<1>4. attempt' = [attempt EXCEPT ![w] = b] /\ cached' = [cached EXCEPT ![w] = published]
      /\ published' = published
  BY DEF Fetch
<1>5. b \in Attempt
  BY <1>2, ChecksAreAttempts
<1> QED
  <2> HIDE DEF b
  <2> QED
    BY <1>1, <1>3, <1>4, <1>5, OneRequester

LEMMA FetchFailsFair ==
    ASSUME FairInv, NEW w \in Requester, FetchFails(w)
    PROVE  FairInv'
<1> DEFINE a == attempt[w]
           b == [a EXCEPT !.at = Failing(w), !.failed = @ + 1]
<1>1. /\ a.at = "first" \/ a.at = "second"
      /\ a \in Checks /\ cached[w] \in SUBSET Key
      /\ Known(a, published, cached[w])
  BY AttemptShape DEF FetchFails, Fetches, FairInv, AppleTypeOK, Checked, Calling
<1>2. a.failed <= 1 /\ a.failed \in 0..2
  BY <1>1 DEF Known, Checks
<1>3. /\ b \in Checks
      /\ b.at = IF a.at = "first" THEN "second" ELSE "refused"
      /\ b.key = a.key /\ b.fits = a.fits /\ b.ever = a.ever /\ b.always = a.always
      /\ b.failed = a.failed + 1
  <2>1. a.failed + 1 \in 0..2
    BY <1>2
  <2>2. Failing(w) = IF a.at = "first" THEN "second" ELSE "refused"
    BY DEF Failing
  <2>3. Failing(w) \in Checked
    BY <2>2 DEF Checked, Calling
  <2>4. b \in Checks /\ b.at = Failing(w) /\ b.failed = a.failed + 1
    BY <1>1, <2>1, <2>3 DEF Checks
  <2> QED
    BY <1>1, <2>2, <2>4 DEF Checks
<1>4. Known(b, published, cached[w])
  BY <1>1, <1>2, <1>3 DEF Known, Calling
<1>5. attempt' = [attempt EXCEPT ![w] = b] /\ cached' = [cached EXCEPT ![w] = cached[w]]
      /\ published' = published
  BY DEF FetchFails, FairInv, AppleTypeOK
<1>6. b \in Attempt
  BY <1>3, ChecksAreAttempts
<1> QED
  <2> HIDE DEF b
  <2> QED
    BY <1>1, <1>4, <1>5, <1>6, OneRequester

LEMMA VerifyWithCacheFair ==
    ASSUME FairInv, NEW w \in Requester, VerifyWithCache(w)
    PROVE  FairInv'
<1> DEFINE a == attempt[w]
           b == [a EXCEPT !.at = IF attempt[w].key \in cached[w] /\ attempt[w].fits
                                 THEN "verified" ELSE Failing(w)]
<1>1. /\ (a.at = "first" /\ cached[w] # {}) \/ a.at = "forced"
      /\ a \in Checks /\ cached[w] \in SUBSET Key
      /\ Known(a, published, cached[w])
  BY AttemptShape DEF VerifyWithCache, Fetches, FairInv, AppleTypeOK, Checked, Calling
<1>2. /\ b \in Checks
      /\ b.at = IF a.key \in cached[w] /\ a.fits THEN "verified"
                ELSE IF a.at = "first" THEN "second" ELSE "refused"
      /\ b.key = a.key /\ b.fits = a.fits /\ b.ever = a.ever /\ b.always = a.always
      /\ b.failed = a.failed
  BY <1>1 DEF Checks, Checked, Calling, Failing
<1>3. Known(b, published, cached[w])
  BY <1>1, <1>2 DEF Known, Calling
<1>4. attempt' = [attempt EXCEPT ![w] = b] /\ cached' = [cached EXCEPT ![w] = cached[w]]
      /\ published' = published
  BY DEF VerifyWithCache, FairInv, AppleTypeOK
<1>5. b \in Attempt
  BY <1>2, ChecksAreAttempts
<1> QED
  <2> HIDE DEF b
  <2> QED
    BY <1>1, <1>3, <1>4, <1>5, OneRequester

LEMMA FairInvNext == FairInv /\ [AppleNext]_appleVars => FairInv'
<1> SUFFICES ASSUME FairInv, [AppleNext]_appleVars PROVE FairInv'
  OBVIOUS
<1>1. CASE UNCHANGED appleVars
  BY <1>1 DEF appleVars, FairInv, AppleTypeOK, Known
<1>2. ASSUME NEW keys \in SUBSET Key, Rotate(keys) PROVE FairInv'
  BY <1>2, AgedKnown DEF Rotate
<1>3. ASSUME NEW w \in Requester, Expires(w) PROVE FairInv'
  <2>1. published \in SUBSET Key /\ published # {}
    BY DEF FairInv, AppleTypeOK
  <2> QED
    BY <1>3, <2>1, AgedKnown DEF Expires
<1>4. ASSUME NEW w \in Requester, NEW key \in Key, NEW fits \in BOOLEAN,
             HandleAppleOIDC(w, key, fits)
      PROVE  FairInv'
  BY <1>4, VerifyingFair DEF HandleAppleOIDC
<1>5. ASSUME NEW w \in Requester,
             HandleAppleWebCallback(w) \/ ExchangeFails(w) \/ AttemptEnds(w)
      PROVE  FairInv'
  BY <1>5, WithoutToken DEF HandleAppleWebCallback, ExchangeFails, AttemptEnds, NoAttempt
<1>6. ASSUME NEW w \in Requester, ExchangeAppleAuthorizationCode(w) PROVE FairInv'
  <2>1. published \in SUBSET Key
    BY DEF FairInv, AppleTypeOK
  <2> QED
    BY <1>6, <2>1, VerifyingFair DEF ExchangeAppleAuthorizationCode
<1> QED
  BY <1>1, <1>2, <1>3, <1>4, <1>5, <1>6, FetchFair, FetchFailsFair, VerifyWithCacheFair
  DEF AppleNext

\* Requests, keys and caches keep their types, however keys rotate.
THEOREM AppleTypeCorrect == AppleSpec => []AppleTypeOK
<1>1. FairInv => AppleTypeOK
  BY DEF FairInv
<1> QED
  BY <1>1, FairInvInit, FairInvNext, PTL DEF AppleSpec

\* For any keys and any number of concurrent sign-ins: no token is accepted that
\* was never good since it came, and one good all the while is refused only when
\* both of its key fetches failed.
THEOREM AppleVerdictFair == AppleSpec => []VerdictFair
<1>1. FairInv => VerdictFair
  BY DEF FairInv, VerdictFair, Known, Checked, Calling
<1> QED
  BY <1>1, FairInvInit, FairInvNext, PTL DEF AppleSpec

-----------------------------------------------------------------------------
(* Identity *)

IdentityRow == [user : UserId, email : Mail]
Merging == {"merge", "user", "both"}

\* Committed rows agree: an identity's user exists, with its address and quota
\* row; no two identities share a user; no user is without an identity.
TablesInv ==
    /\ \A s \in Subject : identities[s] # NoRow =>
          /\ identities[s].user <= drawn /\ identities[s].user \in quotas
          /\ users[identities[s].user] = identities[s].email
    /\ \A s, t \in Subject :
          identities[s] # NoRow /\ identities[t] # NoRow /\ identities[s].user = identities[t].user
             => s = t
    /\ \A u \in UserId : users[u] # NoRow \/ u \in quotas =>
          \E s \in Subject : identities[s] # NoRow /\ identities[s].user = u

\* What a registration is about to commit is new: to the tables, and to every
\* other registration.
NewRows(w) ==
    /\ job[w].user <= drawn
    /\ identities[job[w].subject] = NoRow
    /\ \A s \in Subject : identities[s] # NoRow => identities[s].user # job[w].user
    /\ \A v \in Worker : job[v].at = "inserted" /\ v # w =>
          job[v].user # job[w].user /\ job[v].subject # job[w].subject
RegisterInv == \A w \in Worker : job[w].at = "inserted" => NewRows(w)

\* A merge is about the account its subject has.
Merges(j) == j.at \in Merging =>
                identities[j.subject] # NoRow /\ identities[j.subject].user = j.user
MergeInv == \A w \in Worker : Merges(job[w])

\* The inductive invariant.
IInv == TypeOK /\ TablesInv /\ RegisterInv /\ MergeInv /\ OneAccount

-----------------------------------------------------------------------------
LEMMA JobShape ==
    ASSUME NEW j \in Job \cup {Idle}
    PROVE  /\ j.at \in {"idle", "insert", "inserted"} \cup Merging
           /\ j.at = "insert" => j \in [at : {"insert"}, source : {"app"}, subject : Subject,
                                        email : Mail]
           /\ j.at = "inserted" => j \in [at : {"inserted"}, source : {"app"}, subject : Subject,
                                          email : Mail, user : UserId]
           /\ j.at \in Merging => j \in [at : Merging, source : {"app", "web"}, subject : Subject,
                                         email : Mail, user : UserId]
BY DEF Job, Idle, Merging

LEMMA InitIInv == Init => IInv
<1> SUFFICES ASSUME Init PROVE IInv
  OBVIOUS
<1>1. TypeOK
  BY IdentityAssumption DEF Init, TypeOK
<1>2. TablesInv /\ OneAccount
  BY DEF Init, TablesInv, OneAccount
<1>3. RegisterInv /\ MergeInv
  BY DEF Init, RegisterInv, MergeInv, Merges, Merging, Idle
<1> QED
  BY <1>1, <1>2, <1>3 DEF IInv

\* A step that commits nothing and gives sign-in w the state b.
LEMMA JobStep ==
    ASSUME IInv, NEW w \in Worker, NEW b \in Job \cup {Idle},
           job' = [job EXCEPT ![w] = b],
           UNCHANGED <<users, identities, quotas, drawn, answered>>,
           b.at # "inserted", Merges(b)
    PROVE  IInv'
<1>1. \A v \in Worker : job'[v] = IF v = w THEN b ELSE job[v]
  BY DEF IInv, TypeOK
<1>2. TypeOK'
  BY DEF IInv, TypeOK
<1>3. TablesInv' /\ OneAccount'
  BY DEF IInv, TablesInv, OneAccount
<1>4. RegisterInv'
  BY <1>1 DEF IInv, RegisterInv, NewRows
<1>5. MergeInv'
  BY <1>1 DEF IInv, MergeInv, Merges
<1> QED
  BY <1>2, <1>3, <1>4, <1>5 DEF IInv

LEMMA BeginStep ==
    ASSUME IInv, NEW w \in Worker, NEW source \in {"app", "web"}, NEW s \in Subject,
           NEW e \in Mail, Begin(w, source, s, e)
    PROVE  IInv'
<1>1. CASE identities[s] = NoRow
  <2>1. NotFound(source, s, e) \in Job \cup {Idle}
        /\ NotFound(source, s, e).at \in {"insert", "idle"}
    BY DEF NotFound, Job, Idle
  <2>2. Merges(NotFound(source, s, e))
    BY <2>1 DEF Merges, Merging
  <2> QED
    BY <1>1, <2>1, <2>2, JobStep DEF Begin
<1>2. CASE identities[s] # NoRow
  <2> DEFINE b == [at |-> "merge", source |-> source, subject |-> s, email |-> e,
                   user |-> identities[s].user]
  <2>1. identities[s].user \in UserId
    BY <1>2 DEF IInv, TypeOK
  <2>2. b \in Job /\ b.at # "inserted" /\ Merges(b)
    BY <1>2, <2>1 DEF Job, Merges, Merging
  <2>3. job' = [job EXCEPT ![w] = b] /\ UNCHANGED <<users, identities, quotas, drawn, answered>>
    BY <1>2 DEF Begin
  <2> HIDE DEF b
  <2> QED
    BY <2>2, <2>3, JobStep
<1> QED
  BY <1>1, <1>2

LEMMA IdleStep ==
    ASSUME IInv, NEW w \in Worker, job' = [job EXCEPT ![w] = Idle],
           UNCHANGED <<users, identities, quotas, drawn, answered>>
    PROVE  IInv'
<1>1. Merges(Idle) /\ Idle.at # "inserted"
  BY DEF Merges, Merging, Idle
<1> QED
  BY <1>1, JobStep

LEMMA MergeStep ==
    ASSUME IInv, NEW w \in Worker, MergeUser(w) \/ MergeIdentityEmail(w)
    PROVE  IInv'
<1> DEFINE j == job[w]
           b == [j EXCEPT !.at = IF j.at = "merge" THEN "user" ELSE "both"]
<1>1. j \in [at : Merging, source : {"app", "web"}, subject : Subject, email : Mail, user : UserId]
      /\ j.at \in {"merge", "user"}
  BY JobShape DEF MergeUser, MergeIdentityEmail, IInv, TypeOK, Merging
<1>2. /\ b.at \in {"user", "both"} /\ b.subject = j.subject /\ b.user = j.user
      /\ b \in Job
  BY <1>1 DEF Job
<1>3. Merges(j) /\ j.at \in Merging
  BY <1>1 DEF IInv, MergeInv, Merging
<1>4. Merges(b)
  BY <1>2, <1>3 DEF Merges
<1>5. job' = [job EXCEPT ![w] = b] /\ UNCHANGED <<users, identities, quotas, drawn, answered>>
  BY DEF MergeUser, MergeIdentityEmail, IInv, TypeOK
<1> HIDE DEF b
<1> QED
  BY <1>2, <1>4, <1>5, JobStep

LEMMA InsertStep ==
    ASSUME IInv, NEW w \in Worker, InsertUserAndIdentity(w)
    PROVE  IInv'
<1> DEFINE j == job[w]
           b == [at |-> "inserted", source |-> j.source, subject |-> j.subject,
                 email |-> j.email, user |-> drawn + 1]
<1>1. j \in [at : {"insert"}, source : {"app"}, subject : Subject, email : Mail]
  BY JobShape DEF InsertUserAndIdentity, IInv, TypeOK
<1>2. drawn + 1 \in UserId /\ drawn + 1 \in 0..MaxUsers /\ drawn \in Nat /\ MaxUsers \in Nat
  BY IdentityAssumption DEF InsertUserAndIdentity, IInv, TypeOK, UserId
<1>3. b \in Job
  BY <1>1, <1>2 DEF Job
<1>4. \A v \in Worker : job'[v] = IF v = w THEN b ELSE job[v]
  BY DEF InsertUserAndIdentity, IInv, TypeOK
<1>5. /\ b.at = "inserted" /\ b.subject = j.subject /\ b.user = drawn + 1
      /\ drawn' = drawn + 1 /\ identities[j.subject] = NoRow
      /\ \A v \in Worker : job[v].at = "inserted" => job[v].subject # j.subject
      /\ UNCHANGED <<users, identities, quotas, answered>>
      /\ job' = [job EXCEPT ![w] = b]
  BY DEF InsertUserAndIdentity
<1> HIDE DEF b
<1>6. TypeOK'
  BY <1>2, <1>3, <1>5 DEF IInv, TypeOK
<1>7. \A s \in Subject : identities[s] # NoRow =>
         identities[s].user \in UserId /\ identities[s].user <= drawn
  BY DEF IInv, TypeOK, TablesInv
<1>8. TablesInv'
  <2>1. \A u \in UserId : u <= drawn => u <= drawn + 1
    BY <1>2 DEF UserId
  <2> QED
    BY <1>5, <1>7, <2>1 DEF IInv, TablesInv
<1>9. RegisterInv'
  <2>1. \A v \in Worker : job[v].at = "inserted" =>
           job[v].user \in UserId /\ NewRows(v)
    BY JobShape DEF IInv, TypeOK, RegisterInv
  <2>2. \A v \in Worker : job[v].at = "inserted" =>
           job[v].user <= drawn + 1 /\ job[v].user # drawn + 1
    BY <1>2, <2>1 DEF NewRows, UserId
  <2>3. \A s \in Subject : identities[s] # NoRow => identities[s].user # drawn + 1
    BY <1>2, <1>7 DEF UserId
  <2>4. ASSUME NEW v \in Worker, job'[v].at = "inserted" PROVE NewRows(v)'
    <3>1. CASE v = w
      BY <1>2, <1>4, <1>5, <2>2, <2>3, <3>1 DEF NewRows
    <3>2. CASE v # w
      BY <1>2, <1>4, <1>5, <2>1, <2>2, <2>4, <3>2 DEF NewRows
    <3> QED
      BY <3>1, <3>2
  <2> QED
    BY <2>4 DEF RegisterInv
<1>10. MergeInv' /\ OneAccount'
  BY <1>4, <1>5 DEF IInv, MergeInv, Merges, Merging, OneAccount
<1> QED
  BY <1>6, <1>8, <1>9, <1>10 DEF IInv

\* A sign-in ends with the account of its subject.
LEMMA AnswerStep ==
    ASSUME NEW j, j.subject \in Subject, j.user \in UserId, NEW replied \in BOOLEAN,
           TypeOK, OneAccount, Answers(j, replied),
           identities'[j.subject] # NoRow, identities'[j.subject].user = j.user,
           answered[j.subject] \subseteq {j.user},
           \A s \in Subject \ {j.subject} : identities'[s] = identities[s]
    PROVE  OneAccount' /\ answered' \in [Subject -> SUBSET UserId]
<1>1. answered' \in [Subject -> SUBSET UserId]
  BY DEF Answers, TypeOK
<1>2. answered'[j.subject] \subseteq {j.user}
  BY DEF Answers, TypeOK
<1>3. \A s \in Subject \ {j.subject} : answered'[s] = answered[s]
  BY DEF Answers, TypeOK
<1>4. ASSUME NEW s \in Subject, answered'[s] # {}
      PROVE  identities'[s] # NoRow /\ answered'[s] = {identities'[s].user}
  <2>1. CASE s = j.subject
    BY <1>2, <1>4, <2>1
  <2>2. CASE s # j.subject
    <3>1. answered'[s] = answered[s] /\ identities'[s] = identities[s]
      BY <1>3, <2>2
    <3> QED
      BY <1>4, <3>1 DEF OneAccount
  <2> QED
    BY <2>1, <2>2
<1> QED
  BY <1>1, <1>4 DEF OneAccount

LEMMA InsertCommitsStep ==
    ASSUME IInv, NEW w \in Worker, NEW replied \in BOOLEAN, InsertCommits(w, replied)
    PROVE  IInv'
<1> DEFINE j == job[w]
           row == [user |-> j.user, email |-> j.email]
<1>1. /\ j.at = "inserted" /\ j.subject \in Subject /\ j.email \in Mail /\ j.user \in UserId
      /\ NewRows(w)
  BY JobShape DEF InsertCommits, IInv, TypeOK, RegisterInv
<1>2. /\ row \in IdentityRow /\ row # NoRow /\ row.user = j.user /\ row.email = j.email
      /\ j.email # NoRow
  BY <1>1, IdentityAssumption DEF IdentityRow, UserId, Mail
<1>3. /\ \A s \in Subject : identities'[s] = IF s = j.subject THEN row ELSE identities[s]
      /\ \A u \in UserId : users'[u] = IF u = j.user THEN j.email ELSE users[u]
      /\ \A v \in Worker : job'[v] = IF v = w THEN Idle ELSE job[v]
      /\ quotas' = quotas \cup {j.user} /\ drawn' = drawn
  BY DEF InsertCommits, IInv, TypeOK
<1>4. j.user <= drawn /\ identities[j.subject] = NoRow
      /\ \A s \in Subject : identities[s] # NoRow => identities[s].user # j.user
  BY <1>1 DEF NewRows
<1>5. OneAccount' /\ answered' \in [Subject -> SUBSET UserId]
  <2>1. answered[j.subject] = {}
    BY <1>1, <1>4 DEF IInv, OneAccount
  <2> QED
    BY <1>1, <1>2, <1>3, <2>1, AnswerStep DEF InsertCommits, IInv
<1>6. TypeOK'
  BY <1>1, <1>2, <1>5 DEF InsertCommits, IInv, TypeOK, IdentityRow
<1>7. \A s \in Subject : identities[s] # NoRow => identities[s].user \in UserId
  BY DEF IInv, TypeOK
<1> HIDE DEF row
<1>8. TablesInv'
  <2>1. \A s \in Subject : identities'[s] # NoRow =>
           /\ identities'[s].user <= drawn /\ identities'[s].user \in quotas'
           /\ users'[identities'[s].user] = identities'[s].email
    BY <1>1, <1>2, <1>3, <1>4, <1>7 DEF IInv, TablesInv
  <2>2. \A s, t \in Subject :
           identities'[s] # NoRow /\ identities'[t] # NoRow
             /\ identities'[s].user = identities'[t].user => s = t
    BY <1>1, <1>2, <1>3, <1>4 DEF IInv, TablesInv
  <2>3. ASSUME NEW u \in UserId, users'[u] # NoRow \/ u \in quotas'
        PROVE  \E s \in Subject : identities'[s] # NoRow /\ identities'[s].user = u
    <3>1. CASE u = j.user
      BY <1>1, <1>2, <1>3, <3>1
    <3>2. CASE u # j.user
      <4>1. PICK s \in Subject : identities[s] # NoRow /\ identities[s].user = u
        BY <1>3, <2>3, <3>2 DEF IInv, TablesInv
      <4> QED
        BY <1>3, <1>4, <4>1
    <3> QED
      BY <3>1, <3>2
  <2> QED
    BY <1>3, <2>1, <2>2, <2>3 DEF TablesInv
<1>9. RegisterInv'
  <2>1. ASSUME NEW v \in Worker, job'[v].at = "inserted" PROVE NewRows(v)'
    <3>1. v # w /\ job'[v] = job[v] /\ NewRows(v)
      BY <1>3, <2>1 DEF Idle, IInv, RegisterInv
    <3>2. job[v].user # j.user /\ job[v].subject # j.subject /\ job[v].subject \in Subject
      BY <1>1, <2>1, <3>1, JobShape DEF NewRows, IInv, TypeOK
    <3> QED
      BY <1>2, <1>3, <3>1, <3>2 DEF NewRows, Idle
  <2> QED
    BY <2>1 DEF RegisterInv
<1>10. MergeInv'
  <2>1. ASSUME NEW v \in Worker PROVE Merges(job[v])'
    <3>1. CASE v = w
      BY <1>3, <3>1 DEF Merges, Merging, Idle
    <3>2. CASE v # w
      <4>1. job'[v] = job[v] /\ Merges(job[v])
        BY <1>3, <3>2 DEF IInv, MergeInv
      <4>2. job[v].at \in Merging => job[v].subject \in Subject
        BY JobShape DEF IInv, TypeOK
      <4> QED
        BY <1>3, <1>4, <4>1, <4>2 DEF Merges
    <3> QED
      BY <3>1, <3>2
  <2> QED
    BY <2>1 DEF MergeInv
<1> QED
  BY <1>5, <1>6, <1>8, <1>9, <1>10 DEF IInv

\* What a merge knows of its account.
LEMMA MergingAccount ==
    ASSUME IInv, NEW w \in Worker, job[w].at \in Merging
    PROVE  LET j == job[w] IN
           /\ j.subject \in Subject /\ j.email \in Mail /\ j.user \in UserId
           /\ identities[j.subject] # NoRow /\ identities[j.subject] \in IdentityRow
           /\ identities[j.subject].user = j.user
           /\ answered[j.subject] \subseteq {j.user}
<1>1. job[w].subject \in Subject /\ job[w].email \in Mail /\ job[w].user \in UserId
  BY JobShape DEF IInv, TypeOK
<1>2. Merges(job[w])
  BY DEF IInv, MergeInv
<1> QED
  BY <1>1, <1>2 DEF Merges, IInv, TypeOK, OneAccount, IdentityRow

\* The tables stay right when an account gets the address of the merge in both;
\* whose transactions are open plays no part in that.
LEMMA MergeCommitsStep ==
    ASSUME IInv, NEW w \in Worker, NEW replied \in BOOLEAN, MergeCommits(w, replied)
    PROVE  IInv'
<1> DEFINE j == job[w]
           row == [identities[j.subject] EXCEPT !.email = j.email]
<1>1. /\ j.at \in Merging /\ j.at = "both"
      /\ j.subject \in Subject /\ j.email \in Mail /\ j.user \in UserId
      /\ identities[j.subject] # NoRow /\ identities[j.subject] \in IdentityRow
      /\ identities[j.subject].user = j.user
      /\ answered[j.subject] \subseteq {j.user}
  BY MergingAccount DEF MergeCommits, Merging
<1>2. /\ row \in IdentityRow /\ row # NoRow /\ row.user = j.user /\ row.email = j.email
      /\ j.email # NoRow
  BY <1>1, IdentityAssumption DEF IdentityRow, UserId, Mail
<1>3. /\ \A s \in Subject : identities'[s] = IF s = j.subject THEN row ELSE identities[s]
      /\ \A u \in UserId : users'[u] = IF u = j.user THEN j.email ELSE users[u]
      /\ \A v \in Worker : job'[v] = IF v = w THEN Idle ELSE job[v]
      /\ quotas' = quotas /\ drawn' = drawn
  BY DEF MergeCommits, IInv, TypeOK
<1>4. OneAccount' /\ answered' \in [Subject -> SUBSET UserId]
  BY <1>1, <1>2, <1>3, AnswerStep DEF MergeCommits, IInv
<1>5. TypeOK'
  BY <1>1, <1>2, <1>4 DEF MergeCommits, IInv, TypeOK, IdentityRow
<1>6. \A s \in Subject : identities[s] # NoRow => identities[s].user \in UserId
  BY DEF IInv, TypeOK
<1>7. \A s \in Subject :
         /\ identities'[s] # NoRow <=> identities[s] # NoRow
         /\ identities[s] # NoRow => identities'[s].user = identities[s].user
  BY <1>1, <1>2, <1>3
<1> HIDE DEF row
<1>8. TablesInv'
  <2>1. \A s \in Subject : identities'[s] # NoRow =>
           /\ identities'[s].user <= drawn /\ identities'[s].user \in quotas
           /\ users'[identities'[s].user] = identities'[s].email
    BY <1>1, <1>2, <1>3, <1>6 DEF IInv, TablesInv
  <2>2. \A s, t \in Subject :
           identities'[s] # NoRow /\ identities'[t] # NoRow
             /\ identities'[s].user = identities'[t].user => s = t
    BY <1>7 DEF IInv, TablesInv
  <2>3. \A u \in UserId : users'[u] # NoRow \/ u \in quotas =>
           \E s \in Subject : identities'[s] # NoRow /\ identities'[s].user = u
    BY <1>1, <1>3, <1>7 DEF IInv, TablesInv
  <2> QED
    BY <1>3, <2>1, <2>2, <2>3 DEF TablesInv
<1>9. RegisterInv'
  <2>1. ASSUME NEW v \in Worker, job'[v].at = "inserted" PROVE NewRows(v)'
    <3>1. v # w /\ job'[v] = job[v] /\ NewRows(v)
      BY <1>3, <2>1 DEF Idle, IInv, RegisterInv
    <3>2. job[v].subject \in Subject
      BY <2>1, <3>1, JobShape DEF IInv, TypeOK
    <3> QED
      BY <1>3, <1>7, <3>1, <3>2 DEF NewRows, Idle
  <2> QED
    BY <2>1 DEF RegisterInv
<1>10. MergeInv'
  <2>1. ASSUME NEW v \in Worker PROVE Merges(job[v])'
    <3>1. CASE v = w
      BY <1>3, <3>1 DEF Merges, Merging, Idle
    <3>2. CASE v # w
      <4>1. job'[v] = job[v] /\ Merges(job[v])
        BY <1>3, <3>2 DEF IInv, MergeInv
      <4>2. job[v].at \in Merging => job[v].subject \in Subject
        BY JobShape DEF IInv, TypeOK
      <4> QED
        BY <1>7, <4>1, <4>2 DEF Merges
    <3> QED
      BY <3>1, <3>2
  <2> QED
    BY <2>1 DEF MergeInv
<1> QED
  BY <1>4, <1>5, <1>8, <1>9, <1>10 DEF IInv

LEMMA NothingToMergeStep ==
    ASSUME IInv, NEW w \in Worker, NothingToMerge(w)
    PROVE  IInv'
<1> DEFINE j == job[w]
<1>1. /\ j.at \in Merging /\ j.subject \in Subject /\ j.user \in UserId
      /\ identities[j.subject] # NoRow /\ identities[j.subject].user = j.user
      /\ answered[j.subject] \subseteq {j.user}
  BY MergingAccount DEF NothingToMerge, Merging
<1>2. /\ \A v \in Worker : job'[v] = IF v = w THEN Idle ELSE job[v]
      /\ UNCHANGED <<users, identities, quotas, drawn>>
  BY DEF NothingToMerge, IInv, TypeOK
<1>3. OneAccount' /\ answered' \in [Subject -> SUBSET UserId]
  BY <1>1, <1>2, AnswerStep DEF NothingToMerge, IInv
<1>4. TypeOK'
  BY <1>2, <1>3 DEF NothingToMerge, IInv, TypeOK
<1>5. TablesInv'
  BY <1>2 DEF IInv, TablesInv
<1>6. RegisterInv' /\ MergeInv'
  BY <1>2 DEF IInv, RegisterInv, NewRows, MergeInv, Merges, Merging, Idle
<1> QED
  BY <1>3, <1>4, <1>5, <1>6 DEF IInv

LEMMA NextIInv == IInv /\ [Next]_vars => IInv'
<1> SUFFICES ASSUME IInv, [Next]_vars PROVE IInv'
  OBVIOUS
<1>1. CASE UNCHANGED vars
  BY <1>1 DEF vars, IInv, TypeOK, TablesInv, RegisterInv, NewRows, MergeInv, Merges, OneAccount
<1>2. ASSUME NEW w \in Worker, InsertConflicts(w) \/ Abort(w) PROVE IInv'
  BY <1>2, IdleStep DEF InsertConflicts, Abort
<1> QED
  BY <1>1, <1>2, BeginStep, InsertStep, MergeStep, InsertCommitsStep, MergeCommitsStep,
     NothingToMergeStep DEF Next

LEMMA Inductive == Spec => []IInv
BY InitIInv, NextIInv, PTL DEF Spec

-----------------------------------------------------------------------------
\* Rows, and what sign-ins have in hands, keep their types.
THEOREM TypeCorrect == Spec => []TypeOK
<1>1. IInv => TypeOK
  BY DEF IInv
<1> QED
  BY <1>1, Inductive, PTL

\* For any number of people, devices and concurrent sign-ins: one account per
\* person, and every sign-in that succeeds ends with it.
THEOREM OneAccountEach == Spec => []OneAccount
<1>1. IInv => OneAccount
  BY DEF IInv
<1> QED
  BY <1>1, Inductive, PTL

\* No race or failure leaves part of an account, or one with two owners.
THEOREM AccountsAreWhole == Spec => []AccountsWhole
<1>1. ASSUME IInv PROVE AccountsWhole
  <2> SUFFICES ASSUME NEW u \in UserId, users[u] # NoRow \/ u \in quotas
               PROVE  /\ users[u] # NoRow /\ u \in quotas
                      /\ Cardinality(Owners(u)) = 1
                      /\ \A s \in Owners(u) : identities[s].email = users[u]
    BY DEF AccountsWhole
  <2>1. PICK s \in Subject : identities[s] # NoRow /\ identities[s].user = u
    BY <1>1 DEF IInv, TablesInv
  <2>2. Owners(u) = {s}
    BY <1>1, <2>1 DEF Owners, IInv, TablesInv
  <2>3. u \in quotas /\ users[u] = identities[s].email
    BY <1>1, <2>1 DEF IInv, TablesInv
  <2>4. identities[s].email # NoRow
    BY <1>1, <2>1, IdentityAssumption DEF IInv, TypeOK, Mail
  <2>5. Cardinality(Owners(u)) = 1
    BY <2>2, FS_Singleton
  <2> QED
    BY <2>2, <2>3, <2>4, <2>5
<1> QED
  BY <1>1, Inductive, PTL

-----------------------------------------------------------------------------
\* The whole sign-in, as TLC runs it: a step of one part leaves the other alone,
\* so each has the properties it has by itself.
LEMMA SignInParts == SignInSpec => Spec /\ AppleSpec
<1>1. SignInInit => Init /\ AppleInit
  BY DEF SignInInit
<1>2. [SignInNext]_allVars => [Next]_vars /\ [AppleNext]_appleVars
  BY DEF SignInNext, allVars, vars, appleVars
<1> QED
  BY <1>1, <1>2, PTL DEF SignInSpec, Spec, AppleSpec

\* For the two parts in one specification, every invariant of the run, the types
\* among them.
THEOREM SignInCorrect ==
    SignInSpec => [](SignInTypeOK /\ OneAccount /\ AccountsWhole /\ VerdictFair)
<1>1. TypeOK /\ AppleTypeOK => SignInTypeOK
  BY DEF SignInTypeOK
<1> QED
  BY <1>1, SignInParts, TypeCorrect, OneAccountEach, AccountsAreWhole, AppleTypeCorrect,
     AppleVerdictFair, PTL
=============================================================================
