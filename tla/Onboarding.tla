----------------------------- MODULE Onboarding -----------------------------
(***************************************************************************)
(* The routes behind rate limiters.  Translations before sign-up: POST       *)
(* /onboarding/session issues an opaque token, limited per client IP; POST   *)
(* /onboarding/translate/context passes a limiter per client IP, the check   *)
(* of the token, and a limiter per token, in this order.  Old tokens are     *)
(* deleted by a periodic cleanup.  POST /analytics/events passes a limiter   *)
(* per client IP, which counts it whatever the next one, per device, says.   *)
(***************************************************************************)
EXTENDS RateWindow, FiniteSets, Sequences

CONSTANTS IP, Token,
          Device,        \* values of anonymous_id
          Worker,        \* concurrent request goroutines
          SessionLimit, TranslateLimit, TokenLimit,  \* as configured, per Window
          EventLimit, DeviceLimit,                   \* 120 and 60 a minute
          TTL,           \* OnboardingSessionTokenTTL
          Retention,     \* OnboardingTokenCleanupRetention
          MaxClock,      \* bound: the last instant considered
          MaxRestarts,   \* bound: restarts of the process
          NoTime,        \* Allow has not read the time yet
          NoToken        \* the table has no row for this token

ASSUME OnboardingAssumption ==
    /\ {SessionLimit, TranslateLimit, TokenLimit, EventLimit, DeviceLimit} \subseteq Nat
    /\ {MaxClock, MaxRestarts} \subseteq Nat
    /\ TTL \in Nat \ {0} /\ Retention \in Nat \ {0} /\ NoTime \notin Nat
    /\ NoToken \notin Nat /\ IsFiniteSet(Worker)

VARIABLES rows,          \* rows[t]: expires_at of token t's onboarding_access_tokens
                         \* row; nothing in the code sets status or revoked_at
          job,           \* job[w]: what request w is doing
          clock,
          issued,        \* history: issued[t], the instant t was issued
          admitted,      \* history: admitted[k], the instants at which requests with
                         \* key k came and were let in, one after the other
          restarts       \* history: restarts so far

onboardingVars == <<windows, rows, job, clock, issued, admitted, restarts>>

-----------------------------------------------------------------------------
Instant == 0..MaxClock
LimitKey == ({"session", "translate", "event"} \X IP)
         \cup ({"token"} \X Token) \cup ({"device"} \X Device)

\* at "limit": in front of the limiter of key; "issue", "validate": past the
\* limiter of the client IP.  whose: the token or device the request is for.
Job == [at : {"limit", "issue", "validate"}, key : LimitKey, whose : Token \cup Device,
        now : Instant \cup {NoTime}]
Idle == [at |-> "idle"]

OnboardingTypeOK ==
    /\ WindowTypeOK(LimitKey)
    /\ rows \in [Token -> Nat \cup {NoToken}]
    /\ job \in [Worker -> Job \cup {Idle}]
    /\ clock \in Instant /\ restarts \in 0..MaxRestarts
    /\ issued \in [Token -> Instant \cup {NoTime}]
    /\ admitted \in [LimitKey -> Seq(Instant)]

OnboardingInit ==
    /\ WindowInit(LimitKey)
    /\ rows = [t \in Token |-> NoToken]
    /\ job = [w \in Worker |-> Idle]
    /\ clock = 0 /\ restarts = 0
    /\ issued = [t \in Token |-> NoTime]
    /\ admitted = [k \in LimitKey |-> <<>>]

-----------------------------------------------------------------------------
LimitOf(k) == CASE k[1] = "session" -> SessionLimit
              [] k[1] = "translate" -> TranslateLimit
              [] k[1] = "token" -> TokenLimit
              [] k[1] = "event" -> EventLimit
              [] k[1] = "device" -> DeviceLimit

ToLimiter(key, x) == [at |-> "limit", key |-> key, whose |-> x, now |-> NoTime]

\* handleOnboardingSession and handleOnboardingTranslateContext behind
\* withOnboardingSessionIPRate and withOnboardingTranslateIPRate; token is the
\* one presented, or the one that would be issued.
Begin(w, kind, ip, t) ==
    /\ job[w].at = "idle"
    /\ kind = "session" => issued[t] = NoTime
    /\ job' = [job EXCEPT ![w] = ToLimiter(<<kind, ip>>, t)]
    /\ UNCHANGED <<windows, rows, clock, issued, admitted, restarts>>

\* handleAnalyticsEvents, with a body that passes its checks.
BeginEvent(w, ip, d) ==
    /\ job[w].at = "idle"
    /\ job' = [job EXCEPT ![w] = ToLimiter(<<"event", ip>>, d)]
    /\ UNCHANGED <<windows, rows, clock, issued, admitted, restarts>>

\* The first statement of Allow.
ReadsClock(w) ==
    /\ job[w].at = "limit" /\ job[w].now = NoTime
    /\ job' = [job EXCEPT ![w] = [@ EXCEPT !.now = clock]]
    /\ UNCHANGED <<windows, rows, clock, issued, admitted, restarts>>

\* A request with its last limiter behind it has all it needs: the translation
\* and the event row touch no state of this module.
Admit(w) ==
    LET j == job[w] IN
    /\ j.at = "limit" /\ j.now # NoTime
    /\ Allow(j.key, LimitOf(j.key), j.now)
    /\ admitted' = IF j.now = clock
                   THEN [admitted EXCEPT ![j.key] = Append(@, clock)]
                   ELSE admitted
    /\ job' = [job EXCEPT ![w] =
                 CASE j.key[1] = "session" -> [@ EXCEPT !.at = "issue"]
                   [] j.key[1] = "translate" -> [@ EXCEPT !.at = "validate"]
                   [] j.key[1] = "event" -> ToLimiter(<<"device", j.whose>>, j.whose)
                   [] j.key[1] \in {"token", "device"} -> Idle]
    /\ UNCHANGED <<rows, clock, issued, restarts>>

Refuse(w) ==
    LET j == job[w] IN
    /\ j.at = "limit" /\ j.now # NoTime
    /\ Refused(j.key, LimitOf(j.key), j.now)
    /\ job' = [job EXCEPT ![w] = Idle]
    /\ UNCHANGED <<windows, rows, clock, issued, admitted, restarts>>

\* A token is random: never one that was issued before.
Issue(w) ==
    LET t == job[w].whose IN
    /\ job[w].at = "issue"
    /\ issued[t] = NoTime
    /\ rows' = [rows EXCEPT ![t] = clock + TTL]
    /\ issued' = [issued EXCEPT ![t] = clock]
    /\ job' = [job EXCEPT ![w] = Idle]
    /\ UNCHANGED <<windows, clock, admitted, restarts>>

Usable(t) == rows[t] # NoToken /\ rows[t] > clock

ValidateAndTouch(w) ==
    LET t == job[w].whose IN
    /\ job[w].at = "validate" /\ Usable(t)
    /\ job' = [job EXCEPT ![w] = ToLimiter(<<"token", t>>, t)]
    /\ UNCHANGED <<windows, rows, clock, issued, admitted, restarts>>

ValidateFails(w) ==
    /\ job[w].at = "validate" /\ ~Usable(job[w].whose)
    /\ job' = [job EXCEPT ![w] = Idle]
    /\ UNCHANGED <<windows, rows, clock, issued, admitted, restarts>>

\* Mutant: the cutoff lies in the future.
CleanupAhead ==
    /\ rows' = [t \in Token |->
                  IF rows[t] # NoToken /\ rows[t] <= clock + Retention THEN NoToken ELSE rows[t]]
    /\ UNCHANGED <<windows, job, clock, issued, admitted, restarts>>

\* DELETE ... WHERE expires_at < now - retention, at the start and every hour.
CleanupOld ==
    /\ rows' = [t \in Token |->
                  IF rows[t] # NoToken /\ rows[t] + Retention < clock THEN NoToken ELSE rows[t]]
    /\ UNCHANGED <<windows, job, clock, issued, admitted, restarts>>

\* The database fails, or the client is gone.
Abort(w) ==
    /\ job[w].at \in {"issue", "validate"}
    /\ job' = [job EXCEPT ![w] = Idle]
    /\ UNCHANGED <<windows, rows, clock, issued, admitted, restarts>>

ProcessRestart ==
    /\ restarts < MaxRestarts
    /\ Forget
    /\ job' = [w \in Worker |-> Idle]
    /\ restarts' = restarts + 1
    /\ UNCHANGED <<rows, clock, issued, admitted>>

Tick ==
    /\ clock < MaxClock
    /\ clock' = clock + 1
    /\ UNCHANGED <<windows, rows, job, issued, admitted, restarts>>

OnboardingNext ==
    \/ \E w \in Worker :
         \/ \E kind \in {"session", "translate"}, ip \in IP, t \in Token : Begin(w, kind, ip, t)
         \/ \E ip \in IP, d \in Device : BeginEvent(w, ip, d)
         \/ ReadsClock(w) \/ Admit(w) \/ Refuse(w)
         \/ Issue(w) \/ ValidateAndTouch(w) \/ ValidateFails(w)
         \/ Abort(w)
    \/ CleanupOld
    \/ ProcessRestart
    \/ Tick

OnboardingSpec == OnboardingInit /\ [][OnboardingNext]_onboardingVars

-----------------------------------------------------------------------------
(* Properties *)

InAt(k, instants) == Cardinality({n \in DOMAIN admitted[k] : admitted[k][n] \in instants})

\* Each of the five limiters: of the requests that do not dawdle between
\* reading the time and the mutex, at most twice the limit is let in within a
\* period of a window's length, whenever it ends (the end of one window and the
\* start of the next), and a limit more for every restart; requests that do dawdle take
\* room from the others and never make any.
BurstBounded ==
    LET lately == {i \in Instant : i <= clock /\ clock <= i + Window}
    IN \A k \in LimitKey : LimitOf(k) > 0 => InAt(k, lately) <= LimitOf(k) * (2 + restarts)

\* What a token is worth: it is usable until it expires, whatever the cleanup
\* does meanwhile, and in that time it gets, besides those of restarts, the
\* translations of as many windows as fit into its life and no more (but for
\* requests that were past the check, or dawdle); and none without having been
\* issued.
TokenBudget ==
    \A t \in Token : TokenLimit > 0 =>
        LET life == {i \in Instant : issued[t] # NoTime /\ issued[t] <= i /\ i < issued[t] + TTL}
            all  == InAt(<<"token", t>>, Instant)
            late == InAt(<<"token", t>>, Instant \ life)
        IN /\ clock \in life => Usable(t)
           /\ all - late <= TokenLimit * ((TTL + Window) \div (Window + 1) + restarts)
           /\ late <= Cardinality(Worker)
           /\ issued[t] = NoTime => all = 0
=============================================================================
