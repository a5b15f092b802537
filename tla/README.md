# A verification project for the ForeignReader backend

TLA+ models of the parts of this server whose correctness depends on what
happens *between* statements: concurrent requests over PostgreSQL, calls to
Stripe, Apple and a translation provider that fail or answer late, replies that
are lost, and restarts. TLC checks each model on a small instance; the safety
properties are also proved, for every instance, with TLAPS: all of them, but for
the half of one that is about `ENABLED` (section 4). `PROJECT.json` lists the components, runs,
mutants, findings, hazards and theorems, and ties every definition to the
source lines it stands for.

## 1. The system

One Go process (`main.go`, `internal/server/server.go`) serves HTTP over a pool
of ten PostgreSQL connections. Each request runs in its own goroutine, and there
is one background goroutine, the hourly cleanup of onboarding tokens. All
durable state is in PostgreSQL, at its default isolation level READ COMMITTED;
the process itself only keeps rate-limiter counters. So everything that can go
wrong between two requests goes wrong in the tables.

| component | state | operations | talks to | what makes it correct |
|---|---|---|---|---|
| sessions (`auth/session.go`, `routes_auth.go`, `auth_middleware.go`) | `auth_sessions`; access tokens at the clients | login's insert, refresh (rotation), logout, bearer check | identities, JWT issuer | one usable refresh token per login; a spent one never works again; what a client holds is backed by a row; no request waits for ever on a row lock |
| identities (`auth/store.go`) | `users`, `auth_identities`, first quota row | sign-in from the app (registers) and from the web (does not), merge of profile data | quota, sessions | one account per subject, whole or absent; both copies of the address agree |
| Apple sign-in (`auth/apple_token.go`, `apple_web.go`, `routes_auth_apple_web.go`) | a key cache per request | verify a token in up to two rounds, exchange a code | Apple, identities | a token that was never good is refused, a good one is not, while keys rotate |
| free quota (`monthlycontexttranslation/repo.go`, `routes_api_v1.go`, `routes_entitlements.go`) | `monthly_context_translation_quotas` | ensure row, charge, view | entitlements, provider | what is answered is charged, to the month that admitted it; the overshoot is bounded |
| entitlements (`entitlement/*.go`) | `entitlements` | grant and revoke per source, `HasActivePro` | Stripe, Apple, dev routes | the last undisturbed writer decides; sources do not interfere |
| Stripe webhook (`routes_webhook.go`, `billing/webhook_*.go`) | `stripe_webhook_events` | claim, process, answer | entitlements, customers, connection pool | each event applied exactly once; answered means recorded; events in order give the last one's verdict; requests do not all wait for each other |
| Stripe customers (`billing/customer.go`, `checkout.go`, `portal.go`) | `stripe_customers`; customers at Stripe | ensure, lookup, open a session | Stripe | one customer per user, the mapped one exists, no silent orphans |
| Apple purchases (`appleiap/*.go`, `routes_iap_apple*.go`) | `apple_iap_subscriptions`, `apple_iap_events`, product map | validate, notification, self-heal | App Store, entitlements | subscription row and entitlement agree; Pro never outlasts what was paid; recorded means written, or handed over to the self-heal; no sale is lost |
| onboarding (`onboardingsession/store.go`, `onboarding_access.go`) | `onboarding_access_tokens` | issue, validate, cleanup | rate limiter, provider | what a token can cost is bounded; cleanup spares usable tokens |
| rate limiter (`ratelimit/window.go`) | counters in memory | `Allow` | onboarding, analytics | at most two limits around a window boundary |
| reading positions (`readingposition/*.go`, `json_flexible_time.go`) | `reading_positions`; positions on devices | save (conditional upsert), resolve | devices | the newest wins in any order of arrival; a date means what the client meant, to the precision of its conversion |
| profile (`auth/storefront.go`, `rateus/store.go`, `GET /me`) | a column of `users`, `user_rate_prompt_state` | two overwriting writes, one read of both | devices | a write that was answered is not undone by an earlier one |
| analytics and metrics (`routes_analytics.go`, `routes_admin.go`) | `analytics_events` | insert behind two limiters; a report of seven statements | users, entitlements, rate limiter | the numbers of a report that belong together add up |

The components interact through shared tables (the entitlements have five
writers, and every free translation, quota view and report reads them), through one
transaction that spans two of them (registration writes user, identity and
quota row; a webhook writes its event row and the entitlement), and through
external systems that deliver late, twice, out of order or never.

The hard behaviours, each listed with its line under `hazards`: two requests on
one row; state read before a lock, a provider call or a fetch and used after
it; deliveries in an order nobody tested; an error whose statement may have
been committed; a crash between two steps; limits at their boundaries.

## 2. The modules

```
Credential  <--refines--  AuthSession        AuthSession_proofs
                          TranslationQuota   \
RateWindow  <--extends--  Onboarding         /  Limits_proofs
                                             (Onboarding: all five limiters)
Entitlement <--extends--  EntitlementRace    (every writer at once)
                            <--extends-- Metrics   (the report reads its rows)
                                             EntitlementRace_proofs (both)
            <--extends--  StripeWebhook      StripeWebhook_proofs
                                             (Stripe, the webhook, the table, the pool)
            <--extends--  AppleIAP           AppleIAP_proofs
                                             (Apple, validate, webhook, the tables)
                          StripeCustomer     StripeCustomer_proofs
                          ReadingPosition    \
                          Profile            /  Devices_proofs
                          Identity           \
                          AppleToken         /  SignIn_proofs
```

`MC<module>` modules add the symmetry sets TLC uses. Four of them also explore
several modules in one run: `MCEntitlementRace` (`EntitlementRace` and `Metrics`),
`MCIdentity` (`Identity` and `AppleToken`), `MCReadingPosition`
(`ReadingPosition` and `Profile`) and `MCOnboarding` (onboarding and analytics
routes). A variable `part`, chosen initially, says which one a behaviour is
about, because the parts share no state, or only state that one of them reads;
interleaving them would multiply the states and show nothing new. Each run
has one type invariant, which also fixes which values a variable may take
together; the other properties are about several steps or several rows.
Definitions named "Mutant" in a comment are deliberately wrong variants of the
definition they precede; no behaviour of a specification uses them, they show
that the property they are listed with under `mutants` notices the mistake.

Common conventions:

* A variable per table, holding committed rows; a record per worker (or
  request) holding what its goroutine has read and where it is. A statement
  that runs outside a transaction is one atomic step. Inside a transaction,
  writes become visible in the step that commits; what the transaction locks is
  explicit, and a statement that would wait for a lock is not enabled.
* READ COMMITTED is modelled where it matters (`Entitlement`): an `UPDATE`
  takes its snapshot first (`RevokeActive`), then waits for the rows it saw and
  looks at them again (`LockRows`), and does not see rows inserted meanwhile.
* An error of a statement outside a transaction, and of a `Commit`, has two
  outcomes: it did nothing, or it was carried out and only the answer was lost.
* A crash is a crash of all open requests: each transaction rolls back.
* Ids and tokens are numbered or members of a small set; hashes and signatures
  are assumed to work.

### Credential and AuthSession

`Credential` is what a client of the session store may rely on: per login at
most one current credential, exchanged for a fresh one or surrendered, and spent
for good. `AuthSession` is the table with its locks. `InsertAuthSession`,
`LoginIssue` and `LoginIssueFails` are the end of `completeAuthLogin`;
`RefreshBegin` to `RefreshAbort` are `RotateRefreshToken`, split at the
`SELECT ... FOR UPDATE` (which takes `holder[s]` and reads `now`) and at
`Commit`; `LogoutBegin` is the bearer check and `RevokeSessionLogout` the one
`UPDATE` of the logout. `Reply` and `Disconnect` decide whether the client ever
learns what was done. A client may present any token it was sent, as often
as it likes. The refinement maps a login's current credential to its live row
and the spent ones to every other row it has had.

### TranslationQuota

One action per step of the handler: read `HasActivePro`, ensure the month's row
and compare (`EnsureForTranslate`), the provider (`TranslateOk`,
`TranslateFails`), charge (`IncrementUsedCount`, `IncrementFails`), answer.
Nothing is held between the steps, exactly as in the code, so other requests,
the end of the month (`NextMonth`), a purchase (`ProChanges`) and a `Restart`
with another allowance fall between any two of them. `EnsureForView` is
`GET /me/entitlements`, which creates the row as well.

### Entitlement, EntitlementRace

`Entitlement` is the table and the statements every writer is built from;
`tx[w]` is the open transaction of a worker. `EntitlementRace` runs all writers
against each other without asking why they write; the webhook modules add
the reasons.

### Metrics

`GET /admin/metrics` runs seven statements without a transaction: one action
each (`Summary` to `Translations`), reading what is committed at that moment,
while accounts register, events arrive and entitlement transactions commit.
`Reading` is the one that can refuse: it casts every `pageDelta` to an integer
and scans the sum of a day into one. Days do not influence each other, so there
is one; `Devices` stands for the `COUNT(DISTINCT anonymous_id)`.

### StripeWebhook

Stripe is external: `sub[u]` is a subscription's life, `sent` the events it
produced, each with a snapshot of the subscription (`Snapshot`). Any
event may be delivered to any worker at any time, again after a 200, and twice
at once. `Begin` is `BeginTx`, which takes a connection of the pool and keeps it
(`FreeConnection`, `MaxOpenConns`); `Claim` is the insert of the event id in the
transaction that `ProcessStripeEvent` and `Updated` continue and
`Commit(w, replied)` ends. A subscription event without our metadata needs the
customer's user (`NeedsLookup`), read on a *second* connection; `NotFound` is a
lookup that found no row or failed, which the code treats alike, and `missed`
remembers the latter. `Skip` is an event that is none of the handler's business.
A failed payment leads to `past_due`, then `unpaid` (an update whose snapshot makes
the handler revoke) or the end.
`disordered` remembers the users whose events overlapped or came late, so that
`LastEventDecides` says precisely when the result is right.

### AppleIAP

`apple[l]` is a line of renewals at Apple, `sent` its notifications.
`ValidateTransaction` is the fetch; the database transaction begins later
(`ValidateWrites`), and what was fetched may be old by then. The notification
handler is `FirstDelivery` (insert of the event id), then one of three ways:
`NoteUnresolved`; `NoteUnlinked` (the `SELECT` finds no row), `UnlinkedCommits` and,
after that commit, `SelfHeal`; or `NoteLinked`, `NoteWrites`, `NoteCommits`. Between
any two of these steps validations and other notifications may commit.
`LineLocked` and `ProductLocked` are the row locks of the two upserts.
`Entitlement`'s two-step `UPDATE` runs inside both. A validation moves a line to
the user who presents it; `linked` remembers for whom a line was written, and
`crossed` the lines that moved while a notification, which had read the old
owner, was under way: until the next validation the tables may disagree.
`overtaken` remembers the notifications whose request found no row, while a
validation committed one before the request did: such a notification goes on record
unwritten for a line that has a row. `heals` names the notification a self-heal
works for, and `lost` remembers those whose self-heal broke off, which nobody
repeats because Apple already has, or is about to get, its 200.

### StripeCustomer

`EnsureStripeCustomerID` step by step, with customers at Stripe as a second
store: `CustomersNew`, `Insert` (`ON CONFLICT DO NOTHING`), `Reselect`,
`CustomersDel`, each with its failing form, and `OpenSession` for what the
handler does with the result. `leaked` and `errored` are histories of the
customers for which the code can only log.

### RateWindow, Onboarding

`RateWindow` is `ratelimit.Window`: `Allow` with the instant that was read
*before* the mutex (`ReadsClock` is a step of its own). `Onboarding` puts the
three onboarding limiters in the order of the middleware chain around issue and
validation, and the two of `POST /analytics/events` one behind the other: the
first counts an event whatever the second says. `CleanupOld` runs at any time,
`ProcessRestart` forgets the counters. `admitted` remembers, per key, the instants
of the requests let in, one after the other, for the properties to count; one that
dawdled between `ReadsClock` and the mutex counts with the limiter but is not
among them, because it came before the instant at which it was let in.

### ReadingPosition

Devices move, send saves in one of five formats and ask on opening a book
(`ResolvePosition`). `SavePosition` is the conditional upsert; a sent request
may be delivered at any time and repeatedly. `FromNumber` is the decision of
`json_flexible_time.go` by magnitude, kept exactly but for the scale of its
constants: `Epoch` stands for 978307200, `Kilo` for 1000, `MsFrom` for 1e11.

Times are not carried exactly. A number is a float64 (`:54`), so what a device sends
is the nearest multiple of `UnixStep` or `AppleStep` (`Number`); a time since 2001 is
multiplied out to nanoseconds, again as a float64 (`SinceApple`, `:76` and `:87`), and
of a time since 1970 the fraction is cut off to nanoseconds (`SinceUnix`, `:79` and
`:85`). For today's dates the steps are 2^-22 s, 2^-23 s and, for the product
(`ProductStep`), 128 ns. Seconds and milliseconds of an era are given one step: in
milliseconds it is 2^-12 ms and 2^-13 ms, two per cent more. PostgreSQL keeps whole
microseconds and the driver cuts off the rest: `Stored` cuts to a multiple of `Grain`.
So a device's own instant can be later than its stored copy, and a time that is
sent back may be read as one of the microsecond before or after.

### Profile

The App Store country and the rating prompt are each written by one statement
that overwrites, with a stamp taken before the row is locked (`BeginWrite`, then
`Apply`). A row is represented by the number of the write it carries. `GET /me`
reads the two in two statements (`LoadUser`, `GetRateUs`).

### Identity

`Begin` is the `SELECT` of both sign-ins; `InsertUserAndIdentity` waits for
another transaction's uncommitted identity of the same subject and
`InsertConflicts` when that one commits. Merging the address is two statements
in one transaction. After `Commit` the user is read once more
(`InsertCommits(w, replied)`): that may fail, and the app retries.

### AppleToken

What precedes `Identity` for Apple: a token posted by the app
(`HandleAppleOIDC`) or obtained for a code (`HandleAppleWebCallback`,
`ExchangeAppleAuthorizationCode`). `VerifyIdentityToken` calls `verifyWithCache`
at most twice, the second time with keys fetched anew; `Fetch`, `FetchFails` and
`VerifyWithCache` are its steps, and between them Apple may publish other keys
(`Rotate`) and the token may expire. The cache is a field of the verifier,
and `NewAppleVerifier` makes one per request.

## 3. What the runs check

| run | instance | states | what it shows |
|---|---|---|---|
| `auth_session` | 1 user, 3 rows, 2 requests, both TTLs 1, clock to 1 | 63 000 | `OneChainPerLogin`, `AccessEndsAfterLogout`, `TokensAreBacked`, `RevocationIsFinal`, `EveryRequestEnds` (liveness), `ImplementsCredential` (refinement) |
| `translation_quota` | 1 user, 3 requests, 2 months, limits 0 and 2 | 144 000 | `OvershootBounded`, `AnswersAreCharged`, `RowsOnlyCharged` |
| `entitlement_race` | 1 user, 3 workers, 2 sources, 5 slots; 2 accounts, 2 devices, 2 events | 706 000 | `ActiveRowsBounded`, `CommitDecides`, `ReportAddsUp` |
| `stripe_webhook` | 1 user, 2 workers, 2 connections, 4 events | 2 780 000 | `AppliedExactlyOnce`, `StuckOnlyOnPool`, `LastEventDecides` |
| `apple_iap` | 2 users, 2 lines, 2 workers, 2 notifications, clock to 1 | 1 960 000 | `TablesAgree`, `PaidFor`, `RecordedMeansWritten`, `SaleNotLost` |
| `stripe_customer` | 2 users, 3 workers, 3 customers | 132 000 | `OneCustomerPerUser`, `MappedIsLive`, `NoSilentOrphan` |
| `onboarding` | 1 IP, 1 token, 1 device, 2 workers, limits 1 (2 for events per IP), window 1, TTL 2, clock to 4, 1 restart | 1 850 000 | `BurstBounded`, `TokenBudget` |
| `reading_position` | 2 devices, 2 moves each, 3 saves, 5 formats, two instants of neighbouring microseconds and one past the 2032 boundary; 3 phones, 3 writes | 1 310 000 | `NewestDelivered`, `DatedAsMeant`, `OpenedShowNewest`, `LastWriteSeen` |
| `identity` | 2 subjects, 2 addresses, 3 workers, 3 user ids; 2 keys, 2 token checks | 400 000 | `OneAccount`, `AccountsWhole`, `VerdictFair` |
| `quota_race` | 1 user, 2 requests, 1 month | violation | `QuotaEnforced` fails |
| `stripe_late_event` | 1 user, 1 worker, 4 events | violation | `EndedMeansRevoked` fails |
| `apple_validate_revoke` | 1 user, 1 worker, 1 line, 2 notifications | violation | `ValidateRevokes` fails |

### Why the bounds are enough

* **auth_session.** A race needs two requests on one row; a chain needs a row,
  its successor and the successor's successor: three rows. TTLs of 1 with a
  clock to 1 make every token and session expire within a behaviour.
* **translation_quota.** Three requests and a limit of two separate "one too
  many" from "all of them"; limit 0 is the boundary case; two months suffice
  for a request that straddles the change.
* **entitlement_race.** Three workers on one user: two that overlap and one
  that waited, found the row revoked and missed the new one. Two sources are
  enough to see interference. `expires_at` is not looked at by any writer, so
  one value is enough. Five slots: three that an overlap can leave and two
  being inserted; a slot that an open transaction has seen is not reused. For
  the report, one account with entitlements and one that registers meanwhile,
  two devices, and two events, which two devices or one device twice can send;
  one transaction at a time, since a report sees only what is committed. (A
  user with several active rows, which only an overlap leaves, is therefore not
  reached beside a report; `ReportAddsUp` claims less for that case.)
* **stripe_webhook.** Two connections stand for ten: both held by transactions
  that want a lookup is the case that matters. Purchase, cancellation, renewal
  or end, and one event more; two deliveries at once. Users never share a row, so one is enough here;
  what two users could do to each other, `entitlement_race` and the type of
  the `WHERE` clause exclude.
* **apple_iap.** Two users for a line that changes hands, two lines of one user
  for transactions with no lock in common, two workers for the races. Purchases
  carry the account token of one of the users, for whom self-healing links
  the line; either user may link any line by validating it.
* **stripe_customer.** Three requests of one user: a winner and two losers; or
  two users side by side. Three customers, so that each may create one.
* **onboarding.** With a limit of 1 every admission is a boundary case. Five
  instants hold a token's life (2), its retention and two windows; the analytics
  routes, which have no token to expire, need four. One restart shows what each
  costs. `BurstBounded` looks at the period that ends now, in every state.
* **reading_position.** A microsecond (`Grain`) has 26 units, so that a unit is some
  40 ns; the steps of float64 are 5, 3 and 4 units, near their real proportions, and
  the nanosecond is 2, coarser than it is, so that cutting off can be seen. No step
  divides the microsecond, or the nanosecond, so that each rounding can go
  either way and across a microsecond. Instants 986 and 1014 lie little more than a
  microsecond apart, the first just below a microsecond's boundary, the second on
  one; 1600 is past the one (2 x `Epoch`) where an Apple number is taken for a
  Unix number. The formats' magnitudes keep the order they have in reality
  (`ReadingAssumption`). Three saves: the two that compete and one of a position that
  was read back. The bounds of the properties are as tight as the code allows: TLC
  refutes that a save keeps its microsecond (`Stored(m.time) = Stored(m.at)`), and
  `OpenedShowNewest` with one microsecond for two. Profile: two writes that
  overlap and one after or before them, and a phone that reads.
* **identity.** Three sign-ins of one subject (the one that wins, one that
  conflicts, one that finds the account) or of two subjects. Two keys: the one a
  token is signed with and the one it is replaced by; two requests, whose caches
  may only interfere if they were shared.

The safety properties of these runs are also proved for every instance (section 4;
of `StuckOnlyOnPool` one half), so the bounds decide only what the runs show besides:
that the interesting cases occur at all.

Symmetry is used only in runs without liveness, over sets of model values that
no definition orders (slots, customers and ids, which are ordered, are numbers).

Deadlock is checked in every run: even with every bound used up, some request
can always begin or end.

### Fairness

Only `auth_session` checks liveness, under `FairSpec`. `WF(Handle(r))`: a
goroutine that can take its next step takes it; Go's scheduler and the request's
context guarantee this. `SF(RefreshSelect(r))` and `SF(RevokeSessionLogout(r))`:
a request waiting for a row lock gets it if the lock is free again and again,
because PostgreSQL queues the waiters of a row lock. Nothing is assumed of
clients: starting a request, disconnecting and `Tick` are not fair. Note
that the property would be false if any exit of the rotation kept the lock;
this is its mutant.

## 4. What is proved

All theorems are checked by `tlapm` from the `ASSUME`s of the modules alone. They
hold for any number of users, requests, rows, events, months, keys and for any limits and
lifetimes. What the assumptions say:

* bounds and limits are naturals, and the values that stand for "no row", "no
  customer", "no request" or "no expiry" are not rows, customers and so on;
* the requests of TranslationQuota, the workers of `Entitlement` and `Onboarding` and
  the accounts of the report are finitely many, since properties count them;
* `AccessTTL`, `Retention`, an onboarding token's `TTL` and `MaxOpenConns` are not
  zero (`NewTokenIssuer` refuses a lifetime that is not positive, jwt.go:25);
* `ReadingAssumption`: instants are such that their seconds stay below, and their
  milliseconds above, the magnitude at which `FlexibleTime` tells them apart; that
  is every date from March 2004 on. The era is a whole number of each step and of
  microseconds, and what conversions can shift an instant by, half of each step,
  stays below a microsecond (in reality it is a quarter of one).

An invariant of a run is seldom inductive: the state a property looks at does not
say what requests under way are about to do to it. Each module below therefore
has an inductive invariant made of named parts, one lemma per action (or per
kind of action that changes the same state), and short theorems at its end.

**AuthSession_proofs.** `OneSession` is not inductive: a rotation that has passed
its test is about to create a second unrotated row, and only the lock tells that
it will revoke the first in the same step. `IInv` therefore adds

* `LockInv`: who rotates holds the row's lock, the row is still live, and every
  lock belongs to a rotation of that row;
* `IdInv`: ids above `last` are unused, so an inserted row is new and heads no
  chain but its own;
* `PrivateInv`: a row whose reply was not sent yet is known to one request only.
  This is what makes `LoginIssueFails` harmless: the row it deletes can be
  neither in rotation nor in a client's hands.

`Inductive` has one step per action. From it follow `TypeCorrect`, `OneSession`,
`RevocationFinal` (every writer of a row either holds its lock while it is live
or tests `revoked_at IS NULL`) and `Refinement`: `CurrentRow` turns the `CHOOSE`
of the mapping into "the live row of the login", which `OneSession` makes
unique, and one lemma per step of `Credential` (`GrantStep`, `ExchangeStep`,
`SurrenderStep`) maps the actions; all others stutter.

`ChainInv` rests on `IInv` and gives `ChainsHold` (with `OneSession`, `OneChain`), `HeldTokensBacked` and
`AccessEnds`. Besides the three properties it says that a rotation began before
its row expired (`RotatingInTime`, with the time it has read, not the current
one), that the row a login is about to answer with, and may delete, is alone in
its login (`IssuedAlone`), that a reply not yet sent has a row (`ReplyBacked`), and
that access tokens are dated within `AccessTTL` of now (`TokensAge`), which a logout
needs because it writes the time at which it was asked for.

**Limits_proofs.** The two limits on translations share no variable and are proved
one after the other. For TranslationQuota, `Overshoot` (used + admitted is at most the
limit plus the number of requests less one) is inductive once rows exist where
requests need them (`KnownInv`, `RowInv`); `BackedInv` strengthens
`AnswersAreCharged` by counting the answers still on their way. The proofs
reduce each action to "one request moved" (`OneElement`), so that every
cardinality changes by at most one.

For the limiters, `BurstBounded` says nothing of when a window began, and that is
what decides how many more it lets in. `CounterOK` therefore has a start `s`: with
a count of `c`, a limit of `m` and after `r` restarts, at most `c + m * r` requests came and were
let in since `s`, and at most `c + m * (r + 1)` since a window's length before `s`
(`WindowOK`); nobody that came later than the window's end was counted in it. A
restart sets `c` to 0 and costs a limit (`ForgetKeeps`); a new window begins where the old one
is over for good (`OpensKeeps`). That `now` may be old does no harm, because a request that
waits for a *new* counter read the time after all that was let in with the old one
(second part of `CounterOK`), and one that finds a window over proves that it was over
when it came. For a token, `LifeOK` counts windows since it was issued: two
of them begin more than a window's length apart, so `(TTL + Window) \div (Window + 1)`
begin in its life (`LifeBound`). `LateOK` is the reason why requests that passed
the check in time and come to the limiter late are at most one of each worker: those
let in late and those still waiting together are never more than the workers.
`IssuedOK` keeps the row of a token until after its end, whatever the cleanup
does. From these follow `Bursts` and `Budget`, for every window, limit, lifetime and
number of restarts.

**SignIn_proofs.** Identity and AppleToken share no variable and are proved beside
each other; `SignInCorrect` puts both into the run's specification.
Of AppleToken, `VerdictFair` speaks of the end of an attempt; `FairInv` says what
must be known on the way (`Known`): a token that would pass now was good at some
time, also by any keys at hand (so no cached key outlives the request that
fetched it); one that was good all the while is among the keys at hand if there
are any; and each round that failed for such a token has cost one failed fetch.
`AgedKnown` shows that rotation and expiry keep this for every attempt at once.
Of Identity, `AccountsWhole` counts owners; `TablesInv` says it without counting
and adds that ids above `drawn` are unused, `RegisterInv` that what a transaction
has inserted but not committed is new to the tables *and* to every other open
registration (the unique index makes the second one wait), and `MergeInv` that a
merge is about the account its subject has. `OneAccount` follows because no
identity is ever given to another user.

**StripeCustomer_proofs.** `HeldInv` follows a customer from its creation until the
request has dealt with it: it is live, its user's own, in the hands of one request
only, and on record only if that request was told that its `INSERT` had failed.
This is why the loser's `CustomersDel` cannot meet the winner's customer
(`MappedStaysLive`), and why whatever is neither mapped nor in hands was counted
in `leaked` (`NoOrphan`). `AnswerInv` (a request answers with what is on record) and
`MappedInv` (what is on record belongs to that user) carry `OneCustomer`.

**EntitlementRace_proofs.** For `RowsBounded` no state says which request a row came
from, so `OwnerInv` says that one can be named: there is a map from slots to
workers under which no worker has two rows of a user and source, and a worker
whose transaction is open has seen its own row, which it will revoke before it
inserts another. `TxInv` is what makes "seen" mean something later: a slot an open
transaction has seen keeps its row or is freed, and once the locks are taken, all
that was seen and is still active is revoked. `LoneInv` says that a transaction that overlapped no
other has seen every row of its user and source, hence `LastWriterDecides`.
For the report, `ReportInv` bounds each number already read by what is in the
tables now, statement by statement; the tables only grow under a report, but for
the entitlements, and `Split` settles what one statement over them can read.

**StripeWebhook_proofs.** `HookInv`: an event is claimed by one transaction at most
and by none once on record (`ClaimInv`, from the unique event id), a transaction
that reaches its commit without having touched entitlements had nobody to touch
them for (`JobInv`), and nothing is applied before it is on record (`RecordInv`);
this gives `ExactlyOnce`. For `LastEvent`, `OrderInv` says of users whose events came
one at a time and in order that the transaction at work has seen all of the user's
Stripe rows and that its event is later than all on record. That other writers
overlap in between, for other users, is covered by `TxInv`, as in EntitlementRace.
The clock is no part of the invariant. `WaitingEnds` is the half of `StuckOnlyOnPool`
that says who waits for whom: rows are held by requests about to commit, which wait
for nothing (`RowsAreHeld`), an event by one that does not wait for an event, and no
more requests have begun than there are connections (`PoolInv`).

**AppleIAP_proofs.** `IAPInv` again has a map whose existence is the invariant
(`OwnerInv`): each slot belongs to a lineage, a user has one row per lineage, and
whoever writes for user and lineage has seen that row. It holds because a request
locks the subscription row *before* the `UPDATE` takes its snapshot (`LockInv`: one
request at a time writes for a lineage). `LinkInv` and `SalesInv` tie rows to
periods that were paid, `AgreeInv` is `TablesAgree` without the counting. From these
follow `RowsArePaidFor` and `TablesInAgreement`; `RecordAndWrite` is an action
property, from `JobInv` (a notification in hand is not on record yet) and from what
`overtaken` is: a request that found no row, of a line that has one now, has been
overtaken. `SalesAreNotLost` looks at the steps at which a self-heal ends: `Commit`
leaves a row, a status that is not granted means that a period of the line is over
(`JobOK` carries this from the fetch to the end), and breaking off is remembered in
`lost`; `StepsLast` says that nothing else takes back a row or an ended period.

**Devices_proofs.** The lemmas about dates come first: rounding moves a number by half
a step at most, keeps the order and stops at multiples (`NearestIs`, `NearestAbove`,
`CutOffIs`), so what is read of a number is less than a microsecond from what was
meant, or 31 years earlier (`UnixPrecision`, `ApplePrecision`, `DateRead`).
`NewestIsKept` and `DatesAreMeant` follow. `OpenedDevicesAgree` needs to know what
times can come back from the server: `GivenInv` says that each is a whole microsecond
near one that a device's clock showed. Positions may travel between server and
devices for ever without their times drifting: a whole microsecond, sent again and
read up to one later, is cut off to itself, and one that is read as earlier is older
than the row it came from, which refuses it. `ShownInv` says what an opened device shows against the
row. For Profile, `WritesInOrder` and
`WritesUnderWay` describe the history of writes, `RowsFresh` extends `LastWriteSeen` to
writes that are applied but not answered, and `ReadsFresh` to a `GET /me` that has read
one of its two tables.

**Only model-checked.**

* `EveryRequestEnds` (AuthSession): liveness under fairness. `OthersProceed`, the half of
  `StuckOnlyOnPool` (StripeWebhook) that says that a request which waits for nothing has
  a step to take: it is about `ENABLED`. Neither is in the prover's reach.
* That the three properties of the violation runs fail: a counterexample is all it takes.

No module uses `RECURSIVE`.

## 5. What was found

1. **The quota can be overshot** (`quota_race`). Two requests that both see the
   last free translation are both answered and charged. `OvershootBounded`
   says by how much at most, and that an allowance of zero is safe.
2. **A late checkout event grants Pro for ever** (`stripe_late_event`). If
   `checkout.session.completed` is processed after its subscription was
   deleted (first delivery failed, retried later), it inserts an active row
   without expiry, and no event follows that would revoke it.
   `LastEventDecides` shows the handler right as long as events arrive in order.
3. **Validation does not revoke** (`apple_validate_revoke`). For a refunded or
   expired purchase `ValidateTransaction` revokes the entitlement and then
   returns `ErrNotEntitled` before `Commit`; the deferred `Rollback` undoes the
   revocation and the subscription's new status.

Weaker than one might expect, but not contradicted by any document, and
therefore part of the properties as they are stated: concurrent grants can leave
several active rows (`ActiveRowsBounded`) until the next undisturbed
transaction (`CommitDecides`); an `INSERT` error after a commit leaves a user
mapped to a deleted customer (`MappedIsLive`); access tokens survive a logout
by at most `AccessTTL`; Apple-epoch numbers are misread from 2032, and
any number may change the microsecond it is stored with (`DatedAsMeant`); saves within
one microsecond are settled by their arrival (`NewestDelivered`); a device may keep
its own position though the row's is up to two microseconds newer, because the time
it sends is rounded up (`OpenedShowNewest`); a notification that looked for a row just
before a validation commits it goes on record unwritten, and only the self-heal brings
the row up to date (`RecordedMeansWritten`); a self-heal that fails or is
cut off by a crash is not repeated, and the sale waits for the app's own validation
(`SaleNotLost`); a validation that fetched its answer before a notification committed
overwrites the newer state with the older, in both tables (no property: `TablesAgree` holds
of them still, `PaidFor` bounds what it costs); a line of renewals that moves to another user leaves the
first user's entitlement until its paid period ends (`PaidFor`), and a
notification that had read the old owner makes the tables disagree until the
next validation (`TablesAgree`); a customer lookup that fails loses the event
for good (`AppliedExactlyOnce`); webhooks that all hold a connection and want
another wait until their contexts end (`StuckOnlyOnPool`; with the pool of ten,
ten such deliveries are enough); the report counts a user with
several active rows once per row, although the comment at `routes_admin.go:216`
calls the split account-level (`ReportAddsUp`); the stamp of a profile write
can go back among overlapping requests (`LastWriteSeen`).

One fact of the code no property is stated about, because no document promises
the contrary: `POST /analytics/events` accepts any number as `pageDelta`, and
none at all, while `GET /admin/metrics` casts it to an integer and scans a sum
that is NULL when no event of a day carries one. The model reaches this
(`Reading` refuses); one accepted event then makes every later report of the
period fail.

## 6. What is not modelled, and why

* Google's tokens (one call of Google's library per request, no state here),
  certificate chains and signatures of App Store payloads, prompts and the
  parsing of the provider's replies: pure functions over bytes. The models take
  their outcome.
* Values that follow a modelled one in the same statement: display name, avatar
  and `email_verified` (with the address), the environment of App Store rows,
  weekly and monthly numbers of the report.
* A purchase without an `expiresDate`: `service.go:102` and
  `routes_iap_apple_webhook.go:241` would store NULL, and the entitlement would not
  expire. Auto-renewable subscriptions always have one; a line's expiry is a number.
* Stripe sessions with our plan but without our `user_id`: `resolveUserForCheckout`
  would then try `client_reference_id` and the customer (`webhook_process.go:77-93`).
  The server's own checkouts always carry `user_id`, so a checkout is `tagged` or
  none of its business; the customer lookup is modelled for subscription events.
* Products other than `pro`; owner entitlements, which no code in `src/` creates.
* Configuration, CORS, logging, panic recovery: read once, or per request
  without state of their own. Shutdown ends requests as a crash does; where
  that matters to what the process keeps, it is an action (`Restart` of
  TranslationQuota, `ProcessRestart` of Onboarding), and elsewhere every request may be given up at
  any step.
* The pool in the other modules: only the Stripe webhook asks for a connection
  while it holds one, so only there can its size decide more than waiting time.

## 7. Plan

Done: sessions with their abstract specification; quota; entitlements alone,
under Stripe (with the connection pool) and under Apple (with lines that change
hands); customers; onboarding, analytics and their limiters; reading positions
down to the database's resolution; profile writes; identities; Apple token
checks; the report. All of it with proofs.

What could follow: an abstract entitlement (per user and source at most one grant,
the last writer wins) that `EntitlementRace` implements as long as transactions of
a user and source do not overlap; today `CommitDecides` says this step by step. And
`EveryRequestEnds` and `OthersProceed`, with a prover that knows fairness and `ENABLED`.
