------------------------------ MODULE Metrics ------------------------------
(***************************************************************************)
(* What the owner's dashboard is made of: GET /admin/metrics reads users,    *)
(* entitlements and analytics_events in seven statements, each with a        *)
(* snapshot of its own, while accounts register, devices send events and     *)
(* entitlements change (EntitlementRace).                                   *)
(*                                                                         *)
(* The days of the series do not influence each other; one is considered.   *)
(* Numbers no property relates (weeks, months, totals of events, reading     *)
(* and translation counts) are left out, their statements are not.          *)
(***************************************************************************)
EXTENDS EntitlementRace, Sequences

CONSTANTS Account,       \* registered and future accounts; User are some of them
          Device,        \* values of anonymous_id
          MaxReceived    \* bound: events ever recorded

ASSUME MetricsAssumption ==
    User \subseteq Account /\ IsFiniteSet(Account) /\ MaxReceived \in Nat

VARIABLES registered,    \* ids in users
          events,        \* analytics_events
          report         \* the one request for metrics considered

metricsVars == <<registered, events, report>>

-----------------------------------------------------------------------------
\* delta: the pageDelta of a reader_page_changed event, an integer of 32 bits
\* ("whole"), another number, or missing; "none" for other events.
Delta == {"none", "missing", "whole", "other"}
EventRow == [device : Device, user : BOOLEAN, platform : {"iphone", "ipad"}, delta : Delta]

\* at: the statement to run next.  History: twice, an account had several
\* active rows when it was counted.
Statement == {"summary", "dau", "authAnon", "platform", "subscription", "reading",
              "translations", "served", "refused"}
Report == [at : Statement, users : Nat, activePro : Nat, dau : Nat, auth : Nat, anon : Nat,
           iphone : Nat, ipad : Nat, pro : Nat, free : Nat, twice : BOOLEAN]
NoReport == [at |-> "none"]
Blank == [at |-> "summary", users |-> 0, activePro |-> 0, dau |-> 0, auth |-> 0, anon |-> 0,
          iphone |-> 0, ipad |-> 0, pro |-> 0, free |-> 0, twice |-> FALSE]

MetricsTypeOK ==
    /\ registered \subseteq Account
    /\ events \in Seq(EventRow)
    /\ report \in Report \cup {NoReport}

MetricsInit ==
    /\ registered = User
    /\ events = <<>>
    /\ report = NoReport

-----------------------------------------------------------------------------
(* The tables fill. *)

Register(a) ==
    /\ a \notin registered
    /\ registered' = registered \cup {a}
    /\ UNCHANGED <<active, tx, clock, mixed, events, report>>

\* handleAnalyticsEvents past its limiters (RateWindow).  The user is attached
\* when the request has a valid token and the user can be loaded; if that fails
\* the event is kept as an anonymous one.  pageDelta may be missing, and any
\* JSON number passes its type check.
HandleAnalyticsEvents(device, signedIn, platform, delta) ==
    /\ Len(events) < MaxReceived
    /\ \E user \in {signedIn, FALSE} :
         events' = Append(events, [device |-> device, user |-> user, platform |-> platform,
                                   delta |-> delta])
    /\ UNCHANGED <<active, tx, clock, mixed, registered, report>>

-----------------------------------------------------------------------------
(* The statements of handleAdminMetrics. *)

Received == {events[i] : i \in 1..Len(events)}
Devices(rows) == Cardinality({e.device : e \in rows})

ActiveCount == Cardinality({i \in Slot : active[i] # NoRow})
RowsOf(a) == {i \in Slot : active[i] # NoRow /\ active[i].user = a}

Becomes(r) == report' = r /\ UNCHANGED <<active, tx, clock, mixed, registered, events>>

\* ownerOnly let the request pass.
Ask == report.at = "none" /\ Becomes(Blank)

Summary ==
    /\ report.at = "summary"
    /\ Becomes([report EXCEPT !.at = "dau", !.users = Cardinality(registered),
                              !.activePro = ActiveCount])

DauSeries ==
    /\ report.at = "dau"
    /\ Becomes([report EXCEPT !.at = "authAnon", !.dau = Devices(Received)])

AuthAnon ==
    /\ report.at = "authAnon"
    /\ Becomes([report EXCEPT !.at = "platform", !.auth = Devices({e \in Received : e.user}),
                              !.anon = Devices({e \in Received : ~e.user})])

Platform ==
    /\ report.at = "platform"
    /\ Becomes([report EXCEPT !.at = "subscription",
                              !.iphone = Devices({e \in Received : e.platform = "iphone"}),
                              !.ipad = Devices({e \in Received : e.platform = "ipad"})])

FreeRegistered == Cardinality({a \in registered : RowsOf(a) = {}})
CountedTwice == \E a \in registered : Cardinality(RowsOf(a)) > 1

\* Mutant: the summary's number of active rows is used again.
SubscriptionReused ==
    /\ report.at = "subscription"
    /\ Becomes([report EXCEPT !.at = "reading", !.pro = report.activePro,
                              !.free = FreeRegistered, !.twice = CountedTwice])

\* pro counts rows, free counts accounts, in one statement.
Subscription ==
    /\ report.at = "subscription"
    /\ Becomes([report EXCEPT !.at = "reading", !.pro = ActiveCount,
                              !.free = FreeRegistered, !.twice = CountedTwice])

\* SUM(ABS((properties->>'pageDelta')::int)) fails if one delta is not the text
\* of an integer, and is NULL, which Scan refuses, if no event of the day has one.
Deltas == {e.delta : e \in Received} \ {"none"}
Summable == "other" \notin Deltas /\ Deltas # {"missing"}
Reading ==
    /\ report.at = "reading"
    /\ Becomes([report EXCEPT !.at = IF Summable THEN "translations" ELSE "refused"])

Translations == report.at = "translations" /\ Becomes([report EXCEPT !.at = "served"])

\* A statement fails, the owner goes away; or the answer is out.
ReportEnds == report.at # "none" /\ Becomes(NoReport)

MetricsNext ==
    \/ Next /\ UNCHANGED metricsVars
    \/ \E a \in Account : Register(a)
    \/ \E device \in Device, signedIn \in BOOLEAN, platform \in {"iphone", "ipad"}, d \in Delta :
         HandleAnalyticsEvents(device, signedIn, platform, d)
    \/ Ask \/ Summary \/ DauSeries \/ AuthAnon \/ Platform \/ Subscription
    \/ Reading \/ Translations \/ ReportEnds

MetricsSpec == Init /\ MetricsInit /\ [][MetricsNext]_<<vars, metricsVars>>

-----------------------------------------------------------------------------
(* Properties *)

\* The numbers of one report come from different moments and err to one side
\* only.  Every device counted for the day is counted in the split by sign-in
\* and in the split by platform after it.  Every account counted is a Pro or a
\* free one, and no account is both or counted twice unless it had several
\* active rows, which are counted one by one.
ReportAddsUp ==
    report.at = "served" =>
        /\ report.dau <= report.auth + report.anon
        /\ report.dau <= report.iphone + report.ipad
        /\ report.users <= report.pro + report.free
        /\ ~report.twice => report.pro + report.free <= Cardinality(registered)
=============================================================================
