------------------------- MODULE MCEntitlementRace -------------------------
(* TLC instance of EntitlementRace and of Metrics, which reads its rows.     *)
(* A behaviour explores one of three parts, which only meet in the report:   *)
(* races of all workers; a report while accounts register and one            *)
(* transaction at a time changes entitlements (a report only sees what is    *)
(* committed); a report while events arrive.  Workers and devices are each   *)
(* interchangeable.                                                          *)
EXTENDS Metrics, TLC

VARIABLE part

allVars == <<vars, metricsVars, part>>

ProInit == Init /\ MetricsInit /\ part \in {"race", "accounts", "events"}

Open == {w \in Worker : tx[w].at # "none"}

ProNext ==
    \/ part = "race" /\ Next /\ UNCHANGED <<metricsVars, part>>
    \/ part = "accounts" /\ UNCHANGED <<events, part>> /\ MetricsNext /\ Cardinality(Open') <= 1
    \/ part = "events" /\ UNCHANGED <<vars, registered, part>> /\ MetricsNext

ProSpec == ProInit /\ [][ProNext]_allVars

ProTypeOK == TypeOK /\ MetricsTypeOK

ModelSymmetry == Permutations(Worker) \cup Permutations(Device)
=============================================================================
