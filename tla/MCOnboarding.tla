---------------------------- MODULE MCOnboarding ----------------------------
(* TLC instance of Onboarding.  The analytics routes have windows of their   *)
(* own, so a behaviour explores either them or the onboarding routes; they   *)
(* need an instant less (no token has to expire and be cleaned up).          *)
(* Workers are interchangeable.                                             *)
EXTENDS Onboarding, TLC

VARIABLE part

Served(kinds) == \A w \in Worker : job'[w].at # "idle" => job'[w].key[1] \in kinds

LimitedInit == OnboardingInit /\ part \in {"onboarding", "analytics"}

LimitedNext ==
    /\ OnboardingNext
    /\ part = "onboarding" => Served({"session", "translate", "token"})
    /\ part = "analytics" => Served({"event", "device"}) /\ clock' < MaxClock
    /\ UNCHANGED part

LimitedSpec == LimitedInit /\ [][LimitedNext]_<<onboardingVars, part>>

WorkerSymmetry == Permutations(Worker)
=============================================================================
