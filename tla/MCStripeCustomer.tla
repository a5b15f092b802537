-------------------------- MODULE MCStripeCustomer --------------------------
(* TLC instance of StripeCustomer: workers and users are interchangeable.   *)
EXTENDS StripeCustomer, TLC

ModelSymmetry == Permutations(Worker) \cup Permutations(User)
=============================================================================
