-------------------------- MODULE MCStripeWebhook --------------------------
(* TLC instance of StripeWebhook: workers are interchangeable.              *)
EXTENDS StripeWebhook, TLC

WorkerSymmetry == Permutations(Worker)
=============================================================================
