----------------------------- MODULE MCAppleIAP -----------------------------
(* TLC instance of AppleIAP: workers and lineages are each interchangeable. *)
EXTENDS AppleIAP, TLC

ModelSymmetry == Permutations(Worker) \cup Permutations(Line)
=============================================================================
