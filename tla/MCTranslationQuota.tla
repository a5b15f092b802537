------------------------ MODULE MCTranslationQuota ------------------------
(* TLC instance of TranslationQuota: the request goroutines are             *)
(* interchangeable.                                                        *)
EXTENDS TranslationQuota, TLC

ReqSymmetry == Permutations(Req)
=============================================================================
