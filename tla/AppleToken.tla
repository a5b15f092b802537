----------------------------- MODULE AppleToken -----------------------------
(***************************************************************************)
(* Sign in with Apple up to the verified identity token: the token posted   *)
(* by the app, or obtained for the code of the web callback, is checked     *)
(* against the keys Apple publishes (external), which rotate meanwhile.      *)
(* Each request makes an AppleVerifier, and with it a key cache, of its own. *)
(* The cache's time to live is hours and a request's is seconds, so within  *)
(* a request nothing in the cache expires.                                  *)
(***************************************************************************)
EXTENDS Naturals, FiniteSets

CONSTANTS Key,           \* kid of a signing key
          Requester      \* concurrent request goroutines

VARIABLES published,     \* keys at https://appleid.apple.com/auth/keys
          cached,        \* cached[w]: keysByKID of w's verifier, {} for nil
          attempt        \* attempt[w]: what w has in hands and is doing

appleVars == <<published, cached, attempt>>

-----------------------------------------------------------------------------
\* at "exchange": the web callback has a code; "first", "second": the two calls
\* of verifyWithCache; "forced": the second has its keys.  fits: the token's
\* issuer, audience, times and nonce pass.  History: ever, always: the token
\* was good (signed with a published key, and fit) at some time, respectively
\* all the time, since it came; failed: key fetches that failed.
Attempt == [at : {"idle", "exchange"}]
             \cup [at : {"first", "second", "forced", "verified", "refused"},
                   key : Key, fits : BOOLEAN, ever : BOOLEAN, always : BOOLEAN, failed : 0..2]
NoAttempt == [at |-> "idle"]

AppleTypeOK ==
    /\ published \subseteq Key
    /\ cached \in [Requester -> SUBSET Key]
    /\ attempt \in [Requester -> Attempt]

AppleInit ==
    /\ published \in (SUBSET Key) \ {{}}
    /\ cached = [w \in Requester |-> {}]
    /\ attempt = [w \in Requester |-> NoAttempt]

-----------------------------------------------------------------------------
(* Apple and time (external) *)

\* The attempts once keys are published and the tokens of the requesters in
\* expired do not fit any more.
Aged(keys, expired) ==
    [w \in Requester |->
       LET a == attempt[w]
           good == a.key \in keys /\ a.fits /\ w \notin expired
       IN IF a.at \in {"idle", "exchange"} THEN a
          ELSE [a EXCEPT !.fits = @ /\ w \notin expired,
                         !.ever = @ \/ good, !.always = @ /\ good]]

Rotate(keys) ==
    /\ keys # {} /\ keys # published
    /\ published' = keys
    /\ attempt' = Aged(keys, {})
    /\ UNCHANGED cached

Expires(w) ==
    /\ attempt[w].at \in {"first", "second", "forced"} /\ attempt[w].fits
    /\ attempt' = Aged(published, {w})
    /\ UNCHANGED <<published, cached>>

-----------------------------------------------------------------------------
(* The server *)

\* Mutant: one verifier, and one cache, for all requests.
NewAppleVerifierShared(w) == UNCHANGED cached

NewAppleVerifier(w) == cached' = [cached EXCEPT ![w] = {}]

Verifying(w, key, fits) ==
    LET good == key \in published /\ fits IN
    /\ attempt' = [attempt EXCEPT ![w] = [at |-> "first", key |-> key, fits |-> fits,
                                          ever |-> good, always |-> good, failed |-> 0]]
    /\ NewAppleVerifier(w)
    /\ UNCHANGED published

\* handleAppleOIDC for any token, new or old.
HandleAppleOIDC(w, key, fits) ==
    /\ attempt[w].at = "idle"
    /\ Verifying(w, key, fits)

\* handleAppleWebCallback with a code, then the exchange: Apple answers with a
\* token it signs now, or not (a code serves once).
HandleAppleWebCallback(w) ==
    /\ attempt[w].at = "idle"
    /\ attempt' = [attempt EXCEPT ![w] = [at |-> "exchange"]]
    /\ UNCHANGED <<published, cached>>

ExchangeAppleAuthorizationCode(w) ==
    /\ attempt[w].at = "exchange"
    /\ \E key \in published : Verifying(w, key, TRUE)

ExchangeFails(w) ==
    /\ attempt[w].at = "exchange"
    /\ attempt' = [attempt EXCEPT ![w] = NoAttempt]
    /\ UNCHANGED <<published, cached>>

\* The first call ends the search for the token's key in the keys at hand, the
\* second always fetches them again.
Fetches(w) == \/ attempt[w].at = "first" /\ cached[w] = {}
              \/ attempt[w].at = "second"

\* What follows a call that failed: the second, or 401.
Failing(w) == IF attempt[w].at = "first" THEN "second" ELSE "refused"

Fetch(w) ==
    /\ Fetches(w)
    /\ cached' = [cached EXCEPT ![w] = published]
    /\ attempt' = [attempt EXCEPT ![w].at = IF @ = "second" THEN "forced" ELSE @]
    /\ UNCHANGED published

\* Apple does not answer, not with 200, or with no usable key.
FetchFails(w) ==
    /\ Fetches(w)
    /\ attempt' = [attempt EXCEPT ![w].at = Failing(w), ![w].failed = @ + 1]
    /\ UNCHANGED <<published, cached>>

\* ParseWithClaims with the keys, and the checks of the claims.
VerifyWithCache(w) ==
    /\ attempt[w].at \in {"first", "forced"} /\ ~Fetches(w)
    /\ attempt' = [attempt EXCEPT ![w].at =
                     IF attempt[w].key \in cached[w] /\ attempt[w].fits
                     THEN "verified" ELSE Failing(w)]
    /\ UNCHANGED <<published, cached>>

\* 401, or on to the account; or the client goes away at any time.
AttemptEnds(w) ==
    /\ attempt[w].at # "idle"
    /\ attempt' = [attempt EXCEPT ![w] = NoAttempt]
    /\ UNCHANGED <<published, cached>>

AppleNext ==
    \/ \E keys \in SUBSET Key : Rotate(keys)
    \/ \E w \in Requester :
         \/ Expires(w)
         \/ \E key \in Key, fits \in BOOLEAN : HandleAppleOIDC(w, key, fits)
         \/ HandleAppleWebCallback(w) \/ ExchangeAppleAuthorizationCode(w)
         \/ ExchangeFails(w)
         \/ Fetch(w) \/ FetchFails(w) \/ VerifyWithCache(w) \/ AttemptEnds(w)

AppleSpec == AppleInit /\ [][AppleNext]_appleVars

-----------------------------------------------------------------------------
(* Properties *)

\* Whatever keys come and go while a token is checked: it is accepted only if
\* it was good at some moment since it came (no key Apple had withdrawn before
\* is trusted), and a token good all the while is refused only if both fetches
\* failed (a rotation, or one failed fetch, costs nobody the sign-in).
VerdictFair ==
    \A w \in Requester :
        /\ attempt[w].at = "verified" => attempt[w].ever
        /\ attempt[w].at = "refused" /\ attempt[w].always => attempt[w].failed = 2
=============================================================================
