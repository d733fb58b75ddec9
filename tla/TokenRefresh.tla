---------------------------- MODULE TokenRefresh ----------------------------
(***************************************************************************)
(* Renewing the access token of one connection: several nodes find it due, *)
(* one takes the lease on the row, exchanges the refresh token, commits    *)
(* what came back and gives the lease up; the others wait.                 *)
(*                                                                         *)
(* Tokens are numbered in the order the provider issued them. A provider   *)
(* that rotates accepts only the last one.                                 *)
(***************************************************************************)
EXTENDS Naturals, FiniteSets

CONSTANTS
  Refreshers,   \* nodes that call ensure_fresh_token on the connection
  Rotations,    \* what a provider can be: rotating or not
  MaxIssued,    \* bound: tokens issued
  MaxHitches,   \* bound: failures, deaths and leases that run out
  NoRefresher

ASSUME RotationAssumption == Rotations \subseteq BOOLEAN
ASSUME IssuedAssumption == MaxIssued \in Nat
ASSUME HitchAssumption == MaxHitches \in Nat
ASSUME NobodyAssumption == NoRefresher \notin Refreshers

VARIABLES
  rotates,     \* auth.rotates_refresh_token; never changes
  issued,      \* the last token the provider issued
  due,         \* the newest token whose expiry is within the margin
  credential,  \* the row: refresh token, the token its expiry is of, and the lease
  needsReauth, \* the connection's status is needs_reauth
  object,      \* the credential object each caller read
  step,        \* what each caller is doing
  answer,      \* the token a caller was given
  overran,     \* callers whose lease ran out while they held it
  slipped,     \* a rotated token never reached the row
  hitches

tokenVars == << rotates, issued, due, credential, needsReauth, object, step, answer,
                overran, slipped, hitches >>

Token == 0 .. MaxIssued
Holding == {"exchange", "answered", "release"}

\* Type invariant of the row, the provider and the callers.
TokenTypeOK ==
  /\ rotates \in BOOLEAN
  /\ issued \in Token /\ due \in 0 .. MaxIssued + 1
  /\ credential \in [refresh: Token, expiry: Token,
                     lease: Refreshers \cup {NoRefresher}, live: BOOLEAN]
  /\ needsReauth \in BOOLEAN
  /\ object \in [Refreshers -> [refresh: Token, expiry: Token]]
  /\ step \in [Refreshers -> {"idle", "read", "wait"} \cup Holding]
  /\ answer \in [Refreshers -> Token]
  /\ overran \subseteq Refreshers
  /\ slipped \in BOOLEAN
  /\ hitches \in 0 .. MaxHitches

TokenInit ==
  /\ rotates \in Rotations
  /\ issued = 0 /\ due = 0
  /\ credential = [refresh |-> 0, expiry |-> 0, lease |-> NoRefresher, live |-> FALSE]
  /\ needsReauth = FALSE
  /\ object = [w \in Refreshers |-> [refresh |-> 0, expiry |-> 0]]
  /\ step = [w \in Refreshers |-> "idle"]
  /\ answer = [w \in Refreshers |-> 0]
  /\ overran = {} /\ slipped = FALSE /\ hitches = 0

Hitch == hitches < MaxHitches /\ hitches' = hitches + 1
GoesOn(w, s) == step' = [step EXCEPT ![w] = s]

\* needs_refresh: tokens come due in the order they were issued. due counts
\* them, so that token 0 is due once due is 1.
NeedsRefresh(expiry) == expiry < due

\* Time passes: the token in use comes within the margin of its expiry.
ComesDue ==
  /\ ~ NeedsRefresh(credential.expiry)
  /\ due' = credential.expiry + 1
  /\ UNCHANGED << rotates, issued, credential, needsReauth, object, step, answer,
                  overran, slipped, hitches >>

\* The caller loads the credential; everything it does later uses this object.
ReadsCredential(w) ==
  /\ step[w] = "idle"
  /\ object' = [object EXCEPT ![w] = [refresh |-> credential.refresh,
                                      expiry |-> credential.expiry]]
  /\ GoesOn(w, "read")
  /\ UNCHANGED << rotates, issued, due, credential, needsReauth, answer, overran, slipped, hitches >>

StillFresh(w) ==
  /\ step[w] = "read" /\ ~ NeedsRefresh(object[w].expiry)
  /\ GoesOn(w, "idle")
  /\ UNCHANGED << rotates, issued, due, credential, needsReauth, object, answer,
                  overran, slipped, hitches >>

-----------------------------------------------------------------------------
(* The lease.                                                              *)

\* Mutation: the conditional UPDATE has lost its condition.
LeaseFreeAlways == TRUE

LeaseFree == credential.lease = NoRefresher \/ ~ credential.live

\* claim_refresh: one conditional UPDATE.
Claims(w) ==
  /\ step[w] = "read" /\ NeedsRefresh(object[w].expiry)
  /\ LeaseFree
  /\ credential' = [credential EXCEPT !.lease = w, !.live = TRUE]
  /\ GoesOn(w, "exchange")
  /\ overran' = overran \ {w}
  /\ UNCHANGED << rotates, issued, due, needsReauth, object, answer, slipped, hitches >>

LosesClaim(w) ==
  /\ step[w] = "read" /\ NeedsRefresh(object[w].expiry)
  /\ ~ LeaseFree
  /\ GoesOn(w, "wait")
  /\ UNCHANGED << rotates, issued, due, credential, needsReauth, object, answer,
                  overran, slipped, hitches >>

\* LOCK_TTL_SECONDS pass: the row still carries the claim.
LeaseRunsOut ==
  /\ credential.lease # NoRefresher /\ credential.live
  /\ Hitch
  /\ credential' = [credential EXCEPT !.live = FALSE]
  /\ overran' = overran \cup {credential.lease}
  /\ UNCHANGED << rotates, issued, due, needsReauth, object, step, answer, slipped >>

\* Mutation: the lease is cleared whoever holds it.
ReleasesBlindly(w) ==
  /\ step[w] = "release"
  /\ credential' = [credential EXCEPT !.lease = NoRefresher, !.live = FALSE]
  /\ GoesOn(w, "idle")
  /\ UNCHANGED << rotates, issued, due, needsReauth, object, answer, overran, slipped, hitches >>

\* release_refresh: only a claim that is still ours.
Releases(w) ==
  /\ step[w] = "release"
  /\ credential' = IF credential.lease = w
                   THEN [credential EXCEPT !.lease = NoRefresher, !.live = FALSE]
                   ELSE credential
  /\ GoesOn(w, "idle")
  /\ UNCHANGED << rotates, issued, due, needsReauth, object, answer, overran, slipped, hitches >>

\* wait_for_refresh: the row is read again until its claim is gone and its
\* token good.
FindsRefreshed(w) ==
  /\ step[w] = "wait"
  /\ credential.lease = NoRefresher /\ ~ NeedsRefresh(credential.expiry)
  /\ GoesOn(w, "idle")
  /\ UNCHANGED << rotates, issued, due, credential, needsReauth, object, answer,
                  overran, slipped, hitches >>

\* WAIT_TIMEOUT_SECONDS pass: the node fails and may be run again.
WaitTimesOut(w) ==
  /\ step[w] = "wait"
  /\ GoesOn(w, "idle")
  /\ UNCHANGED << rotates, issued, due, credential, needsReauth, object, answer,
                  overran, slipped, hitches >>

-----------------------------------------------------------------------------
(* The exchange.                                                           *)

GrantHolds(w) == ~ rotates \/ object[w].refresh = issued

\* The provider issues the next token; the answer is on its way to the row.
Exchanges(w) ==
  /\ step[w] = "exchange" /\ GrantHolds(w) /\ issued < MaxIssued
  /\ issued' = issued + 1
  /\ answer' = [answer EXCEPT ![w] = issued + 1]
  /\ GoesOn(w, "answered")
  /\ UNCHANGED << rotates, due, credential, needsReauth, object, overran, slipped, hitches >>

\* invalid_grant: the connection waits for its owner.
GrantRefused(w) ==
  /\ step[w] = "exchange" /\ ~ GrantHolds(w)
  /\ needsReauth' = TRUE
  /\ GoesOn(w, "release")
  /\ UNCHANGED << rotates, issued, due, credential, object, answer, overran, slipped, hitches >>

\* The row holds no refresh token, or one that cannot be decrypted.
NothingToExchange(w) ==
  /\ step[w] = "exchange"
  /\ Hitch
  /\ needsReauth' = TRUE
  /\ GoesOn(w, "release")
  /\ UNCHANGED << rotates, issued, due, credential, object, answer, overran, slipped >>

\* The exchange raises, before or after the provider has issued a token.
ExchangeFails(w, carriedOut) ==
  /\ step[w] = "exchange" /\ (carriedOut => GrantHolds(w) /\ issued < MaxIssued)
  /\ Hitch
  /\ issued' = IF carriedOut THEN issued + 1 ELSE issued
  /\ slipped' = (slipped \/ (carriedOut /\ rotates))
  /\ GoesOn(w, "release")
  /\ UNCHANGED << rotates, due, credential, needsReauth, object, answer, overran >>

\* Mutation: the new access token is written and the old refresh token kept.
StoresAccessOnly(w) ==
  /\ step[w] = "answered"
  /\ credential' = [credential EXCEPT !.expiry = answer[w]]
  /\ GoesOn(w, "release")
  /\ UNCHANGED << rotates, issued, due, needsReauth, object, answer, overran, slipped, hitches >>

\* _apply and the commit, before the token is used.
Stores(w) ==
  /\ step[w] = "answered"
  /\ credential' = [credential EXCEPT !.expiry = answer[w],
                                      !.refresh = IF rotates THEN answer[w] ELSE @]
  /\ GoesOn(w, "release")
  /\ UNCHANGED << rotates, issued, due, needsReauth, object, answer, overran, slipped, hitches >>

\* _apply, without an expiry in the answer: the old one stays.
StoresWithoutExpiry(w) ==
  /\ step[w] = "answered"
  /\ Hitch
  /\ credential' = [credential EXCEPT !.refresh = IF rotates THEN answer[w] ELSE @]
  /\ GoesOn(w, "release")
  /\ UNCHANGED << rotates, issued, due, needsReauth, object, answer, overran, slipped >>

\* No access token in the answer, no new refresh token from a provider that
\* rotates, or a commit that raises: what the model keeps of the row stays.
AnswerUnusable(w) ==
  /\ step[w] = "answered"
  /\ Hitch
  /\ slipped' = (slipped \/ rotates)
  /\ GoesOn(w, "release")
  /\ UNCHANGED << rotates, issued, due, credential, needsReauth, object, answer, overran >>

\* The process of the caller dies; the row keeps its claim.
CallerDies(w) ==
  /\ step[w] # "idle"
  /\ Hitch
  /\ slipped' = (slipped \/ (rotates /\ step[w] = "answered"))
  /\ GoesOn(w, "idle")
  /\ UNCHANGED << rotates, issued, due, credential, needsReauth, object, answer, overran >>

-----------------------------------------------------------------------------

Caller(w) ==
  \/ ReadsCredential(w) \/ StillFresh(w) \/ Claims(w) \/ LosesClaim(w) \/ Releases(w)
  \/ FindsRefreshed(w) \/ WaitTimesOut(w) \/ Exchanges(w) \/ GrantRefused(w)
  \/ NothingToExchange(w) \/ (\E carriedOut \in BOOLEAN : ExchangeFails(w, carriedOut))
  \/ Stores(w) \/ StoresWithoutExpiry(w) \/ AnswerUnusable(w) \/ CallerDies(w)

TokenNext == ComesDue \/ LeaseRunsOut \/ \E w \in Refreshers : Caller(w)

TokenSpec == TokenInit /\ [][TokenNext]_tokenVars

-----------------------------------------------------------------------------
(* Properties.                                                             *)

InTime(w) == step[w] \in Holding /\ w \notin overran

\* Two callers renew the token side by side only if the lease of one of them ran
\* out: a caller that overran does not take the lease away from its successor.
OneExchange == \A v, w \in Refreshers : InTime(v) /\ InTime(w) => v = w

\* At a provider that rotates, the row holds the one token that still works once
\* every answer is stored, whatever leases ran out: unless an answer was lost.
StoredTokenWorks ==
  rotates /\ ~ slipped /\ (\A w \in Refreshers : step[w] # "answered")
    => credential.refresh = issued
=============================================================================
