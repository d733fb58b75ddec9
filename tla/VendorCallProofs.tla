-------------------------- MODULE VendorCallProofs --------------------------
(***************************************************************************)
(* What a request to a vendor needs: a token and a place in the bucket.    *)
(* The lease on a credential, for any number of callers, tokens, failures  *)
(* and leases that run out: only callers that overran renew side by side,  *)
(* and the token a rotating provider still accepts is the one in the row.  *)
(* The bound of the leaky bucket, for any number of tasks and any rate and *)
(* burst: what the bucket holds is never more than the allowance leaves    *)
(* since any earlier request, and a task that sleeps wakes no earlier than *)
(* the allowance has room for its request.                                 *)
(***************************************************************************)
EXTENDS TokenRefresh, RateLimit, SequenceTheorems, TLAPS

-----------------------------------------------------------------------------
(* The token.                                                              *)

\* The row carries the claim of every caller that is in time.
LeaseHeld == \A w \in Refreshers : InTime(w) => credential.lease = w /\ credential.live

\* Of a provider that rotates, when nothing was lost: nobody has read a token
\* newer than the row's, and the row lags by the one answer under way.
Answered(w) == step[w] = "answered"
RowKeepsUp ==
  rotates /\ ~ slipped =>
    /\ \A w \in Refreshers : object[w].refresh <= credential.refresh
    /\ \A w \in Refreshers : Answered(w) => answer[w] = issued /\ credential.refresh < issued
    /\ \A v, w \in Refreshers : Answered(v) /\ Answered(w) => v = w
    /\ (\A w \in Refreshers : ~ Answered(w)) => credential.refresh = issued

TokenIInv == TokenTypeOK /\ LeaseHeld /\ RowKeepsUp

LEMMA TokenInitially == TokenInit => TokenIInv
<1> SUFFICES ASSUME TokenInit PROVE TokenIInv
  OBVIOUS
<1> USE DEF TokenInit
<1>1. TokenTypeOK
  <2>1. 0 \in Token /\ 0 \in 0 .. MaxHitches /\ 0 \in 0 .. MaxIssued + 1
    BY IssuedAssumption, HitchAssumption DEF Token
  <2>2. rotates \in BOOLEAN BY RotationAssumption
  <2>3. QED BY <2>1, <2>2 DEF TokenTypeOK
<1>2. LeaseHeld BY DEF LeaseHeld, InTime, Holding
<1>3. RowKeepsUp BY DEF RowKeepsUp, Answered
<1>4. QED BY <1>1, <1>2, <1>3 DEF TokenIInv

\* Every step keeps the types.
LEMMA TokenTypeStep == TokenTypeOK /\ [TokenNext]_tokenVars => TokenTypeOK'
<1> SUFFICES ASSUME TokenTypeOK, [TokenNext]_tokenVars PROVE TokenTypeOK'
  OBVIOUS
<1> USE IssuedAssumption, HitchAssumption, NobodyAssumption DEF TokenTypeOK, Token, Holding, GoesOn
<1>1. CASE ComesDue BY <1>1 DEF ComesDue
<1>2. CASE LeaseRunsOut
  <2>1. /\ UNCHANGED << rotates, issued, due, needsReauth, object, step, answer, slipped >>
        /\ hitches' \in 0 .. MaxHitches
    BY <1>2 DEF LeaseRunsOut, Hitch
  <2>2. credential' \in [refresh: Token, expiry: Token,
                         lease: Refreshers \cup {NoRefresher}, live: BOOLEAN]
    BY <1>2 DEF LeaseRunsOut
  <2>3. overran' \subseteq Refreshers BY <1>2 DEF LeaseRunsOut
  <2>4. QED BY <2>1, <2>2, <2>3
<1>3. ASSUME NEW w \in Refreshers, Caller(w) PROVE TokenTypeOK'
  <2>1. CASE ReadsCredential(w) BY <2>1 DEF ReadsCredential
  <2>2. CASE StillFresh(w) BY <2>2 DEF StillFresh
  <2>3. CASE Claims(w) BY <2>3 DEF Claims
  <2>4. CASE LosesClaim(w) BY <2>4 DEF LosesClaim
  <2>5. CASE Releases(w) BY <2>5 DEF Releases
  <2>6. CASE FindsRefreshed(w) BY <2>6 DEF FindsRefreshed
  <2>7. CASE WaitTimesOut(w) BY <2>7 DEF WaitTimesOut
  <2>8. CASE Exchanges(w) BY <2>8 DEF Exchanges
  <2>9. CASE GrantRefused(w) BY <2>9 DEF GrantRefused
  <2>10. CASE NothingToExchange(w) BY <2>10 DEF NothingToExchange, Hitch
  <2>11. CASE \E carriedOut \in BOOLEAN : ExchangeFails(w, carriedOut)
    BY <2>11 DEF ExchangeFails, Hitch
  <2>12. CASE Stores(w) BY <2>12 DEF Stores
  <2>13. CASE StoresWithoutExpiry(w) BY <2>13 DEF StoresWithoutExpiry, Hitch
  <2>14. CASE AnswerUnusable(w) BY <2>14 DEF AnswerUnusable, Hitch
  <2>15. CASE CallerDies(w) BY <2>15 DEF CallerDies, Hitch
  <2>16. QED
    BY <1>3, <2>1, <2>2, <2>3, <2>4, <2>5, <2>6, <2>7, <2>8, <2>9, <2>10, <2>11, <2>12,
       <2>13, <2>14, <2>15 DEF Caller
<1>4. CASE UNCHANGED tokenVars BY <1>4 DEF tokenVars
<1>5. QED BY <1>1, <1>2, <1>3, <1>4 DEF TokenNext

\* Every step keeps the claim of the callers in time: a claim is only taken when
\* none is live, and a release clears the claim of its own caller.
LEMMA LeaseStep == TokenTypeOK /\ LeaseHeld /\ [TokenNext]_tokenVars => LeaseHeld'
<1> SUFFICES ASSUME TokenTypeOK, LeaseHeld, [TokenNext]_tokenVars,
                    NEW u \in Refreshers, InTime(u)'
             PROVE  (credential.lease = u /\ credential.live)'
  BY DEF LeaseHeld
<1> USE NobodyAssumption DEF LeaseHeld, InTime, Holding, TokenTypeOK, GoesOn
<1>1. CASE ComesDue BY <1>1 DEF ComesDue
<1>2. CASE LeaseRunsOut BY <1>2 DEF LeaseRunsOut, Hitch
<1>3. ASSUME NEW w \in Refreshers, Caller(w) PROVE (credential.lease = u /\ credential.live)'
  <2>1. CASE ReadsCredential(w) BY <2>1 DEF ReadsCredential
  <2>2. CASE StillFresh(w) BY <2>2 DEF StillFresh
  <2>3. CASE Claims(w) BY <2>3 DEF Claims, LeaseFree
  <2>4. CASE LosesClaim(w) BY <2>4 DEF LosesClaim
  <2>5. CASE Releases(w) BY <2>5 DEF Releases
  <2>6. CASE FindsRefreshed(w) BY <2>6 DEF FindsRefreshed
  <2>7. CASE WaitTimesOut(w) BY <2>7 DEF WaitTimesOut
  <2>8. CASE Exchanges(w) BY <2>8 DEF Exchanges
  <2>9. CASE GrantRefused(w) BY <2>9 DEF GrantRefused
  <2>10. CASE NothingToExchange(w) BY <2>10 DEF NothingToExchange
  <2>11. CASE \E carriedOut \in BOOLEAN : ExchangeFails(w, carriedOut)
    BY <2>11 DEF ExchangeFails
  <2>12. CASE Stores(w) BY <2>12 DEF Stores
  <2>13. CASE StoresWithoutExpiry(w) BY <2>13 DEF StoresWithoutExpiry
  <2>14. CASE AnswerUnusable(w) BY <2>14 DEF AnswerUnusable
  <2>15. CASE CallerDies(w) BY <2>15 DEF CallerDies
  <2>16. QED
    BY <1>3, <2>1, <2>2, <2>3, <2>4, <2>5, <2>6, <2>7, <2>8, <2>9, <2>10, <2>11, <2>12,
       <2>13, <2>14, <2>15 DEF Caller
<1>4. CASE UNCHANGED tokenVars BY <1>4 DEF tokenVars
<1>5. QED BY <1>1, <1>2, <1>3, <1>4 DEF TokenNext

\* Every step keeps the row at most one answer behind: only a caller whose
\* object has the newest token is given a newer one, and then nobody else has it.
LEMMA RowStep == TokenTypeOK /\ RowKeepsUp /\ [TokenNext]_tokenVars => RowKeepsUp'
<1> SUFFICES ASSUME TokenTypeOK, RowKeepsUp, [TokenNext]_tokenVars, rotates', ~ slipped'
             PROVE  RowKeepsUp'
  BY DEF RowKeepsUp
<1> USE IssuedAssumption DEF RowKeepsUp, Answered, TokenTypeOK, Token, GoesOn
<1>1. CASE ComesDue BY <1>1 DEF ComesDue
<1>2. CASE LeaseRunsOut BY <1>2 DEF LeaseRunsOut
<1>3. ASSUME NEW w \in Refreshers, Caller(w) PROVE RowKeepsUp'
  <2>1. CASE ReadsCredential(w) BY <2>1 DEF ReadsCredential
  <2>2. CASE StillFresh(w) BY <2>2 DEF StillFresh
  <2>3. CASE Claims(w) BY <2>3 DEF Claims
  <2>4. CASE LosesClaim(w) BY <2>4 DEF LosesClaim
  <2>5. CASE Releases(w) BY <2>5 DEF Releases
  <2>6. CASE FindsRefreshed(w) BY <2>6 DEF FindsRefreshed
  <2>7. CASE WaitTimesOut(w) BY <2>7 DEF WaitTimesOut
  <2>8. CASE Exchanges(w)
    <3>1. rotates /\ ~ slipped /\ object[w].refresh = issued
      BY <2>8 DEF Exchanges, GrantHolds
    <3>2. /\ credential.refresh = issued
          /\ \A v \in Refreshers : ~ Answered(v)
      BY <3>1, <2>8 DEF Exchanges
    <3>3. QED BY <2>8, <3>1, <3>2 DEF Exchanges
  <2>9. CASE GrantRefused(w) BY <2>9 DEF GrantRefused
  <2>10. CASE NothingToExchange(w) BY <2>10 DEF NothingToExchange
  <2>11. CASE \E carriedOut \in BOOLEAN : ExchangeFails(w, carriedOut)
    BY <2>11 DEF ExchangeFails
  <2>12. CASE Stores(w) BY <2>12 DEF Stores
  <2>13. CASE StoresWithoutExpiry(w) BY <2>13 DEF StoresWithoutExpiry
  <2>14. CASE AnswerUnusable(w) BY <2>14 DEF AnswerUnusable
  <2>15. CASE CallerDies(w) BY <2>15 DEF CallerDies
  <2>16. QED
    BY <1>3, <2>1, <2>2, <2>3, <2>4, <2>5, <2>6, <2>7, <2>8, <2>9, <2>10, <2>11, <2>12,
       <2>13, <2>14, <2>15 DEF Caller
<1>4. CASE UNCHANGED tokenVars BY <1>4 DEF tokenVars
<1>5. QED BY <1>1, <1>2, <1>3, <1>4 DEF TokenNext

LEMMA TokenInvariant == TokenSpec => []TokenIInv
<1>1. TokenIInv /\ [TokenNext]_tokenVars => TokenIInv'
  BY TokenTypeStep, LeaseStep, RowStep DEF TokenIInv
<1>2. QED BY <1>1, TokenInitially, PTL DEF TokenSpec

\* Types, for any number of callers, tokens and failures.
THEOREM TokenTypeCorrect == TokenSpec => []TokenTypeOK
<1>1. TokenIInv => TokenTypeOK BY DEF TokenIInv
<1>2. QED BY <1>1, TokenInvariant, PTL

\* The lease of claim_refresh and release_refresh: two callers inside their
\* leases never renew one credential side by side.
THEOREM LeaseIsExclusive == TokenSpec => []OneExchange
<1>1. TokenIInv => OneExchange BY DEF TokenIInv, LeaseHeld, OneExchange
<1>2. QED BY <1>1, TokenInvariant, PTL

\* Exchange, write, commit, then use: at a provider that rotates the row has the
\* newest token as soon as every answer is stored, unless one was lost.
THEOREM NewestTokenIsStored == TokenSpec => []StoredTokenWorks
<1>1. TokenIInv => StoredTokenWorks
  BY DEF TokenIInv, RowKeepsUp, StoredTokenWorks, Answered
<1>2. QED BY <1>1, TokenInvariant, PTL

\* What a refusal of a grant can come from: a rotated token was lost, a lease ran
\* out under a caller that is still at it, or the caller read the row before the
\* renewal that made its token an old one was stored.
RefusalExplained(w) ==
  \/ slipped
  \/ \E v \in overran : step[v] \in Holding
  \/ object[w].refresh < credential.refresh

\* The provider calls a grant invalid, and the connection waits for its owner, for
\* one of these reasons only: as long as nothing is lost and leases last, the caller
\* that is refused held an object older than the row (ensure_fresh_token goes on
\* with the credential it was given once claim_refresh has succeeded).
THEOREM RefusedOnlyIfExplained ==
  TokenSpec => [][\A w \in Refreshers : GrantRefused(w) => RefusalExplained(w)]_tokenVars
<1> DEFINE Explains == \A w \in Refreshers : GrantRefused(w) => RefusalExplained(w)
<1>1. TokenIInv => Explains
  <2> SUFFICES ASSUME TokenIInv, NEW w \in Refreshers, GrantRefused(w), ~ slipped,
                      \A v \in overran : step[v] \notin Holding
               PROVE  object[w].refresh < credential.refresh
    BY DEF RefusalExplained
  <2>1. rotates /\ object[w].refresh # issued /\ step[w] = "exchange"
    BY DEF GrantRefused, GrantHolds
  <2>2. \A v \in Refreshers : Answered(v) => v = w
    BY <2>1 DEF TokenIInv, LeaseHeld, InTime, Holding, Answered
  <2>3. credential.refresh = issued /\ object[w].refresh <= credential.refresh
    BY <2>1, <2>2 DEF TokenIInv, RowKeepsUp, Answered
  <2>4. object[w].refresh \in Nat /\ issued \in Nat
    BY IssuedAssumption DEF TokenIInv, TokenTypeOK, Token
  <2>5. QED BY <2>1, <2>3, <2>4
<1>2. TokenIInv => [Explains]_tokenVars BY <1>1
<1>3. QED BY <1>2, TokenInvariant, PTL

-----------------------------------------------------------------------------
(* The bucket.                                                             *)

\* What the requests from the i-th on have cost.
Cost(i) == (Len(sent) - i + 1) * TokenUnits

\* Since every request, what was spent and what the bucket holds now are
\* within the burst and what time has added.
HoldsNoMore ==
  \A i \in DOMAIN sent : sent[i] <= clock /\ Cost(i) + Level <= Full + (clock - sent[i])

\* The request of a sleeper fits when it wakes, whatever the bucket holds then.
WakesInTime ==
  \A w \in Senders : wakes[w] # 0 =>
    \A i \in DOMAIN sent : Cost(i) + TokenUnits <= Full + (wakes[w] - sent[i])

\* The lock has one holder.
OneSleeper == \A v, w \in Senders : wakes[v] # 0 /\ wakes[w] # 0 => v = w

RateInv == RateTypeOK /\ HoldsNoMore /\ WakesInTime /\ OneSleeper /\ WithinAllowance

LEMMA FullHolds == Full \in Nat /\ TokenUnits <= Full
<1>1. PICK k \in Nat : Capacity = k + 1
  <2>1. Capacity - 1 \in Nat /\ Capacity = (Capacity - 1) + 1 BY CapacityAssumption
  <2>2. QED BY <2>1
<1>2. Full = k * TokenUnits + TokenUnits BY <1>1, UnitsAssumption DEF Full
<1>3. k * TokenUnits \in Nat BY <1>1, UnitsAssumption
<1>4. QED BY <1>2, <1>3, UnitsAssumption

LEMMA LevelTyped ==
  ASSUME RateTypeOK
  PROVE  /\ Level \in 0 .. Full
         /\ Level <= bucket.tokens + (clock - bucket.at)
         /\ Level = bucket.tokens + (clock - bucket.at) \/ Level = Full
  BY FullHolds DEF RateTypeOK, Level

\* One more request costs one token more.
LEMMA OneMore ==
  ASSUME NEW n \in Nat, NEW i \in 1 .. n
  PROVE  /\ (n + 1 - i + 1) * TokenUnits = (n - i + 1) * TokenUnits + TokenUnits
         /\ (n - i + 1) * TokenUnits \in Nat
<1>1. PICK k \in Nat : k = n - i + 1 OBVIOUS
<1>2. n + 1 - i + 1 = k + 1 BY <1>1
<1>3. (k + 1) * TokenUnits = k * TokenUnits + TokenUnits BY UnitsAssumption
<1>4. k * TokenUnits \in Nat BY UnitsAssumption
<1>5. QED BY <1>1, <1>2, <1>3, <1>4

LEMMA CostTyped ==
  ASSUME RateTypeOK, NEW i \in DOMAIN sent
  PROVE  Cost(i) \in Nat /\ sent[i] \in 0 .. MaxClock
<1>0. sent \in Seq(0 .. MaxClock) BY DEF RateTypeOK
<1>1. Len(sent) \in Nat /\ i \in 1 .. Len(sent) /\ sent[i] \in 0 .. MaxClock
  BY <1>0, LenProperties, ElementOfSeq
<1>2. QED BY <1>1, OneMore DEF Cost

LEMMA RateInitially == RateInit => RateInv
<1> SUFFICES ASSUME RateInit PROVE RateInv OBVIOUS
<1>1. RateTypeOK BY FullHolds, ClockAssumption DEF RateInit, RateTypeOK
<1>2. DOMAIN sent = {} BY DEF RateInit
<1>3. QED BY <1>1, <1>2 DEF RateInit, RateInv, HoldsNoMore, WakesInTime, OneSleeper, WithinAllowance

\* A request that goes out while it fits keeps the bound.
LEMMA TakeKeeps ==
  ASSUME RateInv, Take, UNCHANGED clock,
         Level >= TokenUnits
           \/ \A i \in DOMAIN sent : Cost(i) + TokenUnits <= Full + (clock - sent[i])
  PROVE  /\ bucket' \in [tokens: 0 .. Full, at: 0 .. MaxClock] /\ bucket'.at <= clock'
         /\ sent' \in Seq(0 .. MaxClock)
         /\ HoldsNoMore' /\ WithinAllowance'
<1> DEFINE n == Len(sent)
           left == IF Level >= TokenUnits THEN Level - TokenUnits ELSE 0
<1>1. /\ clock \in 0 .. MaxClock /\ clock' = clock /\ n \in Nat /\ MaxClock \in Nat
      /\ Level \in 0 .. Full /\ Full \in Nat /\ TokenUnits \in Nat \ {0} /\ TokenUnits <= Full
      /\ left \in 0 .. Full /\ left + TokenUnits <= Full
  BY LevelTyped, FullHolds, UnitsAssumption, ClockAssumption DEF RateInv, RateTypeOK
<1>2. /\ bucket' = [tokens |-> left, at |-> clock]
      /\ sent' \in Seq(0 .. MaxClock) /\ Len(sent') = n + 1 /\ DOMAIN sent' = 1 .. n + 1
      /\ sent'[n + 1] = clock
      /\ \A i \in 1 .. n : sent'[i] = sent[i] /\ i \in DOMAIN sent
  BY <1>1 DEF Take, RateInv, RateTypeOK
<1>3. Level' = left
  <2>1. bucket'.tokens = left /\ bucket'.at = clock BY <1>2
  <2>2. left + (clock - clock) = left BY <1>1
  <2>3. QED BY <1>1, <2>1, <2>2, FullHolds DEF Level, Full
<1> DEFINE price(i) == (n + 1 - i + 1) * TokenUnits
<1>4. \A i \in 1 .. n : sent[i] \in 0 .. clock
                        /\ Cost(i) \in Nat
                        /\ Cost(i) + TokenUnits + left <= Full + (clock - sent[i])
  <2> TAKE i \in 1 .. n
  <2>1. i \in DOMAIN sent BY <1>2
  <2>2. /\ Cost(i) \in Nat /\ sent[i] \in 0 .. MaxClock
        /\ sent[i] <= clock /\ Cost(i) + Level <= Full + (clock - sent[i])
    BY <2>1, CostTyped DEF RateInv, HoldsNoMore
  <2>3. CASE Level >= TokenUnits BY <1>1, <2>2, <2>3
  <2>4. CASE Level < TokenUnits
    <3>1. Cost(i) + TokenUnits <= Full + (clock - sent[i]) BY <1>1, <2>1, <2>4
    <3>2. left = 0 BY <1>1, <2>4
    <3>3. QED BY <1>1, <2>2, <3>1, <3>2
  <2>5. QED BY <1>1, <2>3, <2>4
<1>5. \A i \in 1 .. n : price(i) = Cost(i) + TokenUnits
  BY <1>1, OneMore DEF Cost
<1>6. price(n + 1) = TokenUnits
  <2>1. n + 1 - (n + 1) + 1 = 1 BY <1>1
  <2>2. QED BY <1>1, <2>1
<1>7a. /\ \A i \in 1 .. n + 1 : Cost(i)' = price(i)
      /\ \A i, j \in 1 .. n + 1 : j = n + 1 => (j - i + 1) * TokenUnits = price(i)
  BY <1>2 DEF Cost
<1>7b. Full' = Full BY DEF Full
<1> HIDE DEF price, left
<1>7. \A i \in 1 .. n + 1 :
        /\ sent'[i] \in 0 .. clock
        /\ price(i) \in Nat
        /\ price(i) + left <= Full + (clock - sent'[i])
  <2> TAKE i \in 1 .. n + 1
  <2>1. CASE i \in 1 .. n
    <3>1. /\ sent'[i] = sent[i] /\ sent[i] \in 0 .. clock /\ Cost(i) \in Nat
          /\ Cost(i) + TokenUnits + left <= Full + (clock - sent[i])
          /\ price(i) = Cost(i) + TokenUnits
      BY <1>2, <1>4, <1>5, <2>1
    <3>2. QED BY <1>1, <3>1
  <2>2. CASE i = n + 1
    <3>1. sent'[i] = clock /\ price(i) = TokenUnits BY <1>2, <1>6, <2>2
    <3>2. QED BY <1>1, <3>1
  <2>3. QED BY <1>1, <2>1, <2>2
<1>8. HoldsNoMore' BY <1>1, <1>2, <1>3, <1>7, <1>7a, <1>7b DEF HoldsNoMore
<1>9. WithinAllowance'
  <2> SUFFICES ASSUME NEW i \in 1 .. n + 1, NEW j \in 1 .. n + 1, i <= j
               PROVE  (j - i + 1) * TokenUnits <= Full + (sent'[j] - sent'[i])
    BY <1>2, <1>7b DEF WithinAllowance
  <2>1. CASE j \in 1 .. n
    <3>1. i \in 1 .. n BY <1>1, <2>1
    <3>2. QED BY <1>2, <2>1, <3>1 DEF RateInv, WithinAllowance
  <2>2. CASE j = n + 1
    <3>1. (j - i + 1) * TokenUnits = price(i) /\ sent'[j] = clock BY <1>2, <1>7a, <2>2
    <3>2. /\ sent'[i] \in 0 .. clock /\ price(i) \in Nat
          /\ price(i) + left <= Full + (clock - sent'[i])
      BY <1>7
    <3>3. price(i) <= Full + (clock - sent'[i]) BY <1>1, <3>2
    <3>4. QED BY <3>1, <3>3
  <2>3. QED BY <1>1, <2>1, <2>2
<1>10. QED BY <1>1, <1>2, <1>8, <1>9

LEMMA RateStep == RateInv /\ [RateNext]_rateVars => RateInv'
<1> SUFFICES ASSUME RateInv, [RateNext]_rateVars PROVE RateInv' OBVIOUS
<1>0. /\ RateTypeOK /\ Level \in 0 .. Full /\ Full \in Nat /\ MaxClock \in Nat
      /\ TokenUnits \in Nat \ {0} /\ TokenUnits <= Full
  BY LevelTyped, FullHolds, UnitsAssumption, ClockAssumption DEF RateInv
<1>1. CASE RateTick
  <2>1. RateTypeOK' BY <1>0, <1>1 DEF RateTick, RateTypeOK, Full
  <2>2. Level' \in 0 .. Full /\ Level' <= Level + 1
    BY <1>0, <1>1 DEF RateTick, RateTypeOK, Level, Full
  <2>3. HoldsNoMore'
    <3> SUFFICES ASSUME NEW i \in DOMAIN sent
                 PROVE  sent[i] <= clock' /\ Cost(i) + Level' <= Full + (clock' - sent[i])
      BY <1>1 DEF RateTick, HoldsNoMore, Cost, Full
    <3>1. Cost(i) \in Nat /\ sent[i] \in 0 .. MaxClock BY <1>0, CostTyped
    <3>2. sent[i] <= clock /\ Cost(i) + Level <= Full + (clock - sent[i])
      BY DEF RateInv, HoldsNoMore
    <3>3. clock \in Nat /\ clock' = clock + 1 BY <1>0, <1>1 DEF RateTick, RateTypeOK
    <3>4. QED BY <1>0, <2>2, <3>1, <3>2, <3>3
  <2>4. WakesInTime' /\ OneSleeper' /\ WithinAllowance'
    BY <1>1 DEF RateInv, RateTick, WakesInTime, OneSleeper, WithinAllowance, Cost, Full
  <2>5. QED BY <2>1, <2>3, <2>4 DEF RateInv
<1>2. ASSUME NEW w \in Senders, Acquires(w) PROVE RateInv'
  <2>1. \A v \in Senders : wakes'[v] = 0 BY <1>2 DEF Acquires, LockOpen
  <2>2. Take /\ UNCHANGED clock /\ Level >= TokenUnits BY <1>2 DEF Acquires
  <2>3. /\ bucket' \in [tokens: 0 .. Full, at: 0 .. MaxClock] /\ bucket'.at <= clock'
        /\ sent' \in Seq(0 .. MaxClock) /\ HoldsNoMore' /\ WithinAllowance'
    BY <2>2, TakeKeeps
  <2>4. RateTypeOK' BY <1>0, <1>2, <2>3 DEF Acquires, RateTypeOK, Full
  <2>5. WakesInTime' /\ OneSleeper' BY <2>1 DEF WakesInTime, OneSleeper
  <2>6. QED BY <2>3, <2>4, <2>5 DEF RateInv
<1>3. ASSUME NEW w \in Senders, Sleeps(w) PROVE RateInv'
  <2>1. /\ clock' = clock /\ clock \in 0 .. MaxClock /\ sent' = sent
        /\ bucket' = [tokens |-> Level, at |-> clock]
        /\ wakes' = [wakes EXCEPT ![w] = clock + (TokenUnits - Level)]
        /\ Level < TokenUnits /\ \A v \in Senders : wakes[v] = 0
    BY <1>0, <1>3 DEF Sleeps, LockOpen, Refilled, RateTypeOK
  <2>2. clock + (TokenUnits - Level) \in Nat BY <1>0, <2>1
  <2>3. RateTypeOK' BY <1>0, <2>1, <2>2 DEF RateTypeOK, Full
  <2>4. Level' = Level
    <3>1. bucket'.tokens = Level /\ bucket'.at = clock BY <2>1
    <3>2. Level + (clock - clock) = Level BY <1>0, <2>1
    <3>3. QED BY <1>0, <2>1, <3>1, <3>2 DEF Level, Full
  <2>5. HoldsNoMore' BY <2>1, <2>4 DEF RateInv, HoldsNoMore, Cost, Full
  <2>6. \A v \in Senders : wakes'[v] # 0 =>
          v = w /\ wakes'[v] = clock + (TokenUnits - Level)
    BY <1>0, <2>1 DEF RateTypeOK
  <2>7. WakesInTime'
    <3>1. /\ sent' = sent /\ Full' = Full
          /\ \A i \in DOMAIN sent : Cost(i)' = Cost(i)
      BY <2>1 DEF Cost, Full
    <3> DEFINE moment == clock + (TokenUnits - Level)
    <3>2. \A i \in DOMAIN sent : Cost(i) + TokenUnits <= Full + (moment - sent[i])
      <4> TAKE i \in DOMAIN sent
      <4>1. Cost(i) \in Nat /\ sent[i] \in 0 .. MaxClock BY <1>0, CostTyped
      <4>2. Cost(i) + Level <= Full + (clock - sent[i]) BY DEF RateInv, HoldsNoMore
      <4>3. QED BY <1>0, <2>1, <4>1, <4>2
    <3>3. \A v \in Senders : wakes'[v] # 0 => wakes'[v] = moment BY <2>6
    <3> HIDE DEF moment
    <3>4. ASSUME NEW v \in Senders, wakes'[v] # 0, NEW i \in DOMAIN sent'
          PROVE  Cost(i)' + TokenUnits <= Full' + (wakes'[v] - sent'[i])
      <4>1. i \in DOMAIN sent /\ Cost(i)' = Cost(i) /\ sent'[i] = sent[i] BY <3>1, <3>4
      <4>2. Cost(i) + TokenUnits <= Full + (wakes'[v] - sent[i]) BY <3>2, <3>3, <3>4, <4>1
      <4>3. QED BY <3>1, <4>1, <4>2
    <3>5. QED BY <3>4 DEF WakesInTime
  <2>8. OneSleeper' BY <2>6 DEF OneSleeper
  <2>9. WithinAllowance' BY <2>1 DEF RateInv, WithinAllowance, Full
  <2>10. QED BY <2>3, <2>5, <2>7, <2>8, <2>9 DEF RateInv
<1>4. ASSUME NEW w \in Senders, Wakes(w) PROVE RateInv'
  <2>1. /\ Take /\ UNCHANGED clock /\ wakes[w] # 0 /\ clock >= wakes[w]
        /\ wakes' = [wakes EXCEPT ![w] = 0] /\ wakes[w] \in Nat /\ clock \in Nat
    BY <1>0, <1>4 DEF Wakes, RateTypeOK
  <2>2. \A i \in DOMAIN sent : Cost(i) + TokenUnits <= Full + (clock - sent[i])
    <3> TAKE i \in DOMAIN sent
    <3>1. Cost(i) \in Nat /\ sent[i] \in 0 .. MaxClock BY <1>0, CostTyped
    <3>2. Cost(i) + TokenUnits <= Full + (wakes[w] - sent[i])
      BY <2>1 DEF RateInv, WakesInTime
    <3>3. QED BY <1>0, <2>1, <3>1, <3>2
  <2>3. /\ bucket' \in [tokens: 0 .. Full, at: 0 .. MaxClock] /\ bucket'.at <= clock'
        /\ sent' \in Seq(0 .. MaxClock) /\ HoldsNoMore' /\ WithinAllowance'
    BY <2>1, <2>2, TakeKeeps
  <2>4. \A v \in Senders : wakes'[v] = 0
    <3>1. \A v \in Senders : v # w => wakes[v] = 0 BY <2>1 DEF RateInv, OneSleeper
    <3>2. QED BY <1>0, <2>1, <3>1 DEF RateTypeOK
  <2>5. RateTypeOK' BY <1>0, <2>1, <2>3 DEF RateTypeOK, Full
  <2>6. WakesInTime' /\ OneSleeper' BY <2>4 DEF WakesInTime, OneSleeper
  <2>7. QED BY <2>3, <2>5, <2>6 DEF RateInv
<1>5. ASSUME NEW w \in Senders, GivesUp(w) PROVE RateInv'
  <2>1. /\ UNCHANGED << clock, bucket, sent >> /\ wakes' \in [Senders -> Nat]
        /\ \A v \in Senders : wakes'[v] # 0 => wakes'[v] = wakes[v]
    BY <1>0, <1>5 DEF GivesUp, RateTypeOK
  <2>2. RateTypeOK' /\ HoldsNoMore' /\ WithinAllowance'
    BY <1>0, <2>1 DEF RateInv, RateTypeOK, HoldsNoMore, WithinAllowance, Cost, Level, Full
  <2>3. WakesInTime' BY <2>1 DEF RateInv, WakesInTime, Cost, Full
  <2>4. OneSleeper' BY <2>1 DEF RateInv, OneSleeper
  <2>5. QED BY <2>2, <2>3, <2>4 DEF RateInv
<1>6. ASSUME NEW left \in 0 .. Full, Corrects(left) PROVE RateInv'
  <2>1. /\ UNCHANGED << clock, wakes, sent >> /\ left < bucket.tokens
        /\ bucket' = [bucket EXCEPT !.tokens = left]
    BY <1>6 DEF Corrects
  <2>2. RateTypeOK' BY <1>0, <2>1 DEF RateTypeOK, Full
  <2>3. Level' \in 0 .. Full /\ Level' <= Level
    BY <1>0, <2>1 DEF RateTypeOK, Level, Full
  <2>4. HoldsNoMore'
    <3> SUFFICES ASSUME NEW i \in DOMAIN sent
                 PROVE  sent[i] <= clock /\ Cost(i) + Level' <= Full + (clock - sent[i])
      BY <2>1 DEF HoldsNoMore, Cost, Full
    <3>1. Cost(i) \in Nat /\ sent[i] \in 0 .. MaxClock BY <1>0, CostTyped
    <3>2. sent[i] <= clock /\ Cost(i) + Level <= Full + (clock - sent[i])
      BY DEF RateInv, HoldsNoMore
    <3>3. QED BY <1>0, <2>3, <3>1, <3>2 DEF RateTypeOK
  <2>5. WakesInTime' /\ OneSleeper' /\ WithinAllowance'
    BY <2>1 DEF RateInv, WakesInTime, OneSleeper, WithinAllowance, Cost, Full
  <2>6. QED BY <2>2, <2>4, <2>5 DEF RateInv
<1>7. CASE UNCHANGED rateVars
  BY <1>7 DEF rateVars, RateInv, RateTypeOK, HoldsNoMore, WakesInTime, OneSleeper,
              WithinAllowance, Cost, Level, Full
<1>8. QED BY <1>1, <1>2, <1>3, <1>4, <1>5, <1>6, <1>7 DEF RateNext

LEMMA RateHolds == RateSpec => []RateInv
  BY RateInitially, RateStep, PTL DEF RateSpec

\* The bucket keeps its types: it is never overfull, in debt or ahead of the
\* clock.
THEOREM BucketTypeCorrect == RateSpec => []RateTypeOK
<1>1. RateInv => RateTypeOK BY DEF RateInv
<1>2. QED BY <1>1, RateHolds, PTL

\* No stretch of time sees more requests than the burst and the rate allow, for
\* any number of tasks, whatever answers and cancelled sleeps do.
THEOREM AllowanceKept == RateSpec => []WithinAllowance
<1>1. RateInv => WithinAllowance BY DEF RateInv
<1>2. QED BY <1>1, RateHolds, PTL
=============================================================================
