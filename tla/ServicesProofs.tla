--------------------------- MODULE ServicesProofs ---------------------------
(***************************************************************************)
(* The parts beside each other: none reaches into another, so a behaviour  *)
(* of all of them is one of each, and what was proved of a part alone      *)
(* holds of it there.                                                      *)
(***************************************************************************)
EXTENDS MCServices, ExportQueueProofs, SyncRunProofs, VendorCallProofs, ChatFlowProofs

\* The part that moves is chosen once.
OnePart == part \in {"export", "sync", "token", "rate", "chat"}

LEMMA EachBegins ==
  ServicesInit => ExportInit /\ SyncInit /\ TokenInit /\ RateInit /\ ChatInit /\ OnePart
  BY DEF ServicesInit, OnePart

\* A step is a step of one part, and the others do not notice.
LEMMA EachMoves ==
  ASSUME [ServicesNext]_servicesVars
  PROVE  /\ [ExportNext]_exportVars /\ [SyncNext]_syncVars /\ [TokenNext]_tokenVars
         /\ [RateNext]_rateVars /\ [ChatNext]_chatVars
         /\ part' = part
<1>1. CASE UNCHANGED servicesVars BY <1>1 DEF servicesVars
<1>2. CASE ServicesNext BY <1>2 DEF ServicesNext, Moves
<1>3. QED BY <1>1, <1>2

\* Every part does beside the others what it may do alone.
THEOREM PartsStandAlone ==
  ServicesSpec => ExportSpec /\ SyncSpec /\ TokenSpec /\ RateSpec /\ ChatSpec
<1>1. [ServicesNext]_servicesVars =>
        /\ [ExportNext]_exportVars /\ [SyncNext]_syncVars /\ [TokenNext]_tokenVars
        /\ [RateNext]_rateVars /\ [ChatNext]_chatVars
  BY EachMoves
<1>2. QED
  BY EachBegins, <1>1, PTL
  DEF ServicesSpec, ExportSpec, SyncSpec, TokenSpec, RateSpec, ChatSpec

\* The rows, hands, workers and tasks of all parts keep their types.
THEOREM ServicesTypeCorrect ==
  ASSUME OneAtATime PROVE ServicesSpec => []ServicesTypeOK
<1>1. [ServicesNext]_servicesVars => part' = part BY EachMoves
<1>2. OnePart /\ part' = part => OnePart' BY DEF OnePart
<1>3. ServicesSpec => []OnePart BY EachBegins, <1>1, <1>2, PTL DEF ServicesSpec
<1>4. OnePart /\ ExportTypeOK /\ SyncTypeOK /\ TokenTypeOK /\ RateTypeOK /\ ChatTypeOK
        => ServicesTypeOK
  BY DEF ServicesTypeOK, OnePart
<1>5. ChatSpec => []ChatTypeOK BY ChatTypeCorrect
<1>6. QED
  BY PartsStandAlone, <1>3, <1>4, <1>5, ExportTypeCorrect, SyncTypeCorrect, TokenTypeCorrect,
     BucketTypeCorrect, PTL

\* What the parts promise holds of all of them side by side, for any sizes: the file
\* a link leads to and the story of its job, the records read, written and counted,
\* the renewed token, the rate, and the place and the scopes of a conversation.
THEOREM PromisesSideBySide ==
  ASSUME OneAtATime, LoneWorker, ~ ReaperMayDie
  PROVE  ServicesSpec =>
           /\ [](ServedFileIsWhole /\ ExportFollowsJob)
           /\ [](ReadsInOrder /\ CompleteIsAll /\ RecordsAccounted)
           /\ [](NoUnexplainedCopy /\ KnownExists)
           /\ [](OneExchange /\ StoredTokenWorks /\ WithinAllowance)
           /\ [](RowIsOnePlace /\ ScopesApart)
<1>1. ExportSpec => [](ServedFileIsWhole /\ ExportFollowsJob)
  BY OneWorkerServesWhole, OneWorkerJobAndExportAgree, PTL
<1>2. SyncSpec => /\ [](ReadsInOrder /\ CompleteIsAll /\ RecordsAccounted)
                  /\ [](NoUnexplainedCopy /\ KnownExists)
  BY RecordsArriveInOrder, EndOfWalkIsEnd, EveryRecordIsCounted, CopiesAreExplained,
     KeysAreOfRecords, PTL
<1>3. TokenSpec /\ RateSpec => [](OneExchange /\ StoredTokenWorks /\ WithinAllowance)
  BY LeaseIsExclusive, NewestTokenIsStored, AllowanceKept, PTL
<1>4. ChatSpec => [](RowIsOnePlace /\ ScopesApart)
  BY ConversationIsOnePlace, CallsKeepScopesApart, PTL
<1>5. QED BY PartsStandAlone, <1>1, <1>2, <1>3, <1>4, PTL
=============================================================================
