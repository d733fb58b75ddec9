------------------------------ MODULE SyncRun ------------------------------
(***************************************************************************)
(* Runs of a flow that reads records from one vendor and writes them to    *)
(* another: trigger, connector_read, then the loop of batch and            *)
(* connector_write, until the supply has nothing left.                     *)
(*                                                                         *)
(* A run keeps its supply and its batch in memory: one that dies leaves    *)
(* only what was committed, and the next run reads from the start.         *)
(***************************************************************************)
EXTENDS PagedRead, RecordWrite

CONSTANTS
  MaxPasses,   \* max_batches of the batch node
  MaxSyncRuns  \* bound: runs of the flow

ASSUME PassAssumption == MaxPasses \in Nat
ASSUME RunsAssumption == MaxSyncRuns \in Nat \ {0}
ASSUME SourceKeysAssumption == DOMAIN KeyOf = Record

VARIABLES
  stage,   \* what the run is doing
  passes,  \* passes of the loop
  runs     \* runs started

syncVars == << readVars, writeVars, stage, passes, runs >>

\* Type invariant of the composition.
SyncTypeOK ==
  /\ ReadTypeOK /\ WriteTypeOK
  /\ stage \in {"read", "write", "done", "failed"}
  /\ passes \in 0 .. MaxPasses
  /\ runs \in 1 .. MaxSyncRuns

SyncInit ==
  /\ ReadInit /\ WriteInit
  /\ stage = "read" /\ passes = 0 /\ runs = 1

\* The batch node asks the supply, which fetches what it lacks.
Fetch ==
  /\ stage = "read" /\ passes < MaxPasses
  /\ FetchPage
  /\ UNCHANGED << writeVars, stage, passes, runs >>

NewRows == { handed'[i] : i \in Len(handed) + 1 .. Len(handed') }

\* A batch goes round the loop: the write node plans it.
Pass ==
  /\ stage = "read" /\ passes < MaxPasses /\ ~ cancelled
  /\ TakeBatch
  /\ PlanBatch(NewRows)
  /\ stage' = "write" /\ passes' = passes + 1
  /\ UNCHANGED runs

\* run_node looks for a Cancel before it starts the batch node or the write
\* node; records that were read for the write node are not written.
CancelSeen ==
  /\ stage = "read" /\ cancelled
  /\ TakeBatch \/ UNCHANGED readVars
  /\ stage' = "failed"
  /\ UNCHANGED << writeVars, passes, runs >>

\* No records, or no passes left: the done port.
LoopEnds ==
  /\ stage = "read"
  /\ Exhausted \/ passes >= MaxPasses
  /\ stage' = "done"
  /\ UNCHANGED << readVars, writeVars, passes, runs >>

\* A page could not be read: the node fails and the run with it.
ReadFails ==
  /\ stage = "read" /\ Hungry
  /\ Mishap
  /\ stage' = "failed"
  /\ UNCHANGED << readVars, plan, send, attempt, wrote, known, vendorVars, tally, cancelled, passes, runs >>

WriteStep ==
  \/ StartGroup \/ StopAtBoundary
  \/ \E r \in DOMAIN send :
       \/ Accepted(r) \/ AcceptedWithoutId(r) \/ NotReached(r)
       \/ \E carriedOut \in BOOLEAN : Unclear(r, carriedOut) \/ Unreadable(r, carriedOut)

Write ==
  /\ stage = "write"
  /\ WriteStep
  /\ UNCHANGED << readVars, stage, passes, runs >>

Cancels ==
  /\ stage \in {"read", "write"}
  /\ AskToStop
  /\ UNCHANGED << readVars, stage, passes, runs >>

BatchEnds ==
  /\ stage = "write"
  /\ Remember
  /\ stage' = "read"
  /\ UNCHANGED << readVars, passes, runs >>

\* A process that dies, a node that times out, a commit that raises.
RunBreaks ==
  /\ stage \in {"read", "write"}
  /\ Mishap
  /\ GiveUpBatch
  /\ stage' = "failed"
  /\ UNCHANGED << readVars, passes, runs >>

\* The flow runs again: the source from the start, the keys as they are.
RunAgain ==
  /\ stage \in {"done", "failed"} /\ runs < MaxSyncRuns
  /\ ReadAgain
  /\ stage' = "read" /\ passes' = 0 /\ runs' = runs + 1
  /\ tally' = NoTally /\ cancelled' = FALSE
  /\ UNCHANGED << plan, send, attempt, wrote, known, vendorVars, mishaps >>

SyncNext ==
  /\ \/ Fetch \/ Pass \/ LoopEnds \/ Write \/ BatchEnds \/ Cancels \/ CancelSeen
     \/ ReadFails \/ RunBreaks \/ RunAgain
  /\ UNCHANGED operation

SyncSpec == SyncInit /\ [][SyncNext]_syncVars

-----------------------------------------------------------------------------
(* Properties.                                                             *)

\* Between two batches every record handed out is counted once: written, failed
\* or skipped, a cancelled batch included.
RecordsAccounted ==
  stage \in {"read", "done"} =>
    Len(handed) = tally.written + tally.failed + tally.skipped
=============================================================================
