------------------------- MODULE ExportQueueProofs -------------------------
(***************************************************************************)
(* Building exports, for any number of exports, workers, batches, deaths   *)
(* and failing calls: types, and, until a requeue writes over a job that   *)
(* is not stale any more, that an export is built by one worker at a time, *)
(* that a job which succeeded left no part file behind, that a link leads  *)
(* to the whole of its own export unless one of two other steps is taken,  *)
(* and that a job and its export tell one story. With one worker there is  *)
(* no such requeue.                                                        *)
(***************************************************************************)
EXTENDS ExportQueue, TLAPS

\* The steps of one export and its reaping, and the steps of one worker.
ExportAction(e) ==
  \/ Offer(e) \/ Refuse(e) \/ ConfirmReads(e) \/ ConfirmMarks(e) \/ ConfirmQueues(e)
  \/ RequestDies(e) \/ JobLapses(e) \/ TimeIsUp(e) \/ ReaperDeletes(e) \/ ReaperMarks(e)
WorkerAction(w) == BuildStep(w) \/ SaveCheckpoint(w) \/ Misfortune(w) \/ Return(w)

LEMMA StepKinds ==
  [ExportNext]_exportVars <=>
    \/ \E e \in Exports : ExportAction(e)
    \/ \E w \in ExportWorkers : WorkerAction(w)
    \/ ReaperSelects \/ SweepBreaks \/ UNCHANGED exportVars
  BY DEF ExportNext, ExportAction, WorkerAction

-----------------------------------------------------------------------------
(* Types.                                                                  *)

\* A part that is being written is one of the batches.
WritingABatch == \A w \in ExportWorkers : at[w] = "writing" => mem[w].batch \in Batch
Typed == ExportTypeOK /\ WritingABatch

LEMMA ReadsWhatItShould ==
  ASSUME NEW w, NEW e, NEW b PROVE ReadsAt(w, e, b) = b
  BY DEF ReadsAt

LEMMA Numbers ==
  /\ Torn \in Nat /\ Torn > BatchCount /\ Torn \in 0 .. Torn /\ 0 \in 0 .. Torn
  /\ \A b \in Batch : b \in 0 .. Torn /\ b + 1 \in 1 .. BatchCount + 1
  /\ \A b \in 1 .. BatchCount + 1 : b + 1 \in 0 .. BatchCount + 2
  /\ 1 \in 1 .. BatchCount + 1 /\ 0 \in 0 .. BatchCount + 2
  /\ 1 \in 1 .. MaxBatchAttempts
  /\ 0 \in 0 .. MaxDeaths /\ 0 \in 0 .. MaxTroubles
  BY BatchesAssumption, BatchAttemptsAssumption, DeathsAssumption, TroublesAssumption
  DEF Torn, Batch

LEMMA VariantsAreArtifacts == \A e \in Exports : Variants(e) \subseteq Artifacts
  BY DEF Variants, Artifacts, Names

LEMMA PausedTyped == Paused \in State /\ [Paused EXCEPT !.node = "none"] \in State
  BY Numbers DEF Paused, State, Node

LEMMA HistoryTyped ==
  ASSUME history \in History
  PROVE  /\ Dies => history' \in History
         /\ Raises => history' \in History
         /\ \A s \in SUBSET Exports :
              /\ [history EXCEPT !.hushed = s] \in History
              /\ history.deaths < MaxDeaths =>
                   [history EXCEPT !.deaths = @ + 1, !.severed = s] \in History
              /\ history.troubles < MaxTroubles =>
                   [history EXCEPT !.troubles = @ + 1, !.severed = s] \in History
<1> USE DeathsAssumption, TroublesAssumption DEF History
<1>1. Dies => history' \in History BY DEF Dies
<1>2. Raises => history' \in History BY DEF Raises
<1>3. ASSUME NEW s \in SUBSET Exports
      PROVE  /\ [history EXCEPT !.hushed = s] \in History
             /\ history.deaths < MaxDeaths =>
                  [history EXCEPT !.deaths = @ + 1, !.severed = s] \in History
             /\ history.troubles < MaxTroubles =>
                  [history EXCEPT !.troubles = @ + 1, !.severed = s] \in History
  <2>1. [history EXCEPT !.hushed = s] \in History OBVIOUS
  <2>2. ASSUME history.deaths < MaxDeaths
        PROVE  [history EXCEPT !.deaths = @ + 1, !.severed = s] \in History
    <3>1. history.deaths + 1 \in 0 .. MaxDeaths BY <2>2
    <3>2. QED BY <3>1
  <2>3. ASSUME history.troubles < MaxTroubles
        PROVE  [history EXCEPT !.troubles = @ + 1, !.severed = s] \in History
    <3>1. history.troubles + 1 \in 0 .. MaxTroubles BY <2>3
    <3>2. QED BY <3>1
  <2>4. QED BY <2>1, <2>2, <2>3
<1>4. QED BY <1>1, <1>2, <1>3

LEMMA SeveredTyped ==
  ASSUME Typed, NEW w \in ExportWorkers
  PROVE  /\ Severed(w) \in SUBSET Exports /\ history.severed \subseteq Severed(w)
         /\ HalfTold(w) => on[w] \in Severed(w)
  BY DEF Typed, ExportTypeOK, Severed, HalfTold, History

\* The rows that a statement writes.
LEMMA RowsTyped ==
  ASSUME exports \in [Exports -> ExportRow], jobs \in [Exports -> JobRow], NEW e \in Exports
  PROVE  /\ \A s \in Status : [exports EXCEPT ![e].status = s] \in [Exports -> ExportRow]
         /\ \A s \in Status :
              [exports EXCEPT ![e].status = s, ![e].message = TRUE] \in [Exports -> ExportRow]
         /\ [exports EXCEPT ![e].lapsed = TRUE] \in [Exports -> ExportRow]
         /\ [exports EXCEPT ![e].status = "expired", ![e].file = NoFile, ![e].message = TRUE]
              \in [Exports -> ExportRow]
         /\ \A s \in JobStatus : [jobs EXCEPT ![e].status = s] \in [Exports -> JobRow]
         /\ \A s \in JobStatus : \A b \in BOOLEAN :
              [jobs EXCEPT ![e] = [status |-> s, fresh |-> b]] \in [Exports -> JobRow]
         /\ [jobs EXCEPT ![e].fresh = FALSE] \in [Exports -> JobRow]
<1>1. exports[e] \in ExportRow /\ jobs[e] \in JobRow OBVIOUS
<1>2. \A s \in Status : [exports EXCEPT ![e].status = s] \in [Exports -> ExportRow]
  BY <1>1 DEF ExportRow
<1>3. \A s \in Status :
        [exports EXCEPT ![e].status = s, ![e].message = TRUE] \in [Exports -> ExportRow]
  BY <1>1 DEF ExportRow
<1>4. [exports EXCEPT ![e].lapsed = TRUE] \in [Exports -> ExportRow] BY <1>1 DEF ExportRow
<1>5. [exports EXCEPT ![e].status = "expired", ![e].file = NoFile, ![e].message = TRUE]
        \in [Exports -> ExportRow]
  BY <1>1 DEF ExportRow, Status
<1>6. \A s \in JobStatus : [jobs EXCEPT ![e].status = s] \in [Exports -> JobRow]
  BY <1>1 DEF JobRow
<1>7. \A s \in JobStatus : \A b \in BOOLEAN :
        [jobs EXCEPT ![e] = [status |-> s, fresh |-> b]] \in [Exports -> JobRow]
  BY DEF JobRow
<1>8. [jobs EXCEPT ![e].fresh = FALSE] \in [Exports -> JobRow] BY <1>1 DEF JobRow
<1>9. QED BY <1>2, <1>3, <1>4, <1>5, <1>6, <1>7, <1>8

LEMMA InitTyped == ExportInit => Typed
<1> SUFFICES ASSUME ExportInit PROVE Typed
  OBVIOUS
<1> USE DEF ExportInit
<1>1. parts \in [Exports -> [Batch -> 0 .. Torn]] BY Numbers DEF NoParts
<1>2. history \in History BY Numbers DEF History
<1>3. mem \in [ExportWorkers -> State] /\ saved \in [Exports -> State] BY PausedTyped
<1>4. /\ cursor \in [ExportWorkers -> [Exports -> 0 .. BatchCount + 2]]
      /\ try \in [ExportWorkers -> 1 .. MaxBatchAttempts]
  BY Numbers
<1>5. QED BY <1>1, <1>2, <1>3, <1>4 DEF Typed, ExportTypeOK, WritingABatch, ExportRow, JobRow, Status, JobStatus, Running

\* The steps of the conversation, the clock and the reaper.
LEMMA ExportActionTyped ==
  ASSUME Typed, NEW e \in Exports, ExportAction(e) PROVE Typed'
<1> USE PausedTyped, RowsTyped, HistoryTyped
    DEF Typed, ExportTypeOK, WritingABatch, Status, JobStatus, graphVars, pickedVars, SetStatus
<1>1. CASE Offer(e) BY <1>1 DEF Offer
<1>2. CASE Refuse(e)
  <2>1. [Paused EXCEPT !.node = "end", !.failed = TRUE] \in State BY DEF Paused, State, Node
  <2>2. QED BY <1>2, <2>1 DEF Refuse
<1>3. CASE ConfirmReads(e) BY <1>3 DEF ConfirmReads
<1>4. CASE ConfirmMarks(e) BY <1>4 DEF ConfirmMarks
<1>5. CASE ConfirmQueues(e) BY <1>5 DEF ConfirmQueues
<1>6. CASE RequestDies(e) BY <1>6 DEF RequestDies
<1>7. CASE JobLapses(e) BY <1>7 DEF JobLapses
<1>8. CASE TimeIsUp(e) BY <1>8 DEF TimeIsUp
<1>9. CASE ReaperDeletes(e) BY <1>9, Numbers DEF ReaperDeletes, NoParts
<1>10. CASE ReaperMarks(e) BY <1>10 DEF ReaperMarks
<1>11. QED
  BY <1>1, <1>2, <1>3, <1>4, <1>5, <1>6, <1>7, <1>8, <1>9, <1>10 DEF ExportAction

LEMMA SweepTyped == ASSUME Typed, ReaperSelects \/ SweepBreaks PROVE Typed'
<1> USE DEF Typed, ExportTypeOK, WritingABatch, graphVars
<1>1. CASE ReaperSelects BY <1>1 DEF ReaperSelects, ExportRow
<1>2. CASE SweepBreaks BY <1>2, HistoryTyped DEF SweepBreaks
<1>3. QED BY <1>1, <1>2

\* The states a node leaves behind.
LEMMA StatesTyped ==
  ASSUME NEW s \in State
  PROVE  /\ s.node \in Node /\ s.batch \in 1 .. BatchCount + 1
         /\ s.failed \in BOOLEAN /\ s.file \in Artifacts \cup {NoFile}
         /\ \A n \in Node : [s EXCEPT !.node = n] \in State
         /\ Resumed(s) \in State
         /\ \A f, d \in BOOLEAN : AfterBatch(s, f, d) \in State
         /\ \A b \in 1 .. BatchCount + 1 : [s EXCEPT !.batch = b] \in State
         /\ \A f \in Artifacts \cup {NoFile} : [s EXCEPT !.node = "publish", !.file = f] \in State
         /\ [s EXCEPT !.node = "notify", !.failed = TRUE] \in State
  BY DEF State, Node, Resumed, AfterBatch

LEMMA GotoTyped ==
  ASSUME Typed, NEW w \in ExportWorkers, NEW s \in State, Goto(w, s), on[w] # NoExport
  PROVE  /\ mem' \in [ExportWorkers -> State]
         /\ at' \in [ExportWorkers -> Running \cup {"down", "idle", "close", "raised", "hushed", "mark"}]
         /\ on' = on => \A v \in ExportWorkers : on'[v] = NoExport <=> at'[v] \in {"down", "idle"}
         /\ WritingABatch'
  BY DEF Typed, ExportTypeOK, WritingABatch, Goto, Running

\* A worker that goes on with its export.
LEMMA StayTyped ==
  ASSUME Typed, NEW w \in ExportWorkers, on[w] # NoExport,
         NEW next \in Running \cup {"close", "raised", "hushed", "mark"}, at' = [at EXCEPT ![w] = next],
         UNCHANGED << on, mem >>, next = "writing" => mem[w].batch \in Batch
  PROVE  /\ at' \in [ExportWorkers -> Running \cup {"down", "idle", "close", "raised", "hushed", "mark"}]
         /\ \A v \in ExportWorkers : on'[v] = NoExport <=> at'[v] \in {"down", "idle"}
         /\ WritingABatch'
  BY DEF Typed, ExportTypeOK, WritingABatch, Running

LEMMA LeavesTyped ==
  ASSUME Typed, NEW w \in ExportWorkers, NEW next \in {"idle", "down"}, Leaves(w, next)
  PROVE  /\ at' \in [ExportWorkers -> Running \cup {"down", "idle", "close", "raised", "hushed", "mark"}]
         /\ on' \in [ExportWorkers -> Exports \cup {NoExport}]
         /\ \A v \in ExportWorkers : on'[v] = NoExport <=> at'[v] \in {"down", "idle"}
         /\ mem' \in [ExportWorkers -> State]
         /\ try' \in [ExportWorkers -> 1 .. MaxBatchAttempts]
         /\ dest' \in [ExportWorkers -> Artifacts \cup {NoFile}]
         /\ WritingABatch'
  BY PausedTyped, Numbers DEF Typed, ExportTypeOK, WritingABatch, Leaves, Running

\* Nobody without an export is building.
LEMMA BuilderHolds ==
  ASSUME Typed, NEW w \in ExportWorkers, at[w] \notin {"down", "idle"}
  PROVE  on[w] \in Exports /\ on[w] # NoExport /\ mem[w] \in State
  BY DEF Typed, ExportTypeOK

LEMMA ClaimTyped ==
  ASSUME Typed, NEW w \in ExportWorkers, NEW e \in Exports, Claim(w, e)
  PROVE  /\ at' \in [ExportWorkers -> Running \cup {"down", "idle", "close", "raised", "hushed", "mark"}]
         /\ on' \in [ExportWorkers -> Exports \cup {NoExport}]
         /\ \A v \in ExportWorkers : on'[v] = NoExport <=> at'[v] \in {"down", "idle"}
         /\ WritingABatch'
<1>1. e # NoExport BY SentinelsAssumption
<1>2. QED BY <1>1 DEF Claim, Typed, ExportTypeOK, WritingABatch, Running

\* The queue.
LEMMA QueueTyped ==
  ASSUME Typed, NEW w \in ExportWorkers,
         RequeueSelect(w) \/ RequeueWrite(w) \/ RequeueRaises(w)
         \/ (\E e \in Exports : Claim(w, e)) \/ Begin(w) \/ Return(w)
         \/ Finish(w) \/ FinishRaised(w) \/ FinishHushed(w) \/ MarkFailed(w)
         \/ DrainRaises(w) \/ Dead(w) \/ SaveCheckpoint(w)
  PROVE  Typed'
<1> USE RowsTyped DEF Typed, ExportTypeOK, pickedVars, graphVars
<1>1. CASE RequeueWrite(w)
  <2>1. \A e \in Exports : [exports[e] EXCEPT !.status = "queued"] \in ExportRow
    <3>1. \A e \in Exports : exports[e] \in ExportRow OBVIOUS
    <3>2. \A r \in ExportRow : [r EXCEPT !.status = "queued"] \in ExportRow BY DEF ExportRow, Status
    <3>3. QED BY <3>1, <3>2
  <2>2. [status |-> "queued", fresh |-> FALSE] \in JobRow BY DEF JobRow, JobStatus
  <2>3. /\ exports' \in [Exports -> ExportRow] /\ jobs' \in [Exports -> JobRow]
        /\ stale' \in [ExportWorkers -> SUBSET Exports]
    BY <1>1, <2>1, <2>2 DEF RequeueWrite, Requeued
  <2>4. UNCHANGED << asker, at, on, mem, try, dest, cursor, saved, parts, files, reaping, deleted, history >>
    BY <1>1 DEF RequeueWrite
  <2>5. QED BY <2>3, <2>4 DEF WritingABatch
<1>2. ASSUME NEW e \in Exports, Claim(w, e) PROVE Typed'
  <2>1. jobs' \in [Exports -> JobRow] BY <1>2 DEF Claim, JobStatus
  <2>2. /\ at' \in [ExportWorkers -> Running \cup {"down", "idle", "close", "raised", "hushed", "mark"}]
        /\ on' \in [ExportWorkers -> Exports \cup {NoExport}]
        /\ \A v \in ExportWorkers : on'[v] = NoExport <=> at'[v] \in {"down", "idle"}
        /\ WritingABatch'
    BY <1>2, ClaimTyped
  <2>3. QED BY <1>2, <2>1, <2>2 DEF Claim
<1>3. CASE Begin(w)
  <2>1. on[w] \in Exports /\ saved[on[w]] \in State BY <1>3, BuilderHolds DEF Begin
  <2>2. Resumed(saved[on[w]]) \in State BY <2>1, StatesTyped
  <2>3. exports' \in [Exports -> ExportRow] BY <1>3, <2>1 DEF Begin, SetStatus, Status
  <2>4. mem' \in [ExportWorkers -> State] /\ try' \in [ExportWorkers -> 1 .. MaxBatchAttempts]
    BY <1>3, <2>2, Numbers DEF Begin
  <2>5. /\ at' \in [ExportWorkers -> Running \cup {"down", "idle", "close", "raised", "hushed", "mark"}]
        /\ \A v \in ExportWorkers : on'[v] = NoExport <=> at'[v] \in {"down", "idle"}
        /\ WritingABatch'
    <3>1. /\ at' = [at EXCEPT ![w] = "node"] /\ on' = on /\ at[w] = "claimed"
          /\ mem' = [mem EXCEPT ![w] = Resumed(saved[on[w]])]
      BY <1>3 DEF Begin
    <3>2. \A v \in ExportWorkers : at'[v] = "writing" => at[v] = "writing" /\ mem'[v] = mem[v]
      BY <3>1
    <3>3. QED BY <3>1, <3>2 DEF WritingABatch, Running
  <2>6. QED BY <1>3, <2>3, <2>4, <2>5 DEF Begin
<1>4. CASE Return(w) BY <1>4 DEF Return, WritingABatch
<1>5. CASE Finish(w)
  <2>1. on[w] \in Exports BY <1>5, BuilderHolds DEF Finish
  <2>2. jobs' \in [Exports -> JobRow] BY <1>5, <2>1 DEF Finish, CloseJob, JobStatus
  <2>3. Leaves(w, "idle") BY <1>5 DEF Finish
  <2>4. QED BY <1>5, <2>2, <2>3, LeavesTyped DEF Finish
<1>6. CASE FinishRaised(w)
  <2>1. on[w] \in Exports /\ on[w] # NoExport BY <1>6, BuilderHolds DEF FinishRaised
  <2>2. jobs' \in [Exports -> JobRow] BY <1>6, <2>1 DEF FinishRaised, CloseJob, JobStatus
  <2>3. QED BY <1>6, <2>1, <2>2, StayTyped DEF FinishRaised
<1>7. CASE MarkFailed(w)
  <2>1. on[w] \in Exports BY <1>7, BuilderHolds DEF MarkFailed
  <2>2. exports' \in [Exports -> ExportRow] BY <1>7, <2>1 DEF MarkFailed, Status
  <2>3. Leaves(w, "idle") BY <1>7 DEF MarkFailed
  <2>4. QED BY <1>7, <2>2, <2>3, LeavesTyped DEF MarkFailed
<1>8. CASE DrainRaises(w)
  <2>1. history' \in History BY <1>8, HistoryTyped, SeveredTyped DEF DrainRaises
  <2>2. QED BY <1>8, <2>1, LeavesTyped DEF DrainRaises
<1>9. CASE Dead(w)
  <2>1. cursor' \in [ExportWorkers -> [Exports -> 0 .. BatchCount + 2]]
    BY <1>9, Numbers DEF Dead
  <2>2. history' \in History BY <1>9, HistoryTyped, SeveredTyped DEF Dead
  <2>3. stale' \in [ExportWorkers -> SUBSET Exports] BY <1>9 DEF Dead
  <2>4. QED BY <1>9, <2>1, <2>2, <2>3, LeavesTyped DEF Dead
<1>10. CASE SaveCheckpoint(w)
  <2>1. on[w] \in Exports /\ mem[w] \in State BY <1>10, BuilderHolds DEF SaveCheckpoint, Running
  <2>2. QED BY <1>10, <2>1 DEF SaveCheckpoint, WritingABatch
<1>11. CASE RequeueSelect(w)
  <2>1. stale' \in [ExportWorkers -> SUBSET Exports] BY <1>11 DEF RequeueSelect, StaleJobs
  <2>2. QED BY <1>11, <2>1 DEF RequeueSelect, WritingABatch
<1>12. CASE RequeueRaises(w)
  <2>1. stale' \in [ExportWorkers -> SUBSET Exports] /\ history' \in History
    BY <1>12, HistoryTyped DEF RequeueRaises
  <2>2. QED BY <1>12, <2>1 DEF RequeueRaises, WritingABatch
<1>13. CASE FinishHushed(w)
  <2>1. on[w] \in Exports BY <1>13, BuilderHolds DEF FinishHushed
  <2>2. jobs' \in [Exports -> JobRow] BY <1>13, <2>1 DEF FinishHushed, CloseJob, JobStatus
  <2>3. history' \in History
    <3>1. history.hushed \cup {on[w]} \in SUBSET Exports BY <2>1 DEF History
    <3>2. QED BY <1>13, <3>1, HistoryTyped DEF FinishHushed
  <2>4. Leaves(w, "idle") BY <1>13 DEF FinishHushed
  <2>5. QED BY <1>13, <2>2, <2>3, <2>4, LeavesTyped DEF FinishHushed
<1>14. QED
  BY <1>1, <1>2, <1>3, <1>4, <1>5, <1>6, <1>7, <1>8, <1>9, <1>10, <1>11, <1>12, <1>13

\* The batches.
LEMMA BatchTyped ==
  ASSUME Typed, NEW w \in ExportWorkers,
         ReadsNothing(w) \/ StartsPart(w) \/ WritesPart(w) \/ AttemptFails(w) \/ QueryRefused(w)
  PROVE  Typed'
<1> DEFINE e == on[w]  b == mem[w].batch
<1>0. /\ e \in Exports /\ e # NoExport /\ mem[w] \in State /\ ReadsAt(w, e, b) = b
      /\ b \in 1 .. BatchCount + 1 /\ b + 1 \in 0 .. BatchCount + 2
      /\ at[w] = "writing" => b \in Batch
  <2>1. e \in Exports /\ e # NoExport /\ mem[w] \in State
    BY BuilderHolds DEF ReadsNothing, StartsPart, WritesPart, AttemptFails, QueryRefused, InNode
  <2>2. b \in 1 .. BatchCount + 1 BY <2>1, StatesTyped
  <2>3. QED BY <2>1, <2>2, Numbers, ReadsWhatItShould DEF Typed, WritingABatch
<1> HIDE DEF e, b
<1>1. \A f, d \in BOOLEAN : AfterBatch(mem[w], f, d) \in State BY <1>0, StatesTyped
<1>2. \A k \in 0 .. BatchCount + 2 :
         [cursor EXCEPT ![w][e] = k] \in [ExportWorkers -> [Exports -> 0 .. BatchCount + 2]]
  BY <1>0 DEF Typed, ExportTypeOK
<1>3. b \in Batch => \A k \in 0 .. Torn :
         [parts EXCEPT ![e][b] = k] \in [Exports -> [Batch -> 0 .. Torn]]
  BY <1>0 DEF Typed, ExportTypeOK
<1>4. cursor[w][e] \in 0 .. BatchCount + 2 BY <1>0 DEF Typed, ExportTypeOK
<1> USE DEF Typed, ExportTypeOK, pickedVars
<1>5. CASE ReadsNothing(w)
  <2>1. Goto(w, AfterBatch(mem[w], FALSE, TRUE)) /\ cursor' = [cursor EXCEPT ![w][e] = b + 1]
    BY <1>5 DEF ReadsNothing, e, b
  <2>2. cursor' \in [ExportWorkers -> [Exports -> 0 .. BatchCount + 2]] BY <2>1, <1>0, <1>2
  <2>3. on' = on /\ UNCHANGED << exports, jobs, asker, try, dest, saved, parts, files, stale, reaping, deleted, history >>
    BY <1>5 DEF ReadsNothing
  <2>4. on[w] # NoExport BY <1>0 DEF e
  <2>5. QED BY <2>1, <2>2, <2>3, <2>4, <1>1, GotoTyped
<1>6. CASE StartsPart(w)
  <2>1. b \in Batch /\ parts' = [parts EXCEPT ![e][b] = Torn] /\ at' = [at EXCEPT ![w] = "writing"]
    BY <1>6, <1>0 DEF StartsPart, e, b
  <2>2. parts' \in [Exports -> [Batch -> 0 .. Torn]] BY <2>1, <1>3, Numbers
  <2>3. /\ UNCHANGED << exports, jobs, asker, on, mem, try, dest, cursor, saved, files, stale, reaping, deleted, history >>
        /\ on[w] # NoExport /\ mem[w].batch \in Batch
    BY <1>6, <2>1, <1>0 DEF StartsPart, e, b
  <2>4. QED BY <2>1, <2>2, <2>3, StayTyped DEF Running
<1>7. CASE WritesPart(w)
  <2>1. b \in Batch /\ parts' = [parts EXCEPT ![e][b] = b] /\ cursor' = [cursor EXCEPT ![w][e] = b + 1]
    BY <1>7, <1>0 DEF WritesPart, e, b
  <2>2. [mem[w] EXCEPT !.batch = b + 1] \in State BY <1>0, <2>1, StatesTyped, Numbers
  <2>3. AfterBatch([mem[w] EXCEPT !.batch = b + 1], FALSE, FALSE) \in State
    BY <2>2, StatesTyped
  <2>4. Goto(w, AfterBatch([mem[w] EXCEPT !.batch = b + 1], FALSE, FALSE))
    BY <1>7 DEF WritesPart, b
  <2>5. try' \in [ExportWorkers -> 1 .. MaxBatchAttempts] BY <1>7, Numbers DEF WritesPart
  <2>6. b \in 0 .. Torn BY <2>1, Numbers
  <2>7. /\ parts' \in [Exports -> [Batch -> 0 .. Torn]]
        /\ cursor' \in [ExportWorkers -> [Exports -> 0 .. BatchCount + 2]]
    BY <2>1, <2>6, <1>0, <1>2, <1>3
  <2>8. on' = on /\ UNCHANGED << exports, jobs, asker, dest, saved, files, stale, reaping, deleted, history >>
    BY <1>7 DEF WritesPart
  <2>9. on[w] # NoExport BY <1>0 DEF e
  <2>10. QED BY <2>3, <2>4, <2>5, <2>7, <2>8, <2>9, GotoTyped
<1>8. CASE AttemptFails(w)
  <2>1. b \in Batch BY <1>8, <1>0 DEF AttemptFails
  <2>2. parts' \in [Exports -> [Batch -> 0 .. Torn]]
    <3>1. PICK left \in {0, Torn} : parts' = [parts EXCEPT ![e][b] = left]
      BY <1>8 DEF AttemptFails, e, b
    <3>2. left \in 0 .. Torn BY Numbers
    <3>3. QED BY <3>1, <3>2, <2>1, <1>3
  <2>3. cursor' \in [ExportWorkers -> [Exports -> 0 .. BatchCount + 2]]
    BY <1>8, <1>0, <1>2, <1>4 DEF AttemptFails, e, b
  <2>4. try' \in [ExportWorkers -> 1 .. MaxBatchAttempts]
    <3>1. try[w] \in Nat /\ try[w] >= 1 OBVIOUS
    <3>2. CASE try[w] < MaxBatchAttempts
      <4>1. try[w] + 1 \in 1 .. MaxBatchAttempts BY <3>1, <3>2, BatchAttemptsAssumption
      <4>2. try' = [try EXCEPT ![w] = @ + 1] BY <1>8, <3>2 DEF AttemptFails
      <4>3. QED BY <4>1, <4>2
    <3>3. CASE ~ (try[w] < MaxBatchAttempts)
      <4>1. try' = [try EXCEPT ![w] = 1] BY <1>8, <3>3 DEF AttemptFails
      <4>2. QED BY <4>1, Numbers
    <3>4. QED BY <3>2, <3>3
  <2>5. Goto(w, mem[w]) \/ Goto(w, AfterBatch(mem[w], TRUE, FALSE)) BY <1>8 DEF AttemptFails
  <2>6. UNCHANGED << exports, jobs, asker, on, dest, saved, files, stale, reaping, deleted >> /\ history' \in History
    BY <1>8, HistoryTyped DEF AttemptFails
  <2>7. QED BY <2>2, <2>3, <2>4, <2>5, <2>6, <1>0, <1>1, GotoTyped DEF e
<1>9. CASE QueryRefused(w)
  BY <1>9, <1>0, <1>1, GotoTyped, HistoryTyped DEF QueryRefused, e
<1>10. QED BY <1>5, <1>6, <1>7, <1>8, <1>9

\* The merge and the nodes after it.
LEMMA NodeTyped ==
  ASSUME Typed, NEW w \in ExportWorkers,
         ChoosesName(w) \/ NamesRunOut(w) \/ OpensArtifact(w) \/ MergeEnds(w) \/ PartMissing(w)
         \/ MergeRaises(w) \/ Publish(w) \/ NotifyFailure(w) \/ Cleanup(w) \/ Returns(w)
         \/ NodeRaises(w)
  PROVE  Typed'
<1>0. on[w] \in Exports /\ on[w] # NoExport /\ mem[w] \in State /\ dest[w] \in Artifacts \cup {NoFile}
  <2>1. at[w] \notin {"down", "idle"}
    BY DEF ChoosesName, NamesRunOut, OpensArtifact, MergeEnds, PartMissing, MergeRaises, Publish,
           NotifyFailure, Cleanup, Returns, NodeRaises, InNode
  <2>2. QED BY <2>1, BuilderHolds DEF Typed, ExportTypeOK
<1>1. /\ \A n \in Node : [mem[w] EXCEPT !.node = n] \in State
      /\ [mem[w] EXCEPT !.node = "publish", !.file = dest[w]] \in State
      /\ [mem[w] EXCEPT !.node = "notify", !.failed = TRUE] \in State
  BY <1>0, StatesTyped
<1> USE DEF Typed, ExportTypeOK, pickedVars
<1>2. dest' = [dest EXCEPT ![w] = NoFile] => dest' \in [ExportWorkers -> Artifacts \cup {NoFile}]
  OBVIOUS
<1>3. CASE ChoosesName(w)
  <2>1. dest' \in [ExportWorkers -> Artifacts \cup {NoFile}]
    <3>1. FreeName(on[w]) \subseteq Artifacts BY <1>0, VariantsAreArtifacts DEF FreeName
    <3>2. PICK f \in FreeName(on[w]) : dest' = [dest EXCEPT ![w] = f] BY <1>3 DEF ChoosesName
    <3>3. QED BY <3>1, <3>2
  <2>2. /\ at' = [at EXCEPT ![w] = "named"]
        /\ UNCHANGED << exports, jobs, asker, on, mem, try, cursor, saved, parts, files, stale, reaping, deleted, history >>
    BY <1>3 DEF ChoosesName
  <2>3. QED BY <2>1, <2>2, <1>0, StayTyped DEF Running
<1>4. CASE NamesRunOut(w) BY <1>4, <1>0, StayTyped DEF NamesRunOut
<1>5. CASE OpensArtifact(w)
  <2>1. files' \in [Artifacts -> Exports \cup {NoFile, Fragment}] BY <1>5 DEF OpensArtifact
  <2>2. at' = [at EXCEPT ![w] = "merging"] BY <1>5 DEF OpensArtifact
  <2>3. QED BY <1>5, <2>1, <2>2, <1>0, StayTyped DEF OpensArtifact, Running
<1>6. CASE MergeEnds(w)
  <2>1. files' \in [Artifacts -> Exports \cup {NoFile, Fragment}]
    BY <1>6, <1>0 DEF MergeEnds, Merged
  <2>2. Goto(w, [mem[w] EXCEPT !.node = "publish", !.file = dest[w]]) BY <1>6 DEF MergeEnds
  <2>3. QED BY <1>6, <2>1, <2>2, <1>0, <1>1, <1>2, GotoTyped DEF MergeEnds
<1>7. ASSUME MergeFailed(w), history' \in History PROVE Typed'
  BY <1>7, <1>0, <1>1, <1>2, GotoTyped DEF MergeFailed
<1>8. CASE PartMissing(w) BY <1>7, <1>8 DEF PartMissing
<1>9. CASE MergeRaises(w) BY <1>7, <1>9, HistoryTyped DEF MergeRaises
<1>10. CASE Publish(w)
  <2>1. [status |-> "ready", file |-> mem[w].file, message |-> FALSE, lapsed |-> FALSE] \in ExportRow
    BY <1>0, StatesTyped DEF ExportRow, Status
  <2>2. exports' \in [Exports -> ExportRow] BY <1>10, <2>1 DEF Publish
  <2>3. Goto(w, [mem[w] EXCEPT !.node = "cleanup"]) BY <1>10 DEF Publish
  <2>4. [mem[w] EXCEPT !.node = "cleanup"] \in State BY <1>1 DEF Node
  <2>5. QED BY <1>10, <2>2, <2>3, <2>4, <1>0, GotoTyped DEF Publish
<1>11. CASE NotifyFailure(w)
  <2>1. exports' \in [Exports -> ExportRow]
    BY <1>11, <1>0, RowsTyped DEF NotifyFailure, Status
  <2>2. Goto(w, [mem[w] EXCEPT !.node = "cleanup"]) BY <1>11 DEF NotifyFailure
  <2>3. [mem[w] EXCEPT !.node = "cleanup"] \in State BY <1>1 DEF Node
  <2>4. QED BY <1>11, <2>1, <2>2, <2>3, <1>0, GotoTyped DEF NotifyFailure
<1>12. CASE Cleanup(w)
  <2>1. /\ cursor' \in [ExportWorkers -> [Exports -> 0 .. BatchCount + 2]]
        /\ parts' \in [Exports -> [Batch -> 0 .. Torn]]
    BY <1>12, <1>0, Numbers DEF Cleanup, NoParts
  <2>2. Goto(w, [mem[w] EXCEPT !.node = "end"]) BY <1>12 DEF Cleanup
  <2>3. [mem[w] EXCEPT !.node = "end"] \in State BY <1>1 DEF Node
  <2>4. QED BY <1>12, <2>1, <2>2, <2>3, <1>0, GotoTyped DEF Cleanup
<1>13. CASE Returns(w) BY <1>13, <1>0, StayTyped DEF Returns
<1>14. CASE NodeRaises(w)
  <2>1. PICK next \in {"raised", "hushed"} : at' = [at EXCEPT ![w] = next] BY <1>14 DEF NodeRaises
  <2>2. QED BY <1>14, <2>1, <1>0, StayTyped, HistoryTyped DEF NodeRaises
<1>15. QED
  BY <1>3, <1>4, <1>5, <1>6, <1>8, <1>9, <1>10, <1>11, <1>12, <1>13, <1>14

LEMMA WorkerTyped ==
  ASSUME Typed, NEW w \in ExportWorkers, WorkerAction(w) PROVE Typed'
  BY QueueTyped, BatchTyped, NodeTyped DEF WorkerAction, BuildStep, Misfortune

LEMMA TypedInvariant == ExportSpec => []Typed
<1>1. Typed /\ [ExportNext]_exportVars => Typed'
  <2> SUFFICES ASSUME Typed, [ExportNext]_exportVars PROVE Typed'
    OBVIOUS
  <2>1. ASSUME UNCHANGED exportVars PROVE Typed'
    BY <2>1 DEF exportVars, Typed, ExportTypeOK, WritingABatch
  <2>2. QED BY <2>1, StepKinds, ExportActionTyped, WorkerTyped, SweepTyped
<1>2. QED BY <1>1, InitTyped, PTL DEF ExportSpec

\* Types, for any number of exports, workers, batches, deaths and failing calls.
THEOREM ExportTypeCorrect == ExportSpec => []ExportTypeOK
<1>1. Typed => ExportTypeOK BY DEF Typed
<1>2. QED BY <1>1, TypedInvariant, PTL

-----------------------------------------------------------------------------
(* One builder, and nothing left behind.                                   *)

Building(w) == at[w] \notin {"down", "idle"}

\* The step that takes an export from under its builder: a worker writes a job it
\* has read as stale when it is stale no longer, because another worker has queued
\* it again, and perhaps claimed it, between the SELECT and the UPDATE.
RequeuesTaken == \E w \in ExportWorkers : RequeueWrite(w) /\ ~ (stale[w] \subseteq StaleJobs)

\* What has happened is not forgotten.
LEMMA DeathsApart ==
  ASSUME Typed, Dies
  PROVE  history'.hushed = history.hushed /\ history'.severed = history.severed
  BY DEF Typed, ExportTypeOK, History, Dies

LEMMA Remembered ==
  ASSUME Typed, NEW w \in ExportWorkers, WorkerAction(w)
  PROVE  history.hushed \subseteq history'.hushed /\ history.severed \subseteq history'.severed
<1>1. history \in History BY DEF Typed, ExportTypeOK
<1>2. CASE history' = history BY <1>2
<1>3. CASE Raises BY <1>1, <1>3 DEF Raises, History
<1>4. CASE FinishHushed(w) BY <1>1, <1>4 DEF FinishHushed, History
<1>5. CASE DrainRaises(w) \/ Dead(w)
  <2>1. history.severed \subseteq Severed(w) BY SeveredTyped
  <2>2. QED BY <1>1, <1>5, <2>1 DEF DrainRaises, Dead, History
<1>6. \/ history' = history \/ Raises \/ FinishHushed(w) \/ DrainRaises(w) \/ Dead(w)
  <2>1. CASE BuildStep(w)
    BY <2>1 DEF BuildStep, RequeueSelect, RequeueWrite, Claim, Begin, ReadsNothing, StartsPart,
                WritesPart, ChoosesName, NamesRunOut, OpensArtifact, MergeEnds, PartMissing,
                Publish, NotifyFailure, Cleanup, Returns, Finish, FinishRaised, MarkFailed
  <2>2. CASE SaveCheckpoint(w) \/ Return(w) BY <2>2 DEF SaveCheckpoint, Return
  <2>3. CASE Misfortune(w)
    BY <2>3 DEF Misfortune, AttemptFails, QueryRefused, MergeRaises, NodeRaises, RequeueRaises
  <2>4. QED BY <2>1, <2>2, <2>3 DEF WorkerAction
<1>7. QED BY <1>2, <1>3, <1>4, <1>5, <1>6

\* An export has one builder, whose job is running and fresh until it closes it.
SoleBuilder ==
  /\ \A v, w \in ExportWorkers : Building(v) /\ Building(w) /\ on[v] = on[w] => v = w
  /\ \A w \in ExportWorkers :
       /\ Building(w) /\ at[w] # "mark" => jobs[on[w]] = [status |-> "running", fresh |-> TRUE]
       /\ at[w] = "mark" => jobs[on[w]].status = "failed"

\* What a worker does fits the node it is in.
NodeFits ==
  \A w \in ExportWorkers :
    /\ at[w] = "writing" => mem[w].node = "batch"
    /\ at[w] \in {"named", "merging"} => mem[w].node = "merge"
    /\ at[w] = "close" => mem[w].node = "end"

\* Whoever is past the cleanup, or would resume past it, has no parts.
AtTheEnd(w) == Building(w) /\ at[w] # "claimed" /\ mem[w].node = "end"
EndIsClean ==
  /\ \A w \in ExportWorkers : AtTheEnd(w) => parts[on[w]] = NoParts
  /\ \A e \in Exports : saved[e].node = "end" =>
       /\ parts[e] = NoParts
       /\ \A w \in ExportWorkers : Building(w) /\ on[w] = e => at[w] = "claimed" \/ AtTheEnd(w)

\* Before an export is confirmed there is no job, and before it is offered no part.
NothingYet ==
  \A e \in Exports :
    /\ asker[e] # "done" => jobs[e].status = "none"
    /\ exports[e].status = "absent" => asker[e] = "idle" /\ parts[e] = NoParts

BuildInv == SoleBuilder /\ NodeFits /\ EndIsClean /\ NothingYet /\ SucceededIsClean

LEMMA BuildInitially == ExportInit => BuildInv
  BY DEF ExportInit, BuildInv, SoleBuilder, NodeFits, EndIsClean, NothingYet, SucceededIsClean,
         Building, AtTheEnd, Paused, NoParts

LEMMA ExportActionBuilds ==
  ASSUME Typed, BuildInv, NEW e \in Exports, ExportAction(e) PROVE BuildInv'
<1>0. jobs[e].status = "none" => \A w \in ExportWorkers : Building(w) => on[w] # e
  BY DEF BuildInv, SoleBuilder
<1> USE DEF BuildInv, SoleBuilder, NodeFits, EndIsClean, NothingYet, SucceededIsClean, Building,
            AtTheEnd, Typed, ExportTypeOK, graphVars, pickedVars, SetStatus, ExportRow, JobRow
<1>1. CASE Offer(e) BY <1>1 DEF Offer, Paused
<1>2. CASE Refuse(e)
  <2>1. jobs[e].status = "none" /\ parts[e] = NoParts BY <1>2 DEF Refuse
  <2>2. SoleBuilder' /\ NodeFits' /\ NothingYet' /\ SucceededIsClean' BY <1>2 DEF Refuse
  <2>3. EndIsClean' BY <1>0, <1>2, <2>1 DEF Refuse
  <2>4. QED BY <2>2, <2>3
<1>3. CASE ConfirmReads(e) BY <1>3 DEF ConfirmReads
<1>4. CASE ConfirmMarks(e) BY <1>4 DEF ConfirmMarks
<1>5. CASE ConfirmQueues(e)
  <2>1. jobs[e].status = "none" /\ exports[e].status # "absent" BY <1>5 DEF ConfirmQueues
  <2>2. SoleBuilder' BY <1>0, <1>5, <2>1 DEF ConfirmQueues
  <2>3. NothingYet' BY <1>5, <2>1 DEF ConfirmQueues
  <2>4. NodeFits' /\ EndIsClean' /\ SucceededIsClean' BY <1>5 DEF ConfirmQueues
  <2>5. QED BY <2>2, <2>3, <2>4
<1>6. CASE RequestDies(e) BY <1>6, DeathsApart DEF RequestDies
<1>7. CASE JobLapses(e) BY <1>7 DEF JobLapses, Held
<1>8. CASE TimeIsUp(e) BY <1>8 DEF TimeIsUp
<1>9. CASE ReaperDeletes(e) BY <1>9 DEF ReaperDeletes
<1>10. CASE ReaperMarks(e) BY <1>10 DEF ReaperMarks
<1>11. QED
  BY <1>1, <1>2, <1>3, <1>4, <1>5, <1>6, <1>7, <1>8, <1>9, <1>10 DEF ExportAction

LEMMA SweepBuilds == ASSUME Typed, BuildInv, ReaperSelects \/ SweepBreaks PROVE BuildInv'
  BY DeathsApart
  DEF ReaperSelects, SweepBreaks, BuildInv, SoleBuilder, NodeFits, EndIsClean, NothingYet,
         SucceededIsClean, Building, AtTheEnd, graphVars

\* A step inside a build: the worker keeps its export and the rows of the job
\* and of other exports stay; only the parts of its own export change.
LEMMA InsideBuilds ==
  ASSUME Typed, BuildInv, NEW w \in ExportWorkers, Building(w), at[w] # "mark", Building(w)',
         at'[w] # "mark", UNCHANGED << on, jobs, asker >>,
         \A v \in ExportWorkers : v # w => at'[v] = at[v] /\ mem'[v] = mem[v],
         \A e \in Exports : exports'[e].status = "absent" => exports[e].status = "absent",
         \A e \in Exports : e # on[w] => parts'[e] = parts[e] /\ saved'[e] = saved[e],
         at'[w] = "writing" => mem'[w].node = "batch",
         at'[w] \in {"named", "merging"} => mem'[w].node = "merge",
         at'[w] = "close" => mem'[w].node = "end",
         exports'[on[w]].status = "absent" => parts'[on[w]] = NoParts,
         AtTheEnd(w)' => parts'[on[w]] = NoParts,
         saved'[on[w]].node = "end" => AtTheEnd(w)',
         history.hushed \subseteq history'.hushed
  PROVE  BuildInv'
<1> USE DEF BuildInv
<1>0. on[w] \in Exports BY BuilderHolds DEF Building
<1>1. SoleBuilder' BY DEF SoleBuilder, Building
<1>2. NodeFits' BY DEF NodeFits
<1>3. \A v \in ExportWorkers : v # w /\ Building(v) => on[v] # on[w] /\ on[v] \in Exports
  <2>1. \A v \in ExportWorkers : Building(v) => on[v] \in Exports BY BuilderHolds DEF Building
  <2>2. QED BY <2>1 DEF SoleBuilder
<1>4. EndIsClean'
  <2>1. ASSUME NEW v \in ExportWorkers, AtTheEnd(v)' PROVE parts'[on[v]] = NoParts
    <3>1. CASE v = w BY <2>1, <3>1
    <3>2. CASE v # w
      <4>1. AtTheEnd(v) BY <2>1, <3>2 DEF AtTheEnd, Building
      <4>2. QED BY <4>1, <3>2, <1>3 DEF EndIsClean, AtTheEnd
    <3>3. QED BY <3>1, <3>2
  <2>2. ASSUME NEW e \in Exports, saved'[e].node = "end"
        PROVE  /\ parts'[e] = NoParts
               /\ \A v \in ExportWorkers : Building(v)' /\ on[v] = e => at'[v] = "claimed" \/ AtTheEnd(v)'
    <3>1. CASE e = on[w]
      <4>1. AtTheEnd(w)' /\ parts'[e] = NoParts BY <2>2, <3>1
      <4>2. ASSUME NEW v \in ExportWorkers, Building(v)', on[v] = e PROVE v = w
        BY <3>1, <4>2, <1>3 DEF Building
      <4>3. QED BY <4>1, <4>2
    <3>2. CASE e # on[w]
      <4>1. saved[e].node = "end" /\ parts'[e] = parts[e] BY <2>2, <3>2
      <4>2. ASSUME NEW v \in ExportWorkers, Building(v)', on[v] = e
            PROVE  at'[v] = "claimed" \/ AtTheEnd(v)'
        BY <3>2, <4>1, <4>2 DEF EndIsClean, AtTheEnd, Building
      <4>3. QED BY <4>1, <4>2 DEF EndIsClean
    <3>3. QED BY <3>1, <3>2
  <2>3. QED BY <2>1, <2>2 DEF EndIsClean
<1>5. NothingYet' BY DEF NothingYet
<1>6. SucceededIsClean'
  <2>1. jobs[on[w]].status = "running" BY DEF SoleBuilder
  <2>2. ASSUME NEW e \in Exports, e \notin history'.hushed, jobs[e].status = "succeeded"
        PROVE  parts'[e] = NoParts
    <3>1. e # on[w] /\ e \notin history.hushed BY <2>1, <2>2
    <3>2. parts[e] = NoParts BY <2>2, <3>1 DEF SucceededIsClean
    <3>3. QED BY <3>1, <3>2
  <2>3. QED BY <2>2 DEF SucceededIsClean
<1>7. QED BY <1>1, <1>2, <1>4, <1>5, <1>6

LEMMA NodeNames ==
  ASSUME NEW s \in State
  PROVE  /\ \A n \in Node : [s EXCEPT !.node = n].node = n
         /\ \A f \in Artifacts \cup {NoFile} : [s EXCEPT !.node = "publish", !.file = f].node = "publish"
         /\ [s EXCEPT !.node = "notify", !.failed = TRUE].node = "notify"
         /\ \A f, d \in BOOLEAN : AfterBatch(s, f, d).node \in {"notify", "merge", "batch"}
         /\ s.node # "end" => Resumed(s).node # "end"
         /\ s.node = "end" => Resumed(s).node = "end"
  BY DEF State, Node, AfterBatch, Resumed

\* A step inside a build leaves a checkpoint that is not at the end alone.
LEMMA NotSavedAtEnd ==
  ASSUME BuildInv, NEW w \in ExportWorkers, Building(w), on[w] \in Exports,
         at[w] # "claimed", mem[w].node # "end"
  PROVE  saved[on[w]].node # "end"
  BY DEF BuildInv, EndIsClean, AtTheEnd

LEMMA BatchBuilds ==
  ASSUME Typed, BuildInv, NEW w \in ExportWorkers,
         ReadsNothing(w) \/ StartsPart(w) \/ WritesPart(w) \/ AttemptFails(w) \/ QueryRefused(w)
  PROVE  BuildInv'
<1>1. /\ mem[w].node = "batch" /\ at[w] \in {"node", "writing"}
      /\ Building(w) /\ on[w] \in Exports /\ mem[w] \in State
  <2>1. mem[w].node = "batch" /\ at[w] \in {"node", "writing"}
    BY DEF ReadsNothing, StartsPart, WritesPart, AttemptFails, QueryRefused, InNode, BuildInv, NodeFits
  <2>2. QED BY <2>1, BuilderHolds DEF Building
<1>2. saved[on[w]].node # "end" BY <1>1, NotSavedAtEnd
<1>3. /\ UNCHANGED << on, jobs, asker, exports, saved >>
      /\ \A e \in Exports : e # on[w] => parts'[e] = parts[e]
  <2>1. UNCHANGED << on, jobs, asker, exports, saved >>
    BY DEF ReadsNothing, StartsPart, WritesPart, AttemptFails, QueryRefused
  <2>2. \A e \in Exports : e # on[w] => parts'[e] = parts[e]
    BY DEF ReadsNothing, StartsPart, WritesPart, AttemptFails, QueryRefused, Typed, ExportTypeOK
  <2>3. QED BY <2>1, <2>2
<1>4. \/ \E s \in State : Goto(w, s) /\ s.node \in {"notify", "merge", "batch"}
      \/ at' = [at EXCEPT ![w] = "writing"] /\ mem' = mem
  <2>1. \A f, d \in BOOLEAN : AfterBatch(mem[w], f, d) \in State
                              /\ AfterBatch(mem[w], f, d).node \in {"notify", "merge", "batch"}
    BY <1>1, StatesTyped, NodeNames
  <2>2. CASE ReadsNothing(w) BY <2>1, <2>2 DEF ReadsNothing
  <2>3. CASE StartsPart(w) BY <2>3 DEF StartsPart
  <2>4. CASE WritesPart(w)
    <3>1. mem[w].batch \in Batch BY <2>4 DEF WritesPart, Typed, WritingABatch
    <3>2. [mem[w] EXCEPT !.batch = mem[w].batch + 1] \in State
      BY <3>1, <1>1, StatesTyped, Numbers
    <3>3. QED BY <2>4, <3>2, StatesTyped, NodeNames DEF WritesPart
  <2>5. CASE AttemptFails(w) BY <2>1, <2>5, <1>1 DEF AttemptFails
  <2>6. CASE QueryRefused(w) BY <2>1, <2>6 DEF QueryRefused
  <2>7. QED BY <2>2, <2>3, <2>4, <2>5, <2>6
<1>5. /\ at'[w] \in {"node", "writing"} /\ mem'[w].node \in {"notify", "merge", "batch"}
      /\ at'[w] = "writing" => mem'[w].node = "batch"
      /\ \A v \in ExportWorkers : v # w => at'[v] = at[v] /\ mem'[v] = mem[v]
  BY <1>1, <1>4 DEF Goto, Typed, ExportTypeOK
<1>6. exports[on[w]].status # "absent"
  <2>1. jobs[on[w]].status = "running" BY <1>1 DEF BuildInv, SoleBuilder
  <2>2. QED BY <2>1, <1>1 DEF BuildInv, NothingYet
<1>7. history.hushed \subseteq history'.hushed
  BY Remembered DEF WorkerAction, BuildStep, Misfortune
<1>8. QED BY <1>1, <1>2, <1>3, <1>5, <1>6, <1>7, InsideBuilds DEF Building, AtTheEnd

\* What a builder's export and job are like.
LEMMA BuilderFacts ==
  ASSUME Typed, BuildInv, NEW w \in ExportWorkers, Building(w)
  PROVE  /\ on[w] \in Exports /\ mem[w] \in State
         /\ jobs[on[w]].status \in {"running", "failed"}
         /\ exports[on[w]].status # "absent" /\ asker[on[w]] = "done"
<1>1. on[w] \in Exports /\ mem[w] \in State BY BuilderHolds DEF Building
<1>2. jobs[on[w]].status \in {"running", "failed"} BY DEF BuildInv, SoleBuilder
<1>3. QED BY <1>1, <1>2 DEF BuildInv, NothingYet

LEMMA NodeBuilds ==
  ASSUME Typed, BuildInv, NEW w \in ExportWorkers,
         ChoosesName(w) \/ NamesRunOut(w) \/ OpensArtifact(w) \/ MergeEnds(w) \/ PartMissing(w)
         \/ MergeRaises(w) \/ Publish(w) \/ NotifyFailure(w) \/ Cleanup(w) \/ Returns(w)
         \/ NodeRaises(w)
  PROVE  BuildInv'
<1>1. at[w] \in {"node", "named", "merging"} /\ Building(w)
  BY DEF ChoosesName, NamesRunOut, OpensArtifact, MergeEnds, PartMissing, MergeRaises, Publish,
         NotifyFailure, Cleanup, Returns, NodeRaises, InNode, Building
<1>2. /\ on[w] \in Exports /\ mem[w] \in State /\ exports[on[w]].status # "absent"
      /\ mem[w].node # "end" => saved[on[w]].node # "end"
      /\ at[w] \in {"named", "merging"} => mem[w].node = "merge"
      /\ mem[w].node = "end" => parts[on[w]] = NoParts
  <2>1. mem[w].node = "end" => parts[on[w]] = NoParts
    BY <1>1 DEF BuildInv, EndIsClean, AtTheEnd
  <2>2. QED BY <1>1, <2>1, BuilderFacts, NotSavedAtEnd DEF BuildInv, NodeFits
<1>3. UNCHANGED << on, jobs, asker, saved >>
  BY DEF ChoosesName, NamesRunOut, OpensArtifact, MergeEnds, PartMissing, MergeRaises, MergeFailed,
         Publish, NotifyFailure, Cleanup, Returns, NodeRaises
<1>4. /\ \A e \in Exports : exports'[e].status = "absent" => exports[e].status = "absent"
      /\ exports'[on[w]].status # "absent"
  <2>1. CASE Publish(w) BY <2>1, <1>2 DEF Publish, Typed, ExportTypeOK
  <2>2. CASE NotifyFailure(w)
    <3>1. \A e \in Exports : exports[e] \in ExportRow BY DEF Typed, ExportTypeOK
    <3>2. QED BY <2>2, <3>1, <1>2 DEF NotifyFailure, Typed, ExportTypeOK, ExportRow
  <2>3. CASE exports' = exports BY <2>3, <1>2
  <2>4. QED
    BY <2>1, <2>2, <2>3
    DEF ChoosesName, NamesRunOut, OpensArtifact, MergeEnds, PartMissing, MergeRaises, MergeFailed,
        Cleanup, Returns, NodeRaises
<1>5. /\ \A e \in Exports : e # on[w] => parts'[e] = parts[e]
      /\ ~ Cleanup(w) => parts' = parts
      /\ Cleanup(w) => parts'[on[w]] = NoParts
  <2>1. Cleanup(w) => parts' = [parts EXCEPT ![on[w]] = NoParts] BY DEF Cleanup
  <2>2. ~ Cleanup(w) => parts' = parts
    BY DEF ChoosesName, NamesRunOut, OpensArtifact, MergeEnds, PartMissing, MergeRaises,
           MergeFailed, Publish, NotifyFailure, Returns, NodeRaises
  <2>3. QED BY <2>1, <2>2, <1>2 DEF Typed, ExportTypeOK
<1>21. history.hushed \subseteq history'.hushed
  BY Remembered DEF WorkerAction, BuildStep, Misfortune
<1>6. ASSUME NEW s \in State, Goto(w, s), s.node = "end" => parts'[on[w]] = NoParts,
             mem[w].node # "end"
      PROVE  BuildInv'
  <2>1. /\ at'[w] = "node" /\ mem'[w] = s
        /\ \A v \in ExportWorkers : v # w => at'[v] = at[v] /\ mem'[v] = mem[v]
    BY <1>6 DEF Goto, Typed, ExportTypeOK
  <2>2. QED BY <2>1, <1>1, <1>2, <1>3, <1>4, <1>5, <1>6, <1>21, InsideBuilds DEF Building, AtTheEnd
<1>7. ASSUME NEW next \in {"named", "merging", "raised", "hushed", "close"}, at' = [at EXCEPT ![w] = next],
             mem' = mem, next \in {"named", "merging"} => mem[w].node = "merge",
             next = "close" => mem[w].node = "end", parts' = parts
      PROVE  BuildInv'
  <2>1. /\ at'[w] = next /\ mem'[w] = mem[w]
        /\ \A v \in ExportWorkers : v # w => at'[v] = at[v] /\ mem'[v] = mem[v]
    BY <1>7 DEF Typed, ExportTypeOK
  <2>2. AtTheEnd(w)' => mem[w].node = "end" BY <2>1 DEF AtTheEnd
  <2>3. saved[on[w]].node = "end" => AtTheEnd(w)'
    BY <2>1, <1>2 DEF AtTheEnd, Building
  <2>4. QED BY <2>1, <2>2, <2>3, <1>1, <1>2, <1>3, <1>4, <1>5, <1>7, <1>21, InsideBuilds DEF Building
<1>8. /\ \A n \in Node : [mem[w] EXCEPT !.node = n] \in State /\ [mem[w] EXCEPT !.node = n].node = n
      /\ [mem[w] EXCEPT !.node = "publish", !.file = dest[w]] \in State
      /\ [mem[w] EXCEPT !.node = "publish", !.file = dest[w]].node = "publish"
      /\ [mem[w] EXCEPT !.node = "notify", !.failed = TRUE] \in State
      /\ [mem[w] EXCEPT !.node = "notify", !.failed = TRUE].node = "notify"
  <2>1. dest[w] \in Artifacts \cup {NoFile} BY DEF Typed, ExportTypeOK
  <2>2. QED BY <2>1, <1>2, StatesTyped, NodeNames
<1>9. CASE ChoosesName(w) BY <1>7, <1>9 DEF ChoosesName, InNode
<1>10. CASE NamesRunOut(w) BY <1>7, <1>10 DEF NamesRunOut
<1>11. CASE OpensArtifact(w) BY <1>2, <1>7, <1>11 DEF OpensArtifact
<1>12. CASE MergeEnds(w) BY <1>2, <1>6, <1>8, <1>12 DEF MergeEnds
<1>13. CASE PartMissing(w) BY <1>2, <1>6, <1>8, <1>13 DEF PartMissing, MergeFailed
<1>14. CASE MergeRaises(w) BY <1>2, <1>6, <1>8, <1>14 DEF MergeRaises, MergeFailed
<1>15. CASE Publish(w) BY <1>6, <1>8, <1>15 DEF Publish, InNode, Node
<1>16. CASE NotifyFailure(w) BY <1>6, <1>8, <1>16 DEF NotifyFailure, InNode, Node
<1>17. CASE Cleanup(w) BY <1>5, <1>6, <1>8, <1>17 DEF Cleanup, InNode, Node
<1>18. CASE Returns(w) BY <1>7, <1>18 DEF Returns, InNode
<1>19. CASE NodeRaises(w)
  <2>1. PICK next \in {"raised", "hushed"} : at' = [at EXCEPT ![w] = next] BY <1>19 DEF NodeRaises
  <2>2. QED BY <1>7, <1>19, <2>1 DEF NodeRaises
<1>20. QED
  BY <1>9, <1>10, <1>11, <1>12, <1>13, <1>14, <1>15, <1>16, <1>17, <1>18, <1>19

\* A worker that lets go of its export.
LEMMA LeavesBuilds ==
  ASSUME Typed, BuildInv, NEW w \in ExportWorkers, Building(w), NEW next \in {"idle", "down"},
         Leaves(w, next), UNCHANGED << asker, saved, parts >>,
         \A e \in Exports : exports'[e].status = "absent" => exports[e].status = "absent",
         \/ jobs' = jobs
         \/ \E s \in {"succeeded", "failed"} :
              /\ CloseJob(on[w], s)
              /\ s = "succeeded" => parts[on[w]] = NoParts \/ on[w] \in history'.hushed,
         history.hushed \subseteq history'.hushed
  PROVE  BuildInv'
<1>1. on[w] \in Exports /\ asker[on[w]] = "done" BY BuilderFacts
<1>2. /\ at'[w] = next /\ ~ Building(w)'
      /\ \A v \in ExportWorkers : v # w => at'[v] = at[v] /\ mem'[v] = mem[v] /\ on'[v] = on[v]
  BY DEF Leaves, Typed, ExportTypeOK, Building
<1>3. \A v \in ExportWorkers : v # w /\ Building(v) => on[v] # on[w] /\ on[v] \in Exports
  <2>1. \A v \in ExportWorkers : Building(v) => on[v] \in Exports BY BuilderHolds DEF Building
  <2>2. QED BY <2>1 DEF BuildInv, SoleBuilder
<1>4. \A e \in Exports : e # on[w] => jobs'[e] = jobs[e]
  BY <1>1 DEF CloseJob, Typed, ExportTypeOK
<1>5. SoleBuilder' BY <1>2, <1>3, <1>4 DEF BuildInv, SoleBuilder, Building
<1>6. NodeFits' BY <1>2 DEF BuildInv, NodeFits
<1>7. EndIsClean' BY <1>2 DEF BuildInv, EndIsClean, AtTheEnd, Building
<1>8. NothingYet' BY <1>1, <1>4 DEF BuildInv, NothingYet
<1>9. SucceededIsClean'
  <2> SUFFICES ASSUME NEW e \in Exports, e \notin history'.hushed, jobs'[e].status = "succeeded"
               PROVE  parts[e] = NoParts
    BY DEF SucceededIsClean
  <2>1. jobs[e].status = "succeeded" => parts[e] = NoParts
    BY DEF BuildInv, SucceededIsClean
  <2>2. CASE jobs'[e] = jobs[e] BY <2>1, <2>2
  <2>3. CASE jobs'[e] # jobs[e]
    <3>1. e = on[w] /\ jobs' # jobs BY <1>4, <2>3
    <3>2. PICK s \in {"succeeded", "failed"} :
               /\ CloseJob(on[w], s)
               /\ s = "succeeded" => parts[on[w]] = NoParts \/ on[w] \in history'.hushed
      BY <3>1
    <3>3. jobs'[e] = [status |-> s, fresh |-> FALSE]
      BY <3>1, <3>2 DEF CloseJob, Typed, ExportTypeOK
    <3>4. QED BY <3>1, <3>2, <3>3
  <2>4. QED BY <2>2, <2>3
<1>10. QED BY <1>5, <1>6, <1>7, <1>8, <1>9 DEF BuildInv

LEMMA QueueBuilds ==
  ASSUME Typed, BuildInv, NEW w \in ExportWorkers,
         RequeueSelect(w) \/ RequeueWrite(w) \/ RequeueRaises(w)
         \/ (\E e \in Exports : Claim(w, e)) \/ Begin(w) \/ Return(w)
         \/ Finish(w) \/ FinishRaised(w) \/ FinishHushed(w) \/ MarkFailed(w)
         \/ DrainRaises(w) \/ Dead(w) \/ SaveCheckpoint(w),
         RequeueWrite(w) => stale[w] \subseteq StaleJobs
  PROVE  BuildInv'
<1>0. history.hushed \subseteq history'.hushed
  BY Remembered DEF WorkerAction, BuildStep, Misfortune
<1>1. CASE RequeueWrite(w)
  <2>1. \A e \in stale[w] : jobs[e].status = "running" /\ ~ jobs[e].fresh
    BY <1>1 DEF StaleJobs
  <2>2. \A v \in ExportWorkers : Building(v) => on[v] \in Exports /\ on[v] \notin stale[w]
    <3>1. \A v \in ExportWorkers : Building(v) => on[v] \in Exports BY BuilderHolds DEF Building
    <3>2. \A v \in ExportWorkers : Building(v) =>
             jobs[on[v]].status # "running" \/ jobs[on[v]] = [status |-> "running", fresh |-> TRUE]
      BY DEF BuildInv, SoleBuilder
    <3>3. QED BY <2>1, <3>1, <3>2
  <2>3. /\ \A e \in Exports : e \notin stale[w] => jobs'[e] = jobs[e] /\ exports'[e] = exports[e]
        /\ \A e \in stale[w] : e \in Exports /\ jobs'[e].status = "queued"
                               /\ exports'[e].status = "queued"
    <3>1. \A e \in Exports : exports[e] \in ExportRow BY DEF Typed, ExportTypeOK
    <3>2. stale[w] \subseteq Exports BY DEF Typed, ExportTypeOK
    <3>3. QED BY <1>1, <3>1, <3>2 DEF RequeueWrite, Requeued, ExportRow
  <2>4. UNCHANGED << asker, at, on, mem, saved, parts, history >>
    BY <1>1 DEF RequeueWrite, graphVars
  <2>5. SoleBuilder' BY <2>2, <2>3, <2>4 DEF BuildInv, SoleBuilder, Building
  <2>6. NodeFits' /\ EndIsClean' BY <2>4 DEF BuildInv, NodeFits, EndIsClean, AtTheEnd, Building
  <2>7. NothingYet'
    <3>1. \A e \in stale[w] : asker[e] = "done" BY <2>1, <2>3 DEF BuildInv, NothingYet
    <3>2. QED BY <3>1, <2>3, <2>4 DEF BuildInv, NothingYet
  <2>8. SucceededIsClean' BY <2>3, <2>4 DEF BuildInv, SucceededIsClean
  <2>9. QED BY <2>5, <2>6, <2>7, <2>8 DEF BuildInv
<1>2. ASSUME NEW e \in Exports, Claim(w, e) PROVE BuildInv'
  <2>1. /\ jobs[e].status = "queued" /\ jobs' = [jobs EXCEPT ![e] = [status |-> "running", fresh |-> TRUE]]
        /\ at[w] = "idle" /\ at' = [at EXCEPT ![w] = "claimed"] /\ on' = [on EXCEPT ![w] = e]
        /\ UNCHANGED << exports, asker, mem, saved, parts, history >>
    BY <1>2 DEF Claim
  <2>2. \A v \in ExportWorkers : Building(v) => on[v] # e
    BY <2>1 DEF BuildInv, SoleBuilder
  <2>3. /\ at'[w] = "claimed" /\ on'[w] = e
        /\ \A v \in ExportWorkers : v # w => at'[v] = at[v] /\ on'[v] = on[v]
        /\ jobs'[e] = [status |-> "running", fresh |-> TRUE]
        /\ \A d \in Exports : d # e => jobs'[d] = jobs[d]
    BY <2>1 DEF Typed, ExportTypeOK
  <2>4. SoleBuilder'
    <3>1. \A v \in ExportWorkers : Building(v) => on[v] \in Exports BY BuilderHolds DEF Building
    <3>2. QED BY <2>2, <2>3, <3>1 DEF BuildInv, SoleBuilder, Building
  <2>5. NodeFits' BY <2>1, <2>3 DEF BuildInv, NodeFits
  <2>6. EndIsClean' BY <2>1, <2>3 DEF BuildInv, EndIsClean, AtTheEnd, Building
  <2>7. NothingYet' BY <2>1, <2>3 DEF BuildInv, NothingYet
  <2>8. SucceededIsClean' BY <2>1, <2>3 DEF BuildInv, SucceededIsClean
  <2>9. QED BY <2>4, <2>5, <2>6, <2>7, <2>8 DEF BuildInv
<1>3. CASE Begin(w)
  <2>1. Building(w) /\ at[w] = "claimed" BY <1>3 DEF Begin, Building
  <2>2. on[w] \in Exports /\ saved[on[w]] \in State
    BY <2>1, BuilderFacts DEF Typed, ExportTypeOK
  <2>3. /\ at'[w] = "node" /\ mem'[w] = Resumed(saved[on[w]])
        /\ \A v \in ExportWorkers : v # w => at'[v] = at[v] /\ mem'[v] = mem[v]
        /\ UNCHANGED << on, jobs, asker, saved, parts >>
    BY <1>3 DEF Begin, Typed, ExportTypeOK
  <2>4. /\ \A e \in Exports : exports'[e].status = "absent" => exports[e].status = "absent"
        /\ exports'[on[w]].status # "absent"
    <3>1. \A e \in Exports : exports[e] \in ExportRow BY DEF Typed, ExportTypeOK
    <3>2. QED BY <1>3, <2>2, <3>1 DEF Begin, SetStatus, Typed, ExportTypeOK, ExportRow
  <2>5. (mem'[w].node = "end") <=> (saved[on[w]].node = "end")
    BY <2>2, <2>3, NodeNames
  <2>6. AtTheEnd(w)' <=> (saved[on[w]].node = "end") BY <2>3, <2>5 DEF AtTheEnd, Building
  <2>7. saved[on[w]].node = "end" => parts[on[w]] = NoParts
    BY <2>2 DEF BuildInv, EndIsClean
  <2>8. QED BY <2>1, <2>3, <2>4, <2>6, <2>7, <1>0, InsideBuilds DEF Building
<1>4. CASE Return(w)
  BY <1>4 DEF Return, BuildInv, SoleBuilder, NodeFits, EndIsClean, NothingYet, SucceededIsClean,
              Building, AtTheEnd, Typed, ExportTypeOK
<1>5. CASE Finish(w)
  <2>1. Building(w) /\ at[w] = "close" BY <1>5 DEF Finish, Building
  <2>2. parts[on[w]] = NoParts BY <2>1 DEF BuildInv, NodeFits, EndIsClean, AtTheEnd
  <2>3. Leaves(w, "idle") /\ UNCHANGED << exports, asker, saved, parts >> BY <1>5 DEF Finish
  <2>4. CloseJob(on[w], "failed") \/ CloseJob(on[w], "succeeded") BY <1>5 DEF Finish
  <2>5. QED BY <2>1, <2>2, <2>3, <2>4, <1>0, LeavesBuilds
<1>6. CASE FinishRaised(w)
  <2>1. Building(w) /\ at[w] = "raised" BY <1>6 DEF FinishRaised, Building
  <2>2. on[w] \in Exports /\ asker[on[w]] = "done" BY <2>1, BuilderFacts
  <2>3. /\ at'[w] = "mark" /\ jobs'[on[w]].status = "failed"
        /\ \A v \in ExportWorkers : v # w => at'[v] = at[v]
        /\ \A e \in Exports : e # on[w] => jobs'[e] = jobs[e]
        /\ UNCHANGED << exports, asker, on, mem, saved, parts, history >>
    BY <1>6, <2>2 DEF FinishRaised, CloseJob, Typed, ExportTypeOK
  <2>4. \A v \in ExportWorkers : v # w /\ Building(v) => on[v] # on[w] /\ on[v] \in Exports
    <3>1. \A v \in ExportWorkers : Building(v) => on[v] \in Exports BY BuilderHolds DEF Building
    <3>2. QED BY <2>1, <3>1 DEF BuildInv, SoleBuilder
  <2>5. SoleBuilder' BY <2>1, <2>3, <2>4 DEF BuildInv, SoleBuilder, Building
  <2>6. NodeFits' BY <2>3 DEF BuildInv, NodeFits
  <2>7. EndIsClean' BY <2>1, <2>3 DEF BuildInv, EndIsClean, AtTheEnd, Building
  <2>8. NothingYet' /\ SucceededIsClean'
    BY <2>2, <2>3 DEF BuildInv, NothingYet, SucceededIsClean
  <2>9. QED BY <2>5, <2>6, <2>7, <2>8 DEF BuildInv
<1>7. CASE MarkFailed(w)
  <2>1. Building(w) BY <1>7 DEF MarkFailed, Building
  <2>2. \A e \in Exports : exports'[e].status = "absent" => exports[e].status = "absent"
    <3>1. \A e \in Exports : exports[e] \in ExportRow BY DEF Typed, ExportTypeOK
    <3>2. on[w] \in Exports BY <2>1, BuilderFacts
    <3>3. QED BY <1>7, <3>1, <3>2 DEF MarkFailed, Typed, ExportTypeOK, ExportRow
  <2>3. QED BY <1>7, <2>1, <2>2, <1>0, LeavesBuilds DEF MarkFailed
<1>8. CASE DrainRaises(w) BY <1>8, <1>0, LeavesBuilds DEF DrainRaises, Building
<1>9. CASE Dead(w)
  <2>1. CASE Building(w) BY <1>9, <2>1, <1>0, LeavesBuilds DEF Dead
  <2>2. CASE ~ Building(w)
    <3>1. /\ UNCHANGED << exports, jobs, asker, saved, parts >>
          /\ at'[w] = "down" /\ at[w] = "idle"
          /\ \A v \in ExportWorkers : v # w => at'[v] = at[v] /\ mem'[v] = mem[v] /\ on'[v] = on[v]
      BY <1>9, <2>2 DEF Dead, Leaves, Building, Typed, ExportTypeOK
    <3>2. QED BY <3>1, <1>0 DEF BuildInv, SoleBuilder, NodeFits, EndIsClean, NothingYet,
                                SucceededIsClean, Building, AtTheEnd
  <2>3. QED BY <2>1, <2>2
<1>10. CASE SaveCheckpoint(w)
  <2>1. Building(w) /\ at[w] \in Running \ {"claimed"} BY <1>10 DEF SaveCheckpoint, Building, Running
  <2>2. on[w] \in Exports /\ exports[on[w]].status # "absent" BY <2>1, BuilderFacts
  <2>3. /\ saved'[on[w]] = mem[w] /\ \A e \in Exports : e # on[w] => saved'[e] = saved[e]
        /\ UNCHANGED << exports, jobs, asker, at, on, mem, parts >>
    BY <1>10, <2>2 DEF SaveCheckpoint, graphVars, Typed, ExportTypeOK
  <2>4. mem[w].node = "end" => AtTheEnd(w) BY <2>1 DEF AtTheEnd
  <2>5. AtTheEnd(w) => parts[on[w]] = NoParts BY DEF BuildInv, EndIsClean
  <2>6. NodeFits' BY <2>3 DEF BuildInv, NodeFits
  <2>7. QED BY <2>1, <2>2, <2>3, <2>4, <2>5, <2>6, <1>0, InsideBuilds
        DEF Building, AtTheEnd, NodeFits, Running
<1>11. CASE RequeueSelect(w) \/ RequeueRaises(w)
  <2>1. UNCHANGED << exports, jobs, asker, at, on, mem, saved, parts >>
    BY <1>11 DEF RequeueSelect, RequeueRaises, graphVars
  <2>2. QED BY <2>1, <1>0 DEF BuildInv, SoleBuilder, NodeFits, EndIsClean, NothingYet,
                              SucceededIsClean, Building, AtTheEnd
<1>12. CASE FinishHushed(w)
  <2>1. Building(w) /\ on[w] \in history'.hushed /\ CloseJob(on[w], "succeeded")
    <3>1. history \in History BY DEF Typed, ExportTypeOK
    <3>2. QED BY <1>12, <3>1 DEF FinishHushed, Building, History
  <2>2. Leaves(w, "idle") /\ UNCHANGED << exports, asker, saved, parts >>
    BY <1>12 DEF FinishHushed
  <2>3. QED BY <2>1, <2>2, <1>0, LeavesBuilds
<1>13. QED
  BY <1>1, <1>2, <1>3, <1>4, <1>5, <1>6, <1>7, <1>8, <1>9, <1>10, <1>11, <1>12

LEMMA BuildSteps ==
  ASSUME Typed, BuildInv, [ExportNext]_exportVars, ~ RequeuesTaken PROVE BuildInv'
<1>1. ASSUME NEW w \in ExportWorkers, WorkerAction(w) PROVE BuildInv'
  <2>1. RequeueWrite(w) => stale[w] \subseteq StaleJobs BY DEF RequeuesTaken
  <2>2. QED
    BY <1>1, <2>1, BatchBuilds, NodeBuilds, QueueBuilds DEF WorkerAction, BuildStep, Misfortune
<1>2. ASSUME UNCHANGED exportVars PROVE BuildInv'
  BY <1>2 DEF exportVars, BuildInv, SoleBuilder, NodeFits, EndIsClean, NothingYet,
              SucceededIsClean, Building, AtTheEnd
<1>3. QED BY <1>1, <1>2, StepKinds, ExportActionBuilds, SweepBuilds

LEMMA BuildInvariant == ExportSpec /\ [][~ RequeuesTaken]_exportVars => []BuildInv
<1>1. Typed /\ BuildInv /\ [ExportNext]_exportVars /\ [~ RequeuesTaken]_exportVars => BuildInv'
  <2> SUFFICES ASSUME Typed, BuildInv, [ExportNext]_exportVars, [~ RequeuesTaken]_exportVars
               PROVE  BuildInv'
    OBVIOUS
  <2>1. CASE ~ RequeuesTaken BY <2>1, BuildSteps
  <2>2. CASE UNCHANGED exportVars
    BY <2>2 DEF exportVars, BuildInv, SoleBuilder, NodeFits, EndIsClean, NothingYet,
                SucceededIsClean, Building, AtTheEnd
  <2>3. QED BY <2>1, <2>2
<1>2. QED BY <1>1, BuildInitially, TypedInvariant, PTL DEF ExportSpec

\* However many workers and deaths there are, two workers build one export only
\* after a requeue has written over a job that was not stale any more; and until
\* then a builder's job is running, with a fresh heartbeat.
THEOREM OneBuilder == ExportSpec /\ [][~ RequeuesTaken]_exportVars => []SoleBuilder
<1>1. BuildInv => SoleBuilder BY DEF BuildInv
<1>2. QED BY <1>1, BuildInvariant, PTL

\* A job that succeeded, otherwise than by an exception without a text, has no part
\* file left, through every resume from an old checkpoint, death and failing call,
\* until a requeue writes over a job that was not stale any more.
THEOREM SuccessIsClean == ExportSpec /\ [][~ RequeuesTaken]_exportVars => []SucceededIsClean
<1>1. BuildInv => SucceededIsClean BY DEF BuildInv
<1>2. QED BY <1>1, BuildInvariant, PTL

-----------------------------------------------------------------------------
(* One worker: nobody else writes the jobs it has read as stale.           *)

LoneWorker == \A v, w \in ExportWorkers : v = w

SelectedIsStale ==
  \A w \in ExportWorkers : stale[w] # {} => at[w] = "idle" /\ stale[w] \subseteq StaleJobs

LEMMA SelectedSteps ==
  ASSUME LoneWorker, Typed, BuildInv, SelectedIsStale, [ExportNext]_exportVars
  PROVE  SelectedIsStale'
<1> SUFFICES ASSUME NEW w \in ExportWorkers, stale'[w] # {}
             PROVE  at'[w] = "idle" /\ stale'[w] \subseteq StaleJobs'
  BY DEF SelectedIsStale
<1>0. /\ stale \in [ExportWorkers -> SUBSET Exports] /\ jobs \in [Exports -> JobRow]
      /\ at \in [ExportWorkers -> Running \cup {"down", "idle", "close", "raised", "hushed", "mark"}]
  BY DEF Typed, ExportTypeOK
<1>1. ASSUME at'[w] = at[w], stale'[w] = stale[w],
             \A e \in Exports : jobs[e].status = "running" /\ ~ jobs[e].fresh =>
                                   jobs'[e].status = "running" /\ ~ jobs'[e].fresh
      PROVE  at'[w] = "idle" /\ stale'[w] \subseteq StaleJobs'
  BY <1>1 DEF SelectedIsStale, StaleJobs
<1>2. ASSUME NEW e \in Exports, ExportAction(e)
      PROVE  at'[w] = "idle" /\ stale'[w] \subseteq StaleJobs'
  <2>1. at' = at /\ stale' = stale
    BY <1>2 DEF ExportAction, Offer, Refuse, ConfirmReads, ConfirmMarks, ConfirmQueues,
                RequestDies, JobLapses, TimeIsUp, ReaperDeletes, ReaperMarks, graphVars, pickedVars
  <2>2. \A d \in Exports : jobs[d].status = "running" /\ ~ jobs[d].fresh =>
                              jobs'[d].status = "running" /\ ~ jobs'[d].fresh
    <3>1. CASE ConfirmQueues(e)
      <4>1. jobs[e].status = "none" BY <3>1 DEF ConfirmQueues, BuildInv, NothingYet
      <4>2. QED BY <3>1, <4>1, <1>0 DEF ConfirmQueues
    <3>2. CASE JobLapses(e) BY <3>2, <1>0 DEF JobLapses, JobRow
    <3>3. CASE jobs' = jobs BY <3>3
    <3>4. QED
      BY <1>2, <3>1, <3>2, <3>3
      DEF ExportAction, Offer, Refuse, ConfirmReads, ConfirmMarks, RequestDies, TimeIsUp,
          ReaperDeletes, ReaperMarks
  <2>3. QED BY <1>1, <2>1, <2>2
<1>3. CASE ReaperSelects \/ SweepBreaks
  BY <1>1, <1>3 DEF ReaperSelects, SweepBreaks, graphVars
<1>4. CASE UNCHANGED exportVars BY <1>1, <1>4 DEF exportVars
<1>5. ASSUME NEW v \in ExportWorkers, WorkerAction(v)
      PROVE  at'[w] = "idle" /\ stale'[w] \subseteq StaleJobs'
  <2>1. v = w BY DEF LoneWorker
  <2>2. CASE RequeueSelect(w)
    BY <2>2, <1>0 DEF RequeueSelect, graphVars, StaleJobs
  <2>3. CASE RequeueWrite(w) \/ RequeueRaises(w) \/ Dead(w)
    <3>1. stale'[w] = {} BY <2>3, <1>0 DEF RequeueWrite, RequeueRaises, Dead
    <3>2. QED BY <3>1
  <2>4. CASE SaveCheckpoint(w) BY <1>1, <2>4 DEF SaveCheckpoint, graphVars, pickedVars
  <2>5. ASSUME stale' = stale, stale[w] = {} \/ at[w] # "idle"
        PROVE  FALSE
    BY <2>5 DEF SelectedIsStale
  <2>6. CASE (\E e \in Exports : Claim(w, e)) \/ Begin(w) \/ Return(w) \/ Finish(w)
             \/ FinishRaised(w) \/ FinishHushed(w) \/ MarkFailed(w) \/ DrainRaises(w)
    BY <2>5, <2>6 DEF Claim, Begin, Return, Finish, FinishRaised, FinishHushed, MarkFailed,
                      DrainRaises, pickedVars
  <2>7. CASE ReadsNothing(w) \/ StartsPart(w) \/ WritesPart(w) \/ AttemptFails(w)
             \/ QueryRefused(w)
    BY <2>5, <2>7 DEF ReadsNothing, StartsPart, WritesPart, AttemptFails, QueryRefused, InNode,
                      pickedVars
  <2>8. CASE ChoosesName(w) \/ NamesRunOut(w) \/ OpensArtifact(w) \/ MergeEnds(w)
             \/ PartMissing(w) \/ MergeRaises(w) \/ Publish(w) \/ NotifyFailure(w)
             \/ Cleanup(w) \/ Returns(w) \/ NodeRaises(w)
    BY <2>5, <2>8 DEF ChoosesName, NamesRunOut, OpensArtifact, MergeEnds, PartMissing,
                      MergeRaises, MergeFailed, Publish, NotifyFailure, Cleanup, Returns,
                      NodeRaises, InNode, pickedVars
  <2>9. QED
    BY <1>5, <2>1, <2>2, <2>3, <2>4, <2>6, <2>7, <2>8 DEF WorkerAction, BuildStep, Misfortune
<1>6. QED BY <1>2, <1>3, <1>4, <1>5, StepKinds

LEMMA LoneWorkerRequeues ==
  ASSUME LoneWorker PROVE ExportSpec => [][~ RequeuesTaken]_exportVars
<1>1. ExportInit => SelectedIsStale BY DEF ExportInit, SelectedIsStale
<1>2. SelectedIsStale => ~ RequeuesTaken BY DEF SelectedIsStale, RequeuesTaken
<1>3. Typed /\ BuildInv /\ SelectedIsStale /\ [ExportNext]_exportVars =>
        BuildInv' /\ SelectedIsStale'
  BY <1>2, BuildSteps, SelectedSteps
<1>4. QED BY <1>1, <1>2, <1>3, BuildInitially, TypedInvariant, PTL DEF ExportSpec

-----------------------------------------------------------------------------
(* The file a link leads to. The parts, the file being written and the     *)
(* finished artifact are three invariants; the reaper's rows are a fourth. *)

\* A worker inside the graph.
Driving(w) == at[w] \in {"node", "writing", "named", "merging"}

\* The two steps that may spoil a file that is offered: an artifact is opened
\* under a name somebody has taken since it was chosen, and a sweep ends between
\* removing a file and saying so.
OpensTaken == \E w \in ExportWorkers : OpensArtifact(w) /\ files[dest[w]] # NoFile
TornSweep == SweepBreaks /\ deleted # NoExport

\* The batches before the one a thread is at are in their own parts, or gone.
InPlace(held, n) == \A b \in Batch : b < n => held[b] \in {0, b}

\* So it is for a worker and for whoever goes on from a checkpoint, and a
\* thread merges when every batch has been read.
PartsInPlace ==
  /\ \A w \in ExportWorkers : Driving(w) =>
       /\ InPlace(parts[on[w]], mem[w].batch) /\ saved[on[w]].batch =< mem[w].batch
       /\ mem[w].node = "merge" => mem[w].batch = BatchCount + 1
  /\ \A e \in Exports :
       /\ InPlace(parts[e], saved[e].batch)
       /\ saved[e].node = "merge" => saved[e].batch = BatchCount + 1

\* A file being written is its writer's alone.
OpenFiles ==
  /\ \A w \in ExportWorkers : at[w] \in {"named", "merging"} => dest[w] \in Artifacts
  /\ \A w \in ExportWorkers : at[w] = "merging" => files[dest[w]] = Fragment
  /\ \A v, w \in ExportWorkers :
       at[v] = "merging" /\ at[w] = "merging" /\ dest[v] = dest[w] => v = w

\* A finished artifact stays until the row that offers it is swept.
Whole(disk, e, f) == f \in Artifacts /\ disk[f] = e
JobOver(e) == jobs[e].status \in {"succeeded", "failed"}
ArtifactsStay ==
  /\ \A w \in ExportWorkers : Driving(w) /\ mem[w].node = "publish" => Whole(files, on[w], mem[w].file)
  /\ \A e \in Exports :
       /\ saved[e].node = "publish" /\ ~ JobOver(e) => Whole(files, e, saved[e].file)
       /\ exports[e].status = "ready" /\ deleted # e => Whole(files, e, exports[e].file)

\* The rows of the reaper are out of everybody's hands.
SweptRows ==
  \A e \in Exports :
    /\ exports[e].status = "ready" => jobs[e].status \notin {"none", "queued"}
    /\ exports[e].lapsed => JobOver(e) /\ ~ Held(e) /\ exports[e].status # "absent"
    /\ reaping[e] # NoFile =>
         exports[e].status = "ready" /\ exports[e].lapsed /\ reaping[e] = exports[e].file
    /\ deleted = e => reaping[e] # NoFile

WholeInv == PartsInPlace /\ OpenFiles /\ ArtifactsStay /\ SweptRows

LEMMA WholeInitially == ExportInit => WholeInv
  BY SentinelsAssumption
  DEF ExportInit, WholeInv, PartsInPlace, OpenFiles, ArtifactsStay, SweptRows, Driving, InPlace,
      Whole, Held, Paused, NoParts, Batch

LEMMA WholeServes == WholeInv => ServedFileIsWhole
  BY SentinelsAssumption DEF WholeInv, ArtifactsStay, SweptRows, ServedFileIsWhole, Whole

\* What a worker has in hand is not lapsed, so no sweep is about it.
LEMMA HeldIsNotSwept ==
  ASSUME Typed, WholeInv, NEW w \in ExportWorkers, Building(w)
  PROVE  /\ on[w] \in Exports /\ Held(on[w]) /\ ~ exports[on[w]].lapsed
         /\ reaping[on[w]] = NoFile /\ deleted # on[w]
<1>1. on[w] \in Exports BY BuilderHolds DEF Building
<1>2. Held(on[w]) BY DEF Held
<1>3. QED BY <1>1, <1>2 DEF WholeInv, SweptRows

\* A step of a worker that keeps its export.
LEMMA InsideWhole ==
  ASSUME Typed, BuildInv, WholeInv, NEW w \in ExportWorkers, Building(w), Building(w)',
         UNCHANGED << on, reaping, deleted >>,
         jobs' = jobs \/ (JobOver(on[w])' /\ ~ Driving(w)'),
         \A e \in Exports : e # on[w] => jobs'[e] = jobs[e],
         \A v \in ExportWorkers : v # w => at'[v] = at[v] /\ mem'[v] = mem[v] /\ dest'[v] = dest[v],
         \A e \in Exports : e # on[w] =>
           parts'[e] = parts[e] /\ saved'[e] = saved[e] /\ exports'[e] = exports[e],
         ~ exports'[on[w]].lapsed,
         \* the parts
         Driving(w)' => /\ InPlace(parts'[on[w]], mem'[w].batch) /\ saved'[on[w]].batch =< mem'[w].batch
                        /\ mem'[w].node = "merge" => mem'[w].batch = BatchCount + 1,
         InPlace(parts'[on[w]], saved'[on[w]].batch),
         saved'[on[w]].node = "merge" => saved'[on[w]].batch = BatchCount + 1,
         \* the file
         \A f \in Artifacts : files'[f] # files[f] =>
           files[f] \notin Exports /\ \A v \in ExportWorkers : v # w /\ at[v] = "merging" => dest[v] # f,
         at'[w] \in {"named", "merging"} => dest'[w] \in Artifacts,
         at'[w] = "merging" =>
           /\ files'[dest'[w]] = Fragment
           /\ \A v \in ExportWorkers : v # w /\ at[v] = "merging" => dest[v] # dest'[w],
         Driving(w)' /\ mem'[w].node = "publish" => Whole(files', on[w], mem'[w].file),
         saved'[on[w]].node = "publish" /\ ~ JobOver(on[w])' => Whole(files', on[w], saved'[on[w]].file),
         exports'[on[w]].status = "ready" => Whole(files', on[w], exports'[on[w]].file)
  PROVE  WholeInv'
<1>1. /\ on[w] \in Exports /\ Held(on[w]) /\ ~ exports[on[w]].lapsed
      /\ reaping[on[w]] = NoFile /\ deleted # on[w]
  BY HeldIsNotSwept
<1>2. \A v \in ExportWorkers : v # w /\ Building(v) => on[v] # on[w] /\ on[v] \in Exports
  <2>1. \A v \in ExportWorkers : Building(v) => on[v] \in Exports BY BuilderHolds DEF Building
  <2>2. QED BY <2>1 DEF BuildInv, SoleBuilder
<1>3. \A v \in ExportWorkers : v # w /\ Driving(v)' => Driving(v) /\ on[v] # on[w] /\ on[v] \in Exports
  BY <1>2 DEF Driving, Building
<1>4. \A e \in Exports : e # on[w] => JobOver(e)' = JobOver(e) BY DEF JobOver
<1>5. \A e \in Exports : \A f : e # on[w] /\ Whole(files, e, f) => Whole(files', e, f) BY DEF Whole
<1>6. PartsInPlace'
  <2>1. ASSUME NEW v \in ExportWorkers, Driving(v)'
        PROVE  /\ InPlace(parts'[on[v]], mem'[v].batch) /\ saved'[on[v]].batch =< mem'[v].batch
               /\ mem'[v].node = "merge" => mem'[v].batch = BatchCount + 1
    <3>1. CASE v = w BY <2>1, <3>1
    <3>2. CASE v # w BY <2>1, <3>2, <1>3 DEF WholeInv, PartsInPlace, InPlace
    <3>3. QED BY <3>1, <3>2
  <2>2. ASSUME NEW e \in Exports
        PROVE  /\ InPlace(parts'[e], saved'[e].batch)
               /\ saved'[e].node = "merge" => saved'[e].batch = BatchCount + 1
    BY DEF WholeInv, PartsInPlace, InPlace
  <2>3. QED BY <2>1, <2>2 DEF PartsInPlace
<1>7. OpenFiles'
  <2>1. \A v \in ExportWorkers : at'[v] \in {"named", "merging"} => dest'[v] \in Artifacts
    BY DEF WholeInv, OpenFiles
  <2>2. \A v \in ExportWorkers : at'[v] = "merging" => files'[dest'[v]] = Fragment
    BY <2>1 DEF WholeInv, OpenFiles
  <2>3. QED BY <2>1, <2>2 DEF WholeInv, OpenFiles
<1>8. ArtifactsStay'
  <2>1. ASSUME NEW v \in ExportWorkers, Driving(v)', mem'[v].node = "publish"
        PROVE  Whole(files', on[v], mem'[v].file)
    <3>1. CASE v = w BY <2>1, <3>1
    <3>2. CASE v # w BY <2>1, <3>2, <1>3, <1>5 DEF WholeInv, ArtifactsStay
    <3>3. QED BY <3>1, <3>2
  <2>2. ASSUME NEW e \in Exports, e # on[w]
        PROVE  /\ saved'[e].node = "publish" /\ ~ JobOver(e)' => Whole(files', e, saved'[e].file)
               /\ exports'[e].status = "ready" /\ deleted' # e => Whole(files', e, exports'[e].file)
    BY <2>2, <1>4, <1>5 DEF WholeInv, ArtifactsStay
  <2>3. QED BY <2>1, <2>2 DEF ArtifactsStay
<1>9. SweptRows'
  <2>1. jobs'[on[w]].status \notin {"none", "queued"}
    <3>1. jobs[on[w]].status \in {"running", "failed"} BY BuilderFacts
    <3>2. QED BY <3>1 DEF JobOver
  <2>2. \A e \in Exports : Held(e)' = Held(e) BY DEF Held
  <2>3. QED BY <1>1, <1>4, <2>1, <2>2 DEF WholeInv, SweptRows
<1>10. QED BY <1>6, <1>7, <1>8, <1>9 DEF WholeInv

\* What a driving worker may rely on.
LEMMA DriverFacts ==
  ASSUME Typed, BuildInv, WholeInv, NEW w \in ExportWorkers, Driving(w)
  PROVE  /\ Building(w) /\ on[w] \in Exports /\ mem[w] \in State /\ saved[on[w]] \in State
         /\ mem[w].batch \in 1 .. BatchCount + 1 /\ saved[on[w]].batch \in 1 .. BatchCount + 1
         /\ jobs[on[w]].status = "running"
         /\ ~ exports[on[w]].lapsed /\ deleted # on[w] /\ reaping[on[w]] = NoFile
         /\ InPlace(parts[on[w]], mem[w].batch) /\ saved[on[w]].batch =< mem[w].batch
         /\ mem[w].node = "merge" => mem[w].batch = BatchCount + 1
         /\ InPlace(parts[on[w]], saved[on[w]].batch)
         /\ saved[on[w]].node = "merge" => saved[on[w]].batch = BatchCount + 1
         /\ mem[w].node = "publish" => Whole(files, on[w], mem[w].file)
         /\ saved[on[w]].node = "publish" => Whole(files, on[w], saved[on[w]].file)
         /\ exports[on[w]].status = "ready" => Whole(files, on[w], exports[on[w]].file)
<1>1. Building(w) /\ at[w] # "mark" BY DEF Driving, Building
<1>2. on[w] \in Exports /\ mem[w] \in State /\ saved[on[w]] \in State
  BY <1>1, BuilderHolds DEF Building, Typed, ExportTypeOK
<1>3. jobs[on[w]].status = "running" BY <1>1 DEF BuildInv, SoleBuilder
<1>4. ~ exports[on[w]].lapsed /\ deleted # on[w] /\ reaping[on[w]] = NoFile
  BY <1>1, HeldIsNotSwept
<1>5. mem[w].batch \in 1 .. BatchCount + 1 /\ saved[on[w]].batch \in 1 .. BatchCount + 1
  BY <1>2, StatesTyped
<1>6. /\ InPlace(parts[on[w]], mem[w].batch) /\ saved[on[w]].batch =< mem[w].batch
      /\ mem[w].node = "merge" => mem[w].batch = BatchCount + 1
      /\ InPlace(parts[on[w]], saved[on[w]].batch)
      /\ saved[on[w]].node = "merge" => saved[on[w]].batch = BatchCount + 1
  BY <1>2 DEF WholeInv, PartsInPlace
<1>7. /\ mem[w].node = "publish" => Whole(files, on[w], mem[w].file)
      /\ saved[on[w]].node = "publish" => Whole(files, on[w], saved[on[w]].file)
      /\ exports[on[w]].status = "ready" => Whole(files, on[w], exports[on[w]].file)
  BY <1>2, <1>3, <1>4 DEF WholeInv, ArtifactsStay, JobOver
<1>8. QED BY <1>1, <1>2, <1>3, <1>4, <1>5, <1>6, <1>7

LEMMA AfterBatchIs ==
  ASSUME NEW s \in State, NEW failed \in BOOLEAN, NEW finished \in BOOLEAN
  PROVE  LET t == AfterBatch(s, failed, finished) IN
         /\ t.batch = s.batch /\ t.failed = failed /\ t.file = s.file
         /\ t.node = IF failed THEN "notify" ELSE IF finished THEN "merge" ELSE "batch"
  BY DEF AfterBatch, State

\* A step of a driving worker that writes at most parts of its own export.
LEMMA OwnPartsWhole ==
  ASSUME Typed, BuildInv, WholeInv, NEW w \in ExportWorkers, Driving(w),
         at'[w] \in {"node", "writing", "raised", "hushed", "close"},
         UNCHANGED << on, exports, jobs, saved, files, reaping, deleted >>,
         \A v \in ExportWorkers : v # w => at'[v] = at[v] /\ mem'[v] = mem[v] /\ dest'[v] = dest[v],
         \A e \in Exports : e # on[w] => parts'[e] = parts[e],
         InPlace(parts'[on[w]], mem'[w].batch), saved[on[w]].batch =< mem'[w].batch,
         mem'[w].node = "merge" => mem'[w].batch = BatchCount + 1,
         InPlace(parts'[on[w]], saved[on[w]].batch),
         mem'[w].node = "publish" => mem[w].node = "publish" /\ mem'[w] = mem[w]
  PROVE  WholeInv'
<1>1. Building(w) /\ Building(w)' BY DEF Driving, Building
<1>2. JobOver(on[w])' = JobOver(on[w]) BY DEF JobOver
<1>3. /\ ~ exports[on[w]].lapsed
      /\ mem[w].node = "publish" => Whole(files, on[w], mem[w].file)
      /\ saved[on[w]].node = "publish" => Whole(files, on[w], saved[on[w]].file)
      /\ saved[on[w]].node = "merge" => saved[on[w]].batch = BatchCount + 1
      /\ exports[on[w]].status = "ready" => Whole(files, on[w], exports[on[w]].file)
  BY DriverFacts
<1>4. QED BY <1>1, <1>2, <1>3, InsideWhole

LEMMA GotoIs ==
  ASSUME Typed, NEW w \in ExportWorkers, NEW s, Goto(w, s)
  PROVE  /\ at'[w] = "node" /\ mem'[w] = s
         /\ \A v \in ExportWorkers : v # w => at'[v] = at[v] /\ mem'[v] = mem[v]
  BY DEF Goto, Typed, ExportTypeOK

LEMMA BatchWhole ==
  ASSUME Typed, BuildInv, WholeInv, NEW w \in ExportWorkers,
         ReadsNothing(w) \/ StartsPart(w) \/ WritesPart(w) \/ AttemptFails(w) \/ QueryRefused(w)
  PROVE  WholeInv'
<1> DEFINE e == on[w]  b == mem[w].batch
<1>1. mem[w].node = "batch" /\ at[w] \in {"node", "writing"} /\ Driving(w)
  BY DEF ReadsNothing, StartsPart, WritesPart, AttemptFails, QueryRefused, InNode, BuildInv,
         NodeFits, Driving
<1>2. /\ e \in Exports /\ mem[w] \in State /\ b \in Nat /\ b \in 1 .. BatchCount + 1
      /\ saved[e].batch \in 1 .. BatchCount + 1 /\ saved[e].batch =< b
      /\ InPlace(parts[e], b) /\ InPlace(parts[e], saved[e].batch) /\ ReadsAt(w, e, b) = b
      /\ at[w] = "writing" => b \in Batch
  BY <1>1, DriverFacts, ReadsWhatItShould DEF Typed, WritingABatch
<1>3. /\ UNCHANGED << on, exports, jobs, saved, files, reaping, deleted, dest >>
      /\ \A d \in Exports : d # e => parts'[d] = parts[d]
  <2>1. UNCHANGED << on, exports, jobs, saved, files, reaping, deleted, dest >>
    BY DEF ReadsNothing, StartsPart, WritesPart, AttemptFails, QueryRefused, pickedVars
  <2>2. \A d \in Exports : d # e => parts'[d] = parts[d]
    BY DEF ReadsNothing, StartsPart, WritesPart, AttemptFails, QueryRefused, Typed, ExportTypeOK
  <2>3. QED BY <2>1, <2>2
<1>4. /\ parts \in [Exports -> [Batch -> 0 .. Torn]] /\ parts[e] \in [Batch -> 0 .. Torn]
      /\ (\A i \in Batch : i # b => parts'[e][i] = parts[e][i])
           => InPlace(parts'[e], b) /\ InPlace(parts'[e], saved[e].batch)
  <2>1. parts \in [Exports -> [Batch -> 0 .. Torn]] BY DEF Typed, ExportTypeOK
  <2>2. ASSUME \A i \in Batch : i # b => parts'[e][i] = parts[e][i]
        PROVE  InPlace(parts'[e], b) /\ InPlace(parts'[e], saved[e].batch)
    <3>1. \A i \in Batch : i < b => parts'[e][i] \in {0, i}
      BY <2>2, <1>2, BatchesAssumption DEF InPlace, Batch
    <3>2. \A i \in Batch : i < saved[e].batch => i < b BY <1>2, BatchesAssumption DEF Batch
    <3>3. QED BY <3>1, <3>2 DEF InPlace
  <2>3. QED BY <2>1, <2>2, <1>2
<1> HIDE DEF e, b
<1>5. \A s \in State :
         /\ AfterBatch(s, FALSE, TRUE).node = "merge" /\ AfterBatch(s, FALSE, TRUE).batch = s.batch
         /\ AfterBatch(s, FALSE, FALSE).node = "batch" /\ AfterBatch(s, FALSE, FALSE).batch = s.batch
         /\ AfterBatch(s, TRUE, FALSE).node = "notify" /\ AfterBatch(s, TRUE, FALSE).batch = s.batch
  BY AfterBatchIs
<1>7. CASE ReadsNothing(w)
  <2>1. b > BatchCount /\ Goto(w, AfterBatch(mem[w], FALSE, TRUE)) /\ parts' = parts
    BY <1>7, <1>2 DEF ReadsNothing, e, b
  <2>2. b = BatchCount + 1 BY <2>1, <1>2, BatchesAssumption
  <2> DEFINE s == AfterBatch(mem[w], FALSE, TRUE)
  <2>3. s.node = "merge" /\ s.batch = b BY <1>2, <1>5 DEF b
  <2> HIDE DEF s
  <2>4. /\ at'[w] = "node" /\ mem'[w] = s
        /\ \A v \in ExportWorkers : v # w => at'[v] = at[v] /\ mem'[v] = mem[v]
    BY <2>1, GotoIs DEF s
  <2>5. QED BY <1>1, <1>2, <1>3, <2>1, <2>2, <2>3, <2>4, OwnPartsWhole DEF e
<1>8. CASE StartsPart(w)
  <2>1. at' = [at EXCEPT ![w] = "writing"] /\ mem' = mem /\ parts' = [parts EXCEPT ![e][b] = Torn]
    BY <1>8 DEF StartsPart, e, b
  <2>2. /\ at'[w] = "writing" /\ mem'[w] = mem[w]
        /\ \A v \in ExportWorkers : v # w => at'[v] = at[v] /\ mem'[v] = mem[v]
    BY <2>1 DEF Typed, ExportTypeOK
  <2>3. \A i \in Batch : i # b => parts'[e][i] = parts[e][i] BY <2>1, <1>2, <1>4
  <2>4. InPlace(parts'[e], b) /\ InPlace(parts'[e], saved[e].batch) BY <2>3, <1>4
  <2>5. QED BY <1>1, <1>2, <1>3, <2>2, <2>4, OwnPartsWhole DEF e, b
<1>9. CASE WritesPart(w)
  <2>1. /\ b \in Batch /\ parts' = [parts EXCEPT ![e][b] = b]
        /\ Goto(w, AfterBatch([mem[w] EXCEPT !.batch = b + 1], FALSE, FALSE))
    BY <1>9, <1>2 DEF WritesPart, e, b
  <2>2. [mem[w] EXCEPT !.batch = b + 1] \in State /\ [mem[w] EXCEPT !.batch = b + 1].batch = b + 1
    <3>1. b + 1 \in 1 .. BatchCount + 1 BY <2>1, Numbers
    <3>2. QED BY <3>1, <1>2, StatesTyped DEF State
  <2> DEFINE s == AfterBatch([mem[w] EXCEPT !.batch = b + 1], FALSE, FALSE)
  <2>3. s.node = "batch" /\ s.batch = b + 1 BY <2>2, <1>5
  <2> HIDE DEF s
  <2>4. /\ at'[w] = "node" /\ mem'[w] = s
        /\ \A v \in ExportWorkers : v # w => at'[v] = at[v] /\ mem'[v] = mem[v]
    BY <2>1, GotoIs DEF s
  <2>5. parts'[e][b] = b /\ \A i \in Batch : i # b => parts'[e][i] = parts[e][i]
    BY <2>1, <1>2, <1>4
  <2>6. InPlace(parts'[e], b) /\ InPlace(parts'[e], saved[e].batch) BY <2>5, <1>4
  <2>7. InPlace(parts'[e], b + 1)
    <3>1. ASSUME NEW i \in Batch, i < b + 1 PROVE parts'[e][i] \in {0, i}
      <4>1. CASE i = b BY <2>5, <4>1
      <4>2. CASE i # b
        <5>1. i < b BY <3>1, <4>2, <1>2, BatchesAssumption DEF Batch
        <5>2. QED BY <5>1, <2>6 DEF InPlace
      <4>3. QED BY <4>1, <4>2
    <3>2. QED BY <3>1 DEF InPlace
  <2>8. saved[e].batch =< b + 1 BY <1>2, BatchesAssumption
  <2>9. QED BY <1>1, <1>2, <1>3, <2>3, <2>4, <2>6, <2>7, <2>8, OwnPartsWhole DEF e
<1>10. CASE AttemptFails(w)
  <2>1. PICK left \in {0, Torn} : parts' = [parts EXCEPT ![e][b] = left]
    BY <1>10 DEF AttemptFails, e, b
  <2> DEFINE s == AfterBatch(mem[w], TRUE, FALSE)
  <2>2. Goto(w, mem[w]) \/ Goto(w, s) BY <1>10 DEF AttemptFails
  <2>3. s.node = "notify" /\ s.batch = b BY <1>2, <1>5 DEF b
  <2> HIDE DEF s
  <2>4. /\ at'[w] = "node" /\ (mem'[w] = mem[w] \/ mem'[w] = s)
        /\ \A v \in ExportWorkers : v # w => at'[v] = at[v] /\ mem'[v] = mem[v]
    BY <2>2, GotoIs
  <2>0. \A i \in Batch : i # b => parts'[e][i] = parts[e][i] BY <2>1, <1>2, <1>4
  <2>5. InPlace(parts'[e], b) /\ InPlace(parts'[e], saved[e].batch) BY <2>0, <1>4
  <2>6. mem'[w].batch = b /\ mem'[w].node \in {"batch", "notify"}
    BY <2>4, <2>3, <1>1 DEF b
  <2>7. QED BY <1>1, <1>2, <1>3, <2>4, <2>5, <2>6, OwnPartsWhole DEF e
<1>11. CASE QueryRefused(w)
  <2>1. Goto(w, AfterBatch(mem[w], TRUE, FALSE)) /\ parts' = parts BY <1>11 DEF QueryRefused
  <2> DEFINE s == AfterBatch(mem[w], TRUE, FALSE)
  <2>2. s.node = "notify" /\ s.batch = b BY <1>2, <1>5 DEF b
  <2> HIDE DEF s
  <2>3. /\ at'[w] = "node" /\ mem'[w] = s
        /\ \A v \in ExportWorkers : v # w => at'[v] = at[v] /\ mem'[v] = mem[v]
    BY <2>1, GotoIs DEF s
  <2>4. QED BY <1>1, <1>2, <1>3, <2>1, <2>2, <2>3, OwnPartsWhole DEF e
<1>12. QED BY <1>7, <1>8, <1>9, <1>10, <1>11

\* The steps of the merge, the publication and the end of the graph.
LEMMA NodeWhole ==
  ASSUME Typed, BuildInv, WholeInv, ~ OpensTaken, NEW w \in ExportWorkers,
         ChoosesName(w) \/ NamesRunOut(w) \/ OpensArtifact(w) \/ MergeEnds(w) \/ PartMissing(w)
         \/ MergeRaises(w) \/ Publish(w) \/ NotifyFailure(w) \/ Cleanup(w) \/ Returns(w)
         \/ NodeRaises(w)
  PROVE  WholeInv'
<1>1. at[w] \in {"node", "named", "merging"} /\ Driving(w)
  BY DEF ChoosesName, NamesRunOut, OpensArtifact, MergeEnds, PartMissing, MergeRaises, Publish,
         NotifyFailure, Cleanup, Returns, NodeRaises, InNode, Driving
<1>2. /\ Building(w) /\ on[w] \in Exports /\ mem[w] \in State
      /\ mem[w].batch \in 1 .. BatchCount + 1 /\ saved[on[w]].batch \in 1 .. BatchCount + 1
      /\ ~ exports[on[w]].lapsed
      /\ InPlace(parts[on[w]], mem[w].batch) /\ saved[on[w]].batch =< mem[w].batch
      /\ mem[w].node = "merge" => mem[w].batch = BatchCount + 1
      /\ InPlace(parts[on[w]], saved[on[w]].batch)
      /\ saved[on[w]].node = "merge" => saved[on[w]].batch = BatchCount + 1
      /\ mem[w].node = "publish" => Whole(files, on[w], mem[w].file)
      /\ saved[on[w]].node = "publish" => Whole(files, on[w], saved[on[w]].file)
      /\ exports[on[w]].status = "ready" => Whole(files, on[w], exports[on[w]].file)
  BY <1>1, DriverFacts
<1>3. /\ at[w] \in {"named", "merging"} => mem[w].node = "merge" /\ dest[w] \in Artifacts
      /\ at[w] = "merging" => files[dest[w]] = Fragment
      /\ \A v \in ExportWorkers : v # w /\ at[v] = "merging" =>
           files[dest[v]] = Fragment /\ (at[w] = "merging" => dest[v] # dest[w])
  BY DEF BuildInv, NodeFits, WholeInv, OpenFiles
<1>4. /\ UNCHANGED << on, jobs, saved, reaping, deleted >>
      /\ \A v \in ExportWorkers : v # w => at'[v] = at[v] /\ mem'[v] = mem[v] /\ dest'[v] = dest[v]
  <2>1. UNCHANGED << on, jobs, saved, reaping, deleted >>
    BY DEF ChoosesName, NamesRunOut, OpensArtifact, MergeEnds, PartMissing, MergeRaises,
           MergeFailed, Publish, NotifyFailure, Cleanup, Returns, NodeRaises, pickedVars
  <2>2. at' = [at EXCEPT ![w] = at'[w]]
    BY DEF ChoosesName, NamesRunOut, OpensArtifact, MergeEnds, PartMissing, MergeRaises,
           MergeFailed, Publish, NotifyFailure, Cleanup, Returns, NodeRaises, Goto, Typed, ExportTypeOK
  <2>3. mem' = [mem EXCEPT ![w] = mem'[w]]
    BY DEF ChoosesName, NamesRunOut, OpensArtifact, MergeEnds, PartMissing, MergeRaises,
           MergeFailed, Publish, NotifyFailure, Cleanup, Returns, NodeRaises, Goto, Typed, ExportTypeOK
  <2>4. dest' = [dest EXCEPT ![w] = dest'[w]]
    BY DEF ChoosesName, NamesRunOut, OpensArtifact, MergeEnds, PartMissing, MergeRaises,
           MergeFailed, Publish, NotifyFailure, Cleanup, Returns, NodeRaises, Typed, ExportTypeOK
  <2>5. QED BY <2>1, <2>2, <2>3, <2>4 DEF Typed, ExportTypeOK
<1>5. JobOver(on[w])' = JobOver(on[w]) BY <1>4 DEF JobOver
<1>6. /\ [mem[w] EXCEPT !.node = "cleanup"].node = "cleanup"
      /\ [mem[w] EXCEPT !.node = "cleanup"].batch = mem[w].batch
      /\ [mem[w] EXCEPT !.node = "end"].node = "end"
      /\ [mem[w] EXCEPT !.node = "end"].batch = mem[w].batch
      /\ [mem[w] EXCEPT !.node = "notify", !.failed = TRUE].node = "notify"
      /\ [mem[w] EXCEPT !.node = "notify", !.failed = TRUE].batch = mem[w].batch
      /\ [mem[w] EXCEPT !.node = "publish", !.file = dest[w]].node = "publish"
      /\ [mem[w] EXCEPT !.node = "publish", !.file = dest[w]].batch = mem[w].batch
      /\ [mem[w] EXCEPT !.node = "publish", !.file = dest[w]].file = dest[w]
  BY <1>2 DEF State
<1>7. CASE ChoosesName(w)
  <2>1. /\ mem[w].node = "merge" /\ mem' = mem /\ UNCHANGED << exports, parts, files >>
        /\ at' = [at EXCEPT ![w] = "named"]
    BY <1>7 DEF ChoosesName, InNode
  <2>2. dest'[w] \in Artifacts
    BY <1>7, <1>2, VariantsAreArtifacts DEF ChoosesName, FreeName, Typed, ExportTypeOK
  <2>3. at'[w] = "named" BY <2>1 DEF Typed, ExportTypeOK
  <2>4. Building(w)' BY <2>3 DEF Building
  <2>5. QED BY <1>2, <1>4, <1>5, <2>1, <2>2, <2>3, <2>4, InsideWhole
<1>8. CASE NamesRunOut(w) \/ Returns(w) \/ NodeRaises(w)
  <2>1. /\ mem' = mem /\ UNCHANGED << exports, parts, files >>
        /\ \E next \in {"raised", "hushed", "close"} : at' = [at EXCEPT ![w] = next]
    BY <1>8 DEF NamesRunOut, Returns, NodeRaises
  <2>2. at'[w] \in {"raised", "hushed", "close"} BY <2>1 DEF Typed, ExportTypeOK
  <2>3. QED BY <1>1, <1>2, <1>4, <2>1, <2>2, OwnPartsWhole
<1>9. CASE OpensArtifact(w)
  <2>1. /\ at[w] = "named" /\ files' = [files EXCEPT ![dest[w]] = Fragment]
        /\ at' = [at EXCEPT ![w] = "merging"] /\ UNCHANGED << mem, dest, exports, parts >>
    BY <1>9 DEF OpensArtifact
  <2>2. files[dest[w]] = NoFile BY <1>9 DEF OpensTaken
  <2>3. /\ dest[w] \in Artifacts /\ files'[dest[w]] = Fragment
        /\ \A f \in Artifacts : f # dest[w] => files'[f] = files[f]
        /\ at'[w] = "merging" /\ mem[w].node = "merge"
    BY <2>1, <1>3 DEF Typed, ExportTypeOK
  <2>4. files[dest[w]] \notin Exports
        /\ \A v \in ExportWorkers : v # w /\ at[v] = "merging" => dest[v] # dest[w]
    BY <2>2, <1>3, SentinelsAssumption
  <2>5. \A f \in Artifacts : Whole(files, on[w], f) => Whole(files', on[w], f)
    BY <2>3, <2>4, <1>2 DEF Whole
  <2>6. \A f : Whole(files, on[w], f) => Whole(files', on[w], f) BY <2>5 DEF Whole
  <2>7. Building(w)' BY <2>3 DEF Building
  <2>8. /\ ~ exports'[on[w]].lapsed
        /\ \A e \in Exports : e # on[w] =>
             parts'[e] = parts[e] /\ saved'[e] = saved[e] /\ exports'[e] = exports[e]
        /\ jobs' = jobs /\ \A e \in Exports : e # on[w] => jobs'[e] = jobs[e]
    BY <1>2, <1>4, <2>1
  <2>9. /\ InPlace(parts'[on[w]], mem'[w].batch) /\ saved'[on[w]].batch =< mem'[w].batch
        /\ mem'[w].node = "merge" => mem'[w].batch = BatchCount + 1
        /\ InPlace(parts'[on[w]], saved'[on[w]].batch)
        /\ saved'[on[w]].node = "merge" => saved'[on[w]].batch = BatchCount + 1
    BY <1>2, <1>4, <2>1
  <2>10. \A f \in Artifacts : files'[f] # files[f] =>
           files[f] \notin Exports /\ \A v \in ExportWorkers : v # w /\ at[v] = "merging" => dest[v] # f
    BY <2>3, <2>4
  <2>11. /\ mem'[w].node # "publish"
         /\ saved'[on[w]].node = "publish" => Whole(files', on[w], saved'[on[w]].file)
         /\ exports'[on[w]].status = "ready" => Whole(files', on[w], exports'[on[w]].file)
    BY <1>2, <1>4, <2>1, <2>3, <2>6
  <2>12. QED BY <1>2, <1>4, <2>1, <2>3, <2>4, <2>7, <2>8, <2>9, <2>10, <2>11, InsideWhole
<1>10. CASE MergeEnds(w)
  <2>1. /\ at[w] = "merging" /\ files' = [files EXCEPT ![dest[w]] = Merged(w)]
        /\ Goto(w, [mem[w] EXCEPT !.node = "publish", !.file = dest[w]])
        /\ UNCHANGED << exports, parts >> /\ \A b \in Listed(w) : parts[on[w]][b] # 0
    BY <1>10 DEF MergeEnds
  <2>2. Merged(w) = on[w]
    <3>1. mem[w].batch = BatchCount + 1 BY <2>1, <1>2, <1>3
    <3>2. \A b \in Batch : b < mem[w].batch BY <3>1, BatchesAssumption DEF Batch
    <3>3. \A b \in Batch : b \in Listed(w) BY <3>2 DEF Listed
    <3>4. \A b \in Batch : parts[on[w]][b] = b BY <2>1, <3>2, <3>3, <1>2 DEF InPlace
    <3>5. QED BY <3>3, <3>4 DEF Merged
  <2>0. at'[w] = "node" /\ mem'[w] = [mem[w] EXCEPT !.node = "publish", !.file = dest[w]]
    BY <2>1 DEF Goto, Typed, ExportTypeOK
  <2>3. /\ at'[w] = "node" /\ mem'[w].node = "publish" /\ mem'[w].batch = mem[w].batch
        /\ mem'[w].file = dest[w]
    BY <2>0, <1>6
  <2>4. /\ dest[w] \in Artifacts /\ files'[dest[w]] = on[w] /\ files[dest[w]] \notin Exports
        /\ \A f \in Artifacts : f # dest[w] => files'[f] = files[f]
        /\ \A v \in ExportWorkers : v # w /\ at[v] = "merging" => dest[v] # dest[w]
    BY <2>1, <2>2, <1>3, SentinelsAssumption DEF Typed, ExportTypeOK
  <2>5. \A f : Whole(files, on[w], f) => Whole(files', on[w], f)
    BY <2>4, <1>2 DEF Whole
  <2>6. Whole(files', on[w], mem'[w].file) BY <2>3, <2>4 DEF Whole
  <2>7. Building(w)' BY <2>3 DEF Building
  <2>8. /\ ~ exports'[on[w]].lapsed
        /\ \A e \in Exports : e # on[w] =>
             parts'[e] = parts[e] /\ saved'[e] = saved[e] /\ exports'[e] = exports[e]
        /\ jobs' = jobs /\ \A e \in Exports : e # on[w] => jobs'[e] = jobs[e]
    BY <1>2, <1>4, <2>1
  <2>9. /\ InPlace(parts'[on[w]], mem'[w].batch) /\ saved'[on[w]].batch =< mem'[w].batch
        /\ mem'[w].node = "merge" => mem'[w].batch = BatchCount + 1
        /\ InPlace(parts'[on[w]], saved'[on[w]].batch)
        /\ saved'[on[w]].node = "merge" => saved'[on[w]].batch = BatchCount + 1
    BY <1>2, <1>4, <2>1, <2>3
  <2>10. \A f \in Artifacts : files'[f] # files[f] =>
           files[f] \notin Exports /\ \A v \in ExportWorkers : v # w /\ at[v] = "merging" => dest[v] # f
    BY <2>3, <2>4
  <2>11. /\ Whole(files', on[w], mem'[w].file)
         /\ saved'[on[w]].node = "publish" => Whole(files', on[w], saved'[on[w]].file)
         /\ exports'[on[w]].status = "ready" => Whole(files', on[w], exports'[on[w]].file)
    BY <1>2, <1>4, <2>1, <2>5, <2>6
  <2>12. QED BY <1>2, <1>4, <2>1, <2>3, <2>4, <2>7, <2>8, <2>9, <2>10, <2>11, InsideWhole
<1>11. CASE PartMissing(w) \/ MergeRaises(w)
  <2>1. /\ Goto(w, [mem[w] EXCEPT !.node = "notify", !.failed = TRUE])
        /\ UNCHANGED << exports, parts, files >>
    BY <1>11 DEF PartMissing, MergeRaises, MergeFailed
  <2>0. at'[w] = "node" /\ mem'[w] = [mem[w] EXCEPT !.node = "notify", !.failed = TRUE]
    BY <2>1 DEF Goto, Typed, ExportTypeOK
  <2>2. at'[w] = "node" /\ mem'[w].node = "notify" /\ mem'[w].batch = mem[w].batch
    BY <2>0, <1>6
  <2>3. QED BY <1>1, <1>2, <1>4, <2>1, <2>2, OwnPartsWhole
<1>12. CASE Publish(w) \/ NotifyFailure(w)
  <2>1. Goto(w, [mem[w] EXCEPT !.node = "cleanup"]) /\ UNCHANGED << parts, files >>
    BY <1>12 DEF Publish, NotifyFailure
  <2>0. at'[w] = "node" /\ mem'[w] = [mem[w] EXCEPT !.node = "cleanup"]
    BY <2>1 DEF Goto, Typed, ExportTypeOK
  <2>2. at'[w] = "node" /\ mem'[w].node = "cleanup" /\ mem'[w].batch = mem[w].batch
    BY <2>0, <1>6
  <2>3. /\ \A e \in Exports : e # on[w] => exports'[e] = exports[e]
        /\ ~ exports'[on[w]].lapsed
        /\ exports'[on[w]].status = "ready" => Whole(files, on[w], exports'[on[w]].file)
    <3>1. exports \in [Exports -> ExportRow] /\ exports[on[w]] \in ExportRow
      BY <1>2 DEF Typed, ExportTypeOK
    <3>2. CASE Publish(w) BY <3>1, <3>2, <1>2 DEF Publish, InNode
    <3>3. CASE NotifyFailure(w)
      <4>1. CASE exports' = exports BY <4>1, <1>2
      <4>2. CASE exports' = [exports EXCEPT ![on[w]].status = "failed", ![on[w]].message = TRUE]
        BY <3>1, <4>2, <1>2 DEF ExportRow
      <4>3. QED BY <3>3, <4>1, <4>2 DEF NotifyFailure
    <3>4. QED BY <1>12, <3>2, <3>3
  <2>4. Building(w)' BY <2>2 DEF Building
  <2>5. QED BY <1>2, <1>4, <1>5, <2>1, <2>2, <2>3, <2>4, InsideWhole
<1>13. CASE Cleanup(w)
  <2>1. /\ Goto(w, [mem[w] EXCEPT !.node = "end"]) /\ UNCHANGED << exports, files >>
        /\ parts' = [parts EXCEPT ![on[w]] = NoParts]
    BY <1>13 DEF Cleanup
  <2>0. at'[w] = "node" /\ mem'[w] = [mem[w] EXCEPT !.node = "end"]
    BY <2>1 DEF Goto, Typed, ExportTypeOK
  <2>2. at'[w] = "node" /\ mem'[w].node = "end" /\ mem'[w].batch = mem[w].batch
    BY <2>0, <1>6
  <2>3. /\ parts'[on[w]] = NoParts /\ \A e \in Exports : e # on[w] => parts'[e] = parts[e]
    BY <2>1, <1>2 DEF Typed, ExportTypeOK
  <2>4. \A n : InPlace(NoParts, n) BY DEF InPlace, NoParts
  <2>5. QED BY <1>1, <1>2, <1>4, <2>1, <2>2, <2>3, <2>4, OwnPartsWhole
<1>14. QED BY <1>7, <1>8, <1>9, <1>10, <1>11, <1>12, <1>13

\* A worker that lets go of its export, or ends with none.
LEMMA LeavesWhole ==
  ASSUME Typed, BuildInv, WholeInv, NEW w \in ExportWorkers, NEW next \in {"idle", "down"},
         Leaves(w, next), UNCHANGED << saved, parts, files, reaping, deleted >>,
         \A e \in Exports :
           \/ exports'[e] = exports[e] /\ (jobs'[e] = jobs[e] \/ JobOver(e)')
           \/ jobs'[e] = jobs[e] /\ Held(e) /\ exports'[e].status = "failed" /\ ~ exports'[e].lapsed
  PROVE  WholeInv'
<1>1. /\ at'[w] = next /\ on'[w] = NoExport
      /\ \A v \in ExportWorkers : v # w => at'[v] = at[v] /\ mem'[v] = mem[v] /\ on'[v] = on[v]
                                           /\ dest'[v] = dest[v]
  BY DEF Leaves, Typed, ExportTypeOK
<1>2. \A e \in Exports : Held(e)' => Held(e)
  BY <1>1, SentinelsAssumption DEF Held
<1>3. \A e \in Exports : JobOver(e) => JobOver(e)' BY DEF JobOver
<1>4. PartsInPlace' BY <1>1 DEF WholeInv, PartsInPlace, Driving
<1>5. OpenFiles' BY <1>1 DEF WholeInv, OpenFiles
<1>6. ArtifactsStay'
  <2>1. \A v \in ExportWorkers : Driving(v)' /\ mem'[v].node = "publish" => Whole(files', on'[v], mem'[v].file)
    BY <1>1 DEF WholeInv, ArtifactsStay, Driving
  <2>2. \A e \in Exports :
           /\ saved'[e].node = "publish" /\ ~ JobOver(e)' => Whole(files', e, saved'[e].file)
           /\ exports'[e].status = "ready" /\ deleted' # e => Whole(files', e, exports'[e].file)
    BY <1>3 DEF WholeInv, ArtifactsStay
  <2>3. QED BY <2>1, <2>2 DEF ArtifactsStay
<1>7. SweptRows'
  <2>1. ASSUME NEW e \in Exports, exports'[e] = exports[e], jobs'[e] = jobs[e] \/ JobOver(e)'
        PROVE  /\ exports'[e].status = "ready" => jobs'[e].status \notin {"none", "queued"}
               /\ exports'[e].lapsed => JobOver(e)' /\ ~ Held(e)' /\ exports'[e].status # "absent"
               /\ reaping'[e] # NoFile => /\ exports'[e].status = "ready" /\ exports'[e].lapsed
                                          /\ reaping'[e] = exports'[e].file
               /\ deleted' = e => reaping'[e] # NoFile
    BY <2>1, <1>2, <1>3 DEF WholeInv, SweptRows, JobOver
  <2>2. ASSUME NEW e \in Exports, Held(e), exports'[e].status = "failed", ~ exports'[e].lapsed
        PROVE  /\ exports'[e].status = "ready" => jobs'[e].status \notin {"none", "queued"}
               /\ exports'[e].lapsed => JobOver(e)' /\ ~ Held(e)' /\ exports'[e].status # "absent"
               /\ reaping'[e] # NoFile => /\ exports'[e].status = "ready" /\ exports'[e].lapsed
                                          /\ reaping'[e] = exports'[e].file
               /\ deleted' = e => reaping'[e] # NoFile
    BY <2>2 DEF WholeInv, SweptRows
  <2>3. QED BY <2>1, <2>2 DEF SweptRows
<1>8. QED BY <1>4, <1>5, <1>6, <1>7 DEF WholeInv

LEMMA QueueWhole ==
  ASSUME Typed, BuildInv, WholeInv, NEW w \in ExportWorkers,
         RequeueSelect(w) \/ RequeueWrite(w) \/ RequeueRaises(w)
         \/ (\E e \in Exports : Claim(w, e)) \/ Begin(w) \/ Return(w)
         \/ Finish(w) \/ FinishRaised(w) \/ FinishHushed(w) \/ MarkFailed(w)
         \/ DrainRaises(w) \/ Dead(w) \/ SaveCheckpoint(w),
         RequeueWrite(w) => stale[w] \subseteq StaleJobs
  PROVE  WholeInv'
<1>1. CASE RequeueWrite(w)
  <2>1. UNCHANGED << at, on, mem, dest, saved, parts, files, reaping, deleted >>
    BY <1>1 DEF RequeueWrite, graphVars
  <2>2. /\ \A e \in Exports : e \notin stale[w] => jobs'[e] = jobs[e] /\ exports'[e] = exports[e]
        /\ \A e \in stale[w] : /\ e \in Exports /\ jobs[e].status = "running"
                               /\ exports'[e].status = "queued" /\ exports'[e].lapsed = exports[e].lapsed
    <3>1. \A e \in Exports : exports[e] \in ExportRow BY DEF Typed, ExportTypeOK
    <3>2. QED BY <1>1, <3>1 DEF RequeueWrite, Requeued, StaleJobs, ExportRow
  <2>3. \A e \in stale[w] : ~ JobOver(e) /\ ~ exports[e].lapsed
    BY <2>2 DEF WholeInv, SweptRows, JobOver
  <2>4. \A e \in Exports : Held(e)' = Held(e) BY <2>1 DEF Held
  <2>5. \A e \in Exports : e \notin stale[w] => JobOver(e)' = JobOver(e) BY <2>2 DEF JobOver
  <2>6. PartsInPlace' /\ OpenFiles' BY <2>1 DEF WholeInv, PartsInPlace, OpenFiles, Driving
  <2>7. ArtifactsStay' BY <2>1, <2>2, <2>3, <2>5 DEF WholeInv, ArtifactsStay, Driving
  <2>8. SweptRows' BY <2>1, <2>2, <2>3, <2>4, <2>5 DEF WholeInv, SweptRows
  <2>9. QED BY <2>6, <2>7, <2>8 DEF WholeInv
<1>2. ASSUME NEW e \in Exports, Claim(w, e) PROVE WholeInv'
  <2>1. /\ jobs[e].status = "queued" /\ jobs'[e].status = "running"
        /\ \A d \in Exports : d # e => jobs'[d] = jobs[d]
        /\ at'[w] = "claimed" /\ \A v \in ExportWorkers : v # w => at'[v] = at[v] /\ on'[v] = on[v]
        /\ on'[w] = e
        /\ UNCHANGED << exports, mem, dest, saved, parts, files, reaping, deleted >>
    BY <1>2 DEF Claim, Typed, ExportTypeOK, pickedVars
  <2>2. \A d \in Exports : JobOver(d)' = JobOver(d) BY <2>1 DEF JobOver
  <2>3. \A d \in Exports : d # e /\ Held(d)' => Held(d) BY <2>1 DEF Held
  <2>4. exports[e].status # "ready" /\ ~ exports[e].lapsed
    BY <2>1 DEF WholeInv, SweptRows, JobOver
  <2>5. PartsInPlace' /\ OpenFiles' BY <2>1 DEF WholeInv, PartsInPlace, OpenFiles, Driving
  <2>6. ArtifactsStay' BY <2>1, <2>2 DEF WholeInv, ArtifactsStay, Driving
  <2>7. SweptRows' BY <2>1, <2>2, <2>3, <2>4 DEF WholeInv, SweptRows
  <2>8. QED BY <2>5, <2>6, <2>7 DEF WholeInv
<1>3. CASE Begin(w)
  <2>1. Building(w) /\ at[w] = "claimed" BY <1>3 DEF Begin, Building
  <2>2. on[w] \in Exports /\ saved[on[w]] \in State /\ ~ exports[on[w]].lapsed
        /\ exports[on[w]] \in ExportRow /\ jobs[on[w]].status = "running"
    <3>1. on[w] \in Exports /\ ~ exports[on[w]].lapsed BY <2>1, HeldIsNotSwept
    <3>2. saved[on[w]] \in State /\ exports[on[w]] \in ExportRow
      BY <3>1 DEF Typed, ExportTypeOK
    <3>3. jobs[on[w]].status = "running" BY <2>1 DEF BuildInv, SoleBuilder
    <3>4. QED BY <3>1, <3>2, <3>3
  <2>3. /\ at'[w] = "node" /\ mem'[w] = Resumed(saved[on[w]])
        /\ \A v \in ExportWorkers : v # w => at'[v] = at[v] /\ mem'[v] = mem[v] /\ dest'[v] = dest[v]
        /\ UNCHANGED << on, jobs, dest, saved, parts, files, reaping, deleted >>
    BY <1>3 DEF Begin, Typed, ExportTypeOK, pickedVars
  <2>4. /\ exports'[on[w]].status = "building" /\ ~ exports'[on[w]].lapsed
        /\ \A e \in Exports : e # on[w] => exports'[e] = exports[e]
    BY <1>3, <2>2 DEF Begin, SetStatus, Typed, ExportTypeOK, ExportRow
  <2>5. /\ Resumed(saved[on[w]]).batch = saved[on[w]].batch
        /\ Resumed(saved[on[w]]).file = saved[on[w]].file
        /\ Resumed(saved[on[w]]).node \in {"merge", "publish"} =>
             Resumed(saved[on[w]]).node = saved[on[w]].node
    BY <2>2 DEF Resumed, State
  <2>6. /\ InPlace(parts[on[w]], saved[on[w]].batch)
        /\ saved[on[w]].node = "merge" => saved[on[w]].batch = BatchCount + 1
        /\ saved[on[w]].node = "publish" => Whole(files, on[w], saved[on[w]].file)
        /\ saved[on[w]].batch =< saved[on[w]].batch
    <3>1. saved[on[w]].batch \in 1 .. BatchCount + 1 BY <2>2, StatesTyped
    <3>2. saved[on[w]].batch =< saved[on[w]].batch BY <3>1, BatchesAssumption
    <3>3. QED BY <2>2, <3>2 DEF WholeInv, PartsInPlace, ArtifactsStay, JobOver
  <2>7. Building(w)' BY <2>3 DEF Building
  <2>8. QED BY <2>1, <2>3, <2>4, <2>5, <2>6, <2>7, InsideWhole
<1>4. CASE Return(w)
  <2>1. /\ UNCHANGED << exports, jobs, on, mem, dest, saved, parts, files, reaping, deleted >>
        /\ at'[w] = "idle" /\ \A v \in ExportWorkers : v # w => at'[v] = at[v]
    BY <1>4 DEF Return, Typed, ExportTypeOK, pickedVars
  <2>2. \A e \in Exports : Held(e)' = Held(e) /\ JobOver(e)' = JobOver(e)
    BY <2>1 DEF Held, JobOver
  <2>3. PartsInPlace' /\ OpenFiles' BY <2>1 DEF WholeInv, PartsInPlace, OpenFiles, Driving
  <2>4. ArtifactsStay' BY <2>1, <2>2 DEF WholeInv, ArtifactsStay, Driving
  <2>5. SweptRows' BY <2>1, <2>2 DEF WholeInv, SweptRows
  <2>6. QED BY <2>3, <2>4, <2>5 DEF WholeInv
<1>5. CASE Finish(w)
  <2>1. Building(w) BY <1>5 DEF Finish, Building
  <2>2. on[w] \in Exports BY <2>1, BuilderHolds DEF Building
  <2>3. \A e \in Exports : jobs'[e] = jobs[e] \/ JobOver(e)'
    BY <1>5, <2>2 DEF Finish, CloseJob, JobOver, Typed, ExportTypeOK
  <2>4. QED BY <1>5, <2>3, LeavesWhole DEF Finish, pickedVars
<1>6. CASE FinishRaised(w)
  <2>1. Building(w) /\ at[w] = "raised" BY <1>6 DEF FinishRaised, Building
  <2>2. on[w] \in Exports /\ ~ exports[on[w]].lapsed /\ deleted # on[w]
    BY <2>1, HeldIsNotSwept
  <2>3. /\ at'[w] = "mark" /\ jobs'[on[w]].status = "failed"
        /\ \A v \in ExportWorkers : v # w => at'[v] = at[v] /\ mem'[v] = mem[v] /\ dest'[v] = dest[v]
        /\ \A e \in Exports : e # on[w] => jobs'[e] = jobs[e]
        /\ UNCHANGED << exports, on, mem, dest, saved, parts, files, reaping, deleted >>
    BY <1>6, <2>2 DEF FinishRaised, CloseJob, Typed, ExportTypeOK, pickedVars
  <2>4. /\ InPlace(parts[on[w]], saved[on[w]].batch)
        /\ saved[on[w]].node = "merge" => saved[on[w]].batch = BatchCount + 1
        /\ exports[on[w]].status = "ready" => Whole(files, on[w], exports[on[w]].file)
    BY <2>2 DEF WholeInv, PartsInPlace, ArtifactsStay
  <2>5. JobOver(on[w])' /\ ~ Driving(w)' /\ Building(w)'
    BY <2>3 DEF JobOver, Driving, Building
  <2>6. QED BY <2>1, <2>2, <2>3, <2>4, <2>5, InsideWhole
<1>7. CASE MarkFailed(w)
  <2>1. Building(w) BY <1>7 DEF MarkFailed, Building
  <2>2. on[w] \in Exports /\ Held(on[w]) /\ ~ exports[on[w]].lapsed /\ exports[on[w]] \in ExportRow
    BY <2>1, HeldIsNotSwept DEF Typed, ExportTypeOK
  <2>3. \A e \in Exports : \/ exports'[e] = exports[e]
                           \/ Held(e) /\ exports'[e].status = "failed" /\ ~ exports'[e].lapsed
    BY <1>7, <2>2 DEF MarkFailed, Typed, ExportTypeOK, ExportRow
  <2>4. QED BY <1>7, <2>3, LeavesWhole DEF MarkFailed, pickedVars
<1>8. CASE DrainRaises(w) BY <1>8, LeavesWhole DEF DrainRaises, pickedVars
<1>9. CASE Dead(w) BY <1>9, LeavesWhole DEF Dead, pickedVars
<1>10. CASE SaveCheckpoint(w)
  <2>1. Driving(w) BY <1>10 DEF SaveCheckpoint, Running, Driving
  <2>2. /\ Building(w) /\ on[w] \in Exports /\ ~ exports[on[w]].lapsed
        /\ mem[w].batch \in 1 .. BatchCount + 1
        /\ InPlace(parts[on[w]], mem[w].batch)
        /\ mem[w].node = "merge" => mem[w].batch = BatchCount + 1
        /\ mem[w].node = "publish" => Whole(files, on[w], mem[w].file)
        /\ exports[on[w]].status = "ready" => Whole(files, on[w], exports[on[w]].file)
    BY <2>1, DriverFacts
  <2>3. /\ saved'[on[w]] = mem[w] /\ \A e \in Exports : e # on[w] => saved'[e] = saved[e]
        /\ UNCHANGED << exports, jobs, at, on, mem, dest, parts, files, reaping, deleted >>
    BY <1>10, <2>2 DEF SaveCheckpoint, graphVars, pickedVars, Typed, ExportTypeOK
  <2>4. Building(w)' /\ mem[w].batch =< mem[w].batch
    BY <2>2, <2>3, BatchesAssumption DEF Building
  <2>5. at[w] = "merging" => dest[w] \in Artifacts /\ files[dest[w]] = Fragment
    BY DEF WholeInv, OpenFiles
  <2>6. \A v \in ExportWorkers : v # w /\ at[v] = "merging" /\ at[w] = "merging" => dest[v] # dest[w]
    BY DEF WholeInv, OpenFiles
  <2>7. at[w] = "named" => dest[w] \in Artifacts BY DEF WholeInv, OpenFiles
  <2>8. QED BY <2>2, <2>3, <2>4, <2>5, <2>6, <2>7, InsideWhole
<1>11. CASE RequeueSelect(w) \/ RequeueRaises(w)
  <2>1. UNCHANGED << exports, jobs, at, on, mem, dest, saved, parts, files, reaping, deleted >>
    BY <1>11 DEF RequeueSelect, RequeueRaises, graphVars
  <2>2. \A e \in Exports : Held(e)' = Held(e) /\ JobOver(e)' = JobOver(e)
    BY <2>1 DEF Held, JobOver
  <2>3. PartsInPlace' /\ OpenFiles' BY <2>1 DEF WholeInv, PartsInPlace, OpenFiles, Driving
  <2>4. ArtifactsStay' BY <2>1, <2>2 DEF WholeInv, ArtifactsStay, Driving
  <2>5. SweptRows' BY <2>1, <2>2 DEF WholeInv, SweptRows
  <2>6. QED BY <2>3, <2>4, <2>5 DEF WholeInv
<1>12. CASE FinishHushed(w)
  <2>1. Building(w) BY <1>12 DEF FinishHushed, Building
  <2>2. on[w] \in Exports BY <2>1, BuilderHolds DEF Building
  <2>3. \A e \in Exports : jobs'[e] = jobs[e] \/ JobOver(e)'
    BY <1>12, <2>2 DEF FinishHushed, CloseJob, JobOver, Typed, ExportTypeOK
  <2>4. QED BY <1>12, <2>3, LeavesWhole DEF FinishHushed, pickedVars
<1>13. QED
  BY <1>1, <1>2, <1>3, <1>4, <1>5, <1>6, <1>7, <1>8, <1>9, <1>10, <1>11, <1>12

\* The conversation, the clocks and the reaper.
LEMMA ExportActionWhole ==
  ASSUME Typed, BuildInv, WholeInv, NEW e \in Exports, ExportAction(e) PROVE WholeInv'
<1>1. /\ jobs[e].status = "none" => \A w \in ExportWorkers : Building(w) => on[w] # e
      /\ \A w \in ExportWorkers : Driving(w) => Building(w) /\ on[w] \in Exports
  <2>1. \A w \in ExportWorkers : Building(w) => on[w] \in Exports BY BuilderHolds DEF Building
  <2>2. QED BY <2>1 DEF BuildInv, SoleBuilder, Driving, Building
<1>2. exports[e] \in ExportRow /\ exports \in [Exports -> ExportRow] /\ jobs \in [Exports -> JobRow]
  BY DEF Typed, ExportTypeOK
<1>3. CASE Offer(e) \/ Refuse(e)
  <2>1. exports[e].status = "absent" /\ jobs[e].status = "none" /\ ~ JobOver(e)
    BY <1>3 DEF Offer, Refuse, BuildInv, NothingYet, JobOver
  <2>2. /\ UNCHANGED << jobs, at, on, mem, dest, parts, files, reaping, deleted >>
        /\ exports'[e].status \in {"offered", "failed"} /\ exports'[e].lapsed = exports[e].lapsed
        /\ \A d \in Exports : d # e => exports'[d] = exports[d] /\ saved'[d] = saved[d]
        /\ saved'[e].batch = 1 /\ saved'[e].node \in {"confirm", "end"}
    <3>1. saved \in [Exports -> State] BY DEF Typed, ExportTypeOK
    <3>2. CASE Offer(e)
      BY <1>2, <3>1, <3>2 DEF Offer, SetStatus, ExportRow, Paused, graphVars, pickedVars
    <3>3. CASE Refuse(e)
      BY <1>2, <3>1, <3>3 DEF Refuse, ExportRow, Paused, graphVars, pickedVars
    <3>4. QED BY <1>3, <3>2, <3>3
  <2>3. \A w \in ExportWorkers : Driving(w) => on[w] # e BY <1>1, <2>1
  <2>4. \A d \in Exports : Held(d)' = Held(d) /\ JobOver(d)' = JobOver(d)
    BY <2>2 DEF Held, JobOver
  <2>5. InPlace(parts[e], 1) BY BatchesAssumption DEF InPlace, Batch
  <2>6. PartsInPlace'
    <3>1. \A w \in ExportWorkers : Driving(w)' = Driving(w) BY <2>2 DEF Driving
    <3>2. QED BY <1>1, <2>2, <2>3, <2>5, <3>1 DEF WholeInv, PartsInPlace
  <2>7. OpenFiles' BY <2>2 DEF WholeInv, OpenFiles
  <2>8. ArtifactsStay' BY <2>2, <2>3, <2>4 DEF WholeInv, ArtifactsStay, Driving
  <2>9. SweptRows' BY <2>1, <2>2, <2>4 DEF WholeInv, SweptRows
  <2>10. QED BY <2>6, <2>7, <2>8, <2>9 DEF WholeInv
<1>4. ASSUME UNCHANGED << at, on, mem, dest, saved, parts, files, reaping, deleted >>,
             \A d \in Exports : d # e => jobs'[d] = jobs[d] /\ exports'[d] = exports[d],
             exports'[e].status = exports[e].status \/ exports'[e].status = "queued",
             exports'[e].file = exports[e].file, JobOver(e)' = JobOver(e),
             exports'[e].lapsed => JobOver(e) /\ ~ Held(e) /\ exports'[e].status # "absent",
             exports[e].lapsed => exports'[e].lapsed /\ exports'[e].status = exports[e].status,
             exports'[e].status = "ready" => jobs'[e].status \notin {"none", "queued"}
      PROVE  WholeInv'
  <2>1. \A d \in Exports : Held(d)' = Held(d) /\ (d # e => JobOver(d)' = JobOver(d))
    BY <1>4 DEF Held, JobOver
  <2>2. PartsInPlace' /\ OpenFiles' BY <1>4 DEF WholeInv, PartsInPlace, OpenFiles, Driving
  <2>3. ArtifactsStay' BY <1>4, <2>1 DEF WholeInv, ArtifactsStay, Driving
  <2>4. SweptRows' BY <1>4, <2>1 DEF WholeInv, SweptRows
  <2>5. QED BY <2>2, <2>3, <2>4 DEF WholeInv
<1>5. /\ exports[e].status = "ready" => jobs[e].status \notin {"none", "queued"}
      /\ exports[e].lapsed => JobOver(e) /\ ~ Held(e) /\ exports[e].status # "absent"
      /\ asker[e] # "done" => jobs[e].status = "none"
  BY DEF WholeInv, SweptRows, BuildInv, NothingYet
<1>6. CASE ConfirmReads(e) \/ RequestDies(e)
  <2>1. UNCHANGED << exports, jobs, at, on, mem, dest, saved, parts, files, reaping, deleted >>
    BY <1>6 DEF ConfirmReads, RequestDies, graphVars, pickedVars
  <2>2. JobOver(e)' = JobOver(e) BY <2>1 DEF JobOver
  <2>3. QED BY <1>4, <1>5, <2>1, <2>2
<1>7. CASE ConfirmMarks(e)
  <2>1. /\ UNCHANGED << jobs, at, on, mem, dest, saved, parts, files, reaping, deleted >>
        /\ exports'[e].status = "queued" /\ exports'[e].lapsed = exports[e].lapsed
        /\ exports'[e].file = exports[e].file
        /\ \A d \in Exports : d # e => exports'[d] = exports[d]
    BY <1>2, <1>7 DEF ConfirmMarks, SetStatus, ExportRow, graphVars, pickedVars
  <2>2. ~ exports[e].lapsed BY <1>5, <1>7 DEF ConfirmMarks, JobOver
  <2>3. JobOver(e)' = JobOver(e) BY <2>1 DEF JobOver
  <2>4. QED BY <1>4, <2>1, <2>2, <2>3
<1>8. CASE ConfirmQueues(e)
  <2>1. /\ UNCHANGED << exports, at, on, mem, dest, saved, parts, files, reaping, deleted >>
        /\ jobs'[e].status = "queued" /\ jobs[e].status = "none"
        /\ \A d \in Exports : d # e => jobs'[d] = jobs[d]
    BY <1>2, <1>5, <1>8 DEF ConfirmQueues, JobRow, graphVars, pickedVars
  <2>2. JobOver(e)' = JobOver(e) /\ ~ JobOver(e) BY <2>1 DEF JobOver
  <2>3. QED BY <1>4, <1>5, <2>1, <2>2
<1>9. CASE JobLapses(e)
  <2>1. /\ UNCHANGED << exports, at, on, mem, dest, saved, parts, files, reaping, deleted >>
        /\ jobs'[e].status = jobs[e].status /\ \A d \in Exports : d # e => jobs'[d] = jobs[d]
    BY <1>2, <1>9 DEF JobLapses, JobRow, graphVars, pickedVars
  <2>2. JobOver(e)' = JobOver(e) BY <2>1 DEF JobOver
  <2>3. QED BY <1>4, <1>5, <2>1, <2>2
<1>10. CASE TimeIsUp(e)
  <2>1. /\ UNCHANGED << jobs, at, on, mem, dest, saved, parts, files, reaping, deleted >>
        /\ exports[e].status = "ready" /\ jobs[e].status # "running" /\ ~ Held(e)
        /\ exports'[e].status = "ready" /\ exports'[e].lapsed /\ exports'[e].file = exports[e].file
        /\ \A d \in Exports : d # e => exports'[d] = exports[d]
    BY <1>2, <1>10 DEF TimeIsUp, ExportRow, graphVars, pickedVars
  <2>2. JobOver(e)
    <3>1. jobs[e].status \in JobStatus BY <1>2 DEF JobRow
    <3>2. QED BY <1>5, <2>1, <3>1 DEF JobOver, JobStatus
  <2>3. JobOver(e)' = JobOver(e) BY <2>1 DEF JobOver
  <2>4. QED BY <1>4, <1>5, <2>1, <2>2, <2>3
<1>11. CASE ReaperDeletes(e)
  <2>1. /\ reaping[e] # NoFile /\ deleted = NoExport
        /\ UNCHANGED << exports, jobs, at, on, mem, dest, saved, reaping >> /\ deleted' = e
        /\ parts'[e] = NoParts /\ \A d \in Exports : d # e => parts'[d] = parts[d]
        /\ files' = [files EXCEPT ![reaping[e]] = NoFile]
    BY <1>11 DEF ReaperDeletes, graphVars, Typed, ExportTypeOK
  <2>2. /\ exports[e].status = "ready" /\ exports[e].lapsed /\ reaping[e] = exports[e].file
        /\ JobOver(e) /\ ~ Held(e) /\ e # NoExport
    BY <2>1, SentinelsAssumption DEF WholeInv, SweptRows
  <2>3. Whole(files, e, reaping[e]) BY <2>1, <2>2 DEF WholeInv, ArtifactsStay
  <2>4. /\ \A f \in Artifacts : f # reaping[e] => files'[f] = files[f]
        /\ \A d \in Exports : \A f : d # e /\ Whole(files, d, f) => Whole(files', d, f)
    <3>1. \A f \in Artifacts : f # reaping[e] => files'[f] = files[f]
      BY <2>1 DEF Typed, ExportTypeOK
    <3>2. QED BY <3>1, <2>3 DEF Whole
  <2>5. \A w \in ExportWorkers : Driving(w) => on[w] # e BY <2>2 DEF Held
  <2>6. \A d \in Exports : Held(d)' = Held(d) /\ JobOver(d)' = JobOver(d)
    BY <2>1 DEF Held, JobOver
  <2>7. PartsInPlace'
    <3>1. \A n : InPlace(NoParts, n) BY DEF InPlace, NoParts
    <3>2. \A w \in ExportWorkers : Driving(w)' = Driving(w) BY <2>1 DEF Driving
    <3>3. QED BY <1>1, <2>1, <2>5, <3>1, <3>2 DEF WholeInv, PartsInPlace
  <2>8. OpenFiles'
    <3>1. \A w \in ExportWorkers : at[w] = "merging" => dest[w] # reaping[e]
      BY <2>3, SentinelsAssumption DEF Whole, WholeInv, OpenFiles
    <3>2. QED BY <2>1, <2>4, <3>1 DEF WholeInv, OpenFiles
  <2>9. ArtifactsStay'
    <3>1. \A w \in ExportWorkers : Driving(w)' = Driving(w) BY <2>1 DEF Driving
    <3>2. \A d \in Exports : d # e => d # deleted BY <2>1, SentinelsAssumption
    <3>3. QED BY <1>1, <2>1, <2>2, <2>4, <2>5, <2>6, <3>1, <3>2 DEF WholeInv, ArtifactsStay
  <2>10. SweptRows' BY <2>1, <2>6 DEF WholeInv, SweptRows
  <2>11. QED BY <2>7, <2>8, <2>9, <2>10 DEF WholeInv
<1>12. CASE ReaperMarks(e)
  <2>1. /\ deleted = e /\ deleted' = NoExport
        /\ exports'[e].status = "expired" /\ exports'[e].lapsed = exports[e].lapsed
        /\ \A d \in Exports : d # e => exports'[d] = exports[d] /\ reaping'[d] = reaping[d]
        /\ reaping'[e] = NoFile
        /\ UNCHANGED << jobs, at, on, mem, dest, saved, parts, files >>
    BY <1>2, <1>12 DEF ReaperMarks, ExportRow, graphVars, Typed, ExportTypeOK
  <2>2. \A d \in Exports : Held(d)' = Held(d) /\ JobOver(d)' = JobOver(d)
    BY <2>1 DEF Held, JobOver
  <2>3. PartsInPlace' /\ OpenFiles' BY <2>1 DEF WholeInv, PartsInPlace, OpenFiles, Driving
  <2>4. ArtifactsStay' BY <2>1, <2>2 DEF WholeInv, ArtifactsStay, Driving
  <2>5. SweptRows' BY <2>1, <2>2, SentinelsAssumption DEF WholeInv, SweptRows
  <2>6. QED BY <2>3, <2>4, <2>5 DEF WholeInv
<1>13. QED
  BY <1>3, <1>6, <1>7, <1>8, <1>9, <1>10, <1>11, <1>12 DEF ExportAction

LEMMA SweepWhole ==
  ASSUME Typed, BuildInv, WholeInv, ~ TornSweep, ReaperSelects \/ SweepBreaks PROVE WholeInv'
<1>1. /\ UNCHANGED << exports, jobs, at, on, mem, dest, saved, parts, files >>
      /\ deleted = NoExport /\ deleted' = NoExport
      /\ \A e \in Exports : reaping'[e] # NoFile =>
           exports[e].status = "ready" /\ exports[e].lapsed /\ reaping'[e] = exports[e].file
  <2>1. CASE ReaperSelects
    <3>1. deleted = NoExport BY <2>1 DEF ReaperSelects, WholeInv, SweptRows, Typed, ExportTypeOK
    <3>2. QED BY <2>1, <3>1 DEF ReaperSelects, graphVars
  <2>2. CASE SweepBreaks BY <2>2 DEF SweepBreaks, TornSweep, graphVars
  <2>3. QED BY <2>1, <2>2
<1>2. \A d \in Exports : Held(d)' = Held(d) /\ JobOver(d)' = JobOver(d)
  BY <1>1 DEF Held, JobOver
<1>3. PartsInPlace' /\ OpenFiles' BY <1>1 DEF WholeInv, PartsInPlace, OpenFiles, Driving
<1>4. ArtifactsStay' BY <1>1, <1>2 DEF WholeInv, ArtifactsStay, Driving
<1>5. SweptRows' BY <1>1, <1>2, SentinelsAssumption DEF WholeInv, SweptRows
<1>6. QED BY <1>3, <1>4, <1>5 DEF WholeInv

LEMMA WholeStep ==
  ASSUME Typed, BuildInv, WholeInv, [ExportNext]_exportVars,
         ~ RequeuesTaken, ~ OpensTaken, ~ TornSweep
  PROVE  WholeInv'
<1>1. ASSUME NEW w \in ExportWorkers, WorkerAction(w) PROVE WholeInv'
  <2>1. RequeueWrite(w) => stale[w] \subseteq StaleJobs BY DEF RequeuesTaken
  <2>2. QED
    BY <1>1, <2>1, BatchWhole, NodeWhole, QueueWhole DEF WorkerAction, BuildStep, Misfortune
<1>2. CASE UNCHANGED exportVars
  BY <1>2 DEF exportVars, WholeInv, PartsInPlace, OpenFiles, ArtifactsStay, SweptRows, Driving,
              JobOver, Held
<1>3. QED BY <1>1, <1>2, StepKinds, ExportActionWhole, SweepWhole

\* With any number of workers, deaths and failing calls, a link that works leads to
\* a file with every batch of its own export, unless one of three steps is taken: a
\* requeue writes over a job that is not stale any more, a merge opens a name that
\* was free when it asked and is taken now, or a sweep ends between removing a file
\* and marking its row.
Spoils == RequeuesTaken \/ OpensTaken \/ TornSweep
THEOREM OfferedFileIsWhole ==
  ExportSpec /\ [][~ Spoils]_exportVars => []ServedFileIsWhole
<1>1. /\ Typed /\ BuildInv /\ WholeInv
      /\ [ExportNext]_exportVars /\ [~ Spoils]_exportVars
      => WholeInv'
  <2>1. ASSUME Typed, BuildInv, WholeInv, UNCHANGED exportVars PROVE WholeInv'
    BY <2>1 DEF exportVars, WholeInv, PartsInPlace, OpenFiles, ArtifactsStay, SweptRows, Driving,
                JobOver, Held
  <2>2. QED BY <2>1, WholeStep DEF Spoils
<1>2. [~ Spoils]_exportVars => [~ RequeuesTaken]_exportVars BY DEF Spoils
<1>3. QED
  BY <1>1, <1>2, WholeInitially, WholeServes, TypedInvariant, BuildInvariant, PTL DEF ExportSpec

\* Nobody but a worker takes a name; the reaper only frees some.
NamedIsFree == \A w \in ExportWorkers : at[w] = "named" => files[dest[w]] = NoFile

LEMMA NamedStep ==
  ASSUME LoneWorker, Typed, NamedIsFree, [ExportNext]_exportVars
  PROVE  NamedIsFree'
<1> USE DEF NamedIsFree, LoneWorker
<1>1. ASSUME NEW e \in Exports, ExportAction(e) PROVE NamedIsFree'
  <2>1. CASE ReaperDeletes(e)
    <3>2. at' = at /\ dest' = dest BY <2>1 DEF ReaperDeletes, graphVars
    <3>3. \A w \in ExportWorkers : files[dest[w]] = NoFile => files'[dest[w]] = NoFile
      BY <2>1 DEF ReaperDeletes, Typed, ExportTypeOK
    <3>4. QED BY <3>2, <3>3
  <2>2. CASE UNCHANGED << at, dest, files >> BY <2>2
  <2>3. QED
    BY <1>1, <2>1, <2>2
    DEF ExportAction, Offer, Refuse, ConfirmReads, ConfirmMarks, ConfirmQueues, RequestDies,
        JobLapses, TimeIsUp, ReaperMarks, graphVars
<1>2. ASSUME NEW w \in ExportWorkers, WorkerAction(w) PROVE NamedIsFree'
  <2>1. SUFFICES ASSUME at'[w] = "named" PROVE files'[dest'[w]] = NoFile
    BY DEF NamedIsFree
  <2>2. ASSUME at' = [at EXCEPT ![w] = "named"], NEW f, files[f] = NoFile,
               dest' = [dest EXCEPT ![w] = f], files' = files
        PROVE  files'[dest'[w]] = NoFile
    BY <2>2 DEF Typed, ExportTypeOK
  <2>3. CASE ChoosesName(w) BY <2>2, <2>3 DEF ChoosesName, FreeName
  <2>4. CASE UNCHANGED << at, dest, files >> BY <2>1, <2>4
  <2>5. ASSUME NEW next, next # "named", at' = [at EXCEPT ![w] = next] PROVE FALSE
    BY <2>1, <2>5 DEF Typed, ExportTypeOK
  <2>6. CASE RequeueSelect(w) \/ RequeueWrite(w) \/ RequeueRaises(w) \/ SaveCheckpoint(w)
    BY <2>4, <2>6 DEF RequeueSelect, RequeueWrite, RequeueRaises, SaveCheckpoint, graphVars
  <2>7. CASE (\E e \in Exports : Claim(w, e)) \/ Begin(w) \/ Return(w)
    BY <2>5, <2>7 DEF Claim, Begin, Return
  <2>8. CASE ReadsNothing(w) \/ StartsPart(w) \/ WritesPart(w) \/ AttemptFails(w) \/ QueryRefused(w)
    BY <2>5, <2>8 DEF ReadsNothing, StartsPart, WritesPart, AttemptFails, QueryRefused, Goto
  <2>9. CASE NamesRunOut(w) \/ OpensArtifact(w) \/ MergeEnds(w) \/ PartMissing(w) \/ MergeRaises(w)
    BY <2>5, <2>9 DEF NamesRunOut, OpensArtifact, MergeEnds, PartMissing, MergeRaises, MergeFailed, Goto
  <2>10. CASE Publish(w) \/ NotifyFailure(w) \/ Cleanup(w) \/ Returns(w) \/ NodeRaises(w)
    BY <2>5, <2>10 DEF Publish, NotifyFailure, Cleanup, Returns, NodeRaises, Goto
  <2>11. CASE Finish(w) \/ FinishRaised(w) \/ FinishHushed(w) \/ MarkFailed(w) \/ DrainRaises(w)
              \/ Dead(w)
    BY <2>5, <2>11 DEF Finish, FinishRaised, FinishHushed, MarkFailed, DrainRaises, Dead, Leaves
  <2>12. QED
    BY <1>2, <2>3, <2>6, <2>7, <2>8, <2>9, <2>10, <2>11 DEF WorkerAction, BuildStep, Misfortune
<1>3. CASE ReaperSelects \/ SweepBreaks BY <1>3 DEF ReaperSelects, SweepBreaks, graphVars
<1>4. CASE UNCHANGED exportVars BY <1>4 DEF exportVars
<1>5. QED BY <1>1, <1>2, <1>3, <1>4, StepKinds

\* With one worker and a reaper that is not killed between removing a file and
\* marking its row, a link that works leads to the whole of its own export.
THEOREM OneWorkerServesWhole ==
  ASSUME LoneWorker, ~ ReaperMayDie PROVE ExportSpec => []ServedFileIsWhole
<1>1. ExportInit => NamedIsFree BY DEF ExportInit, NamedIsFree
<1>2. Typed /\ NamedIsFree /\ [ExportNext]_exportVars => NamedIsFree' BY NamedStep
<1>3. NamedIsFree /\ [ExportNext]_exportVars /\ [~ RequeuesTaken]_exportVars => [~ Spoils]_exportVars
  BY DEF NamedIsFree, Spoils, OpensTaken, TornSweep, OpensArtifact, SweepBreaks
<1>4. QED
  BY <1>1, <1>2, <1>3, TypedInvariant, LoneWorkerRequeues, OfferedFileIsWhole, PTL DEF ExportSpec

-----------------------------------------------------------------------------
(* The job and its export tell the same story.                             *)

\* The exports the story is about.
Kept(e) == e \notin history.severed \cup history.hushed

\* A thread before its outcome, and an export that may still be built.
Early(s) == /\ s.node \in {"confirm", "batch", "merge", "publish", "notify"}
            /\ s.failed <=> s.node = "notify"
Undecided(e) ==
  exports[e].status \in {"queued", "building"} /\ ~ exports[e].message /\ Early(saved[e])

\* What the rows of an export say together.
Story(e) ==
  /\ jobs[e].status = "none" =>
       /\ exports[e].status \in {"absent", "offered", "queued", "failed"}
       /\ asker[e] = "read" => exports[e].status = "offered"
       /\ asker[e] = "marked" => exports[e].status = "queued"
       /\ exports[e].status # "failed" => ~ exports[e].message
       /\ exports[e].status \in {"offered", "queued"} => saved[e] = Paused
  /\ jobs[e].status = "queued" => exports[e].status = "queued" /\ Undecided(e)
  /\ jobs[e].status = "running" /\ ~ Held(e) => Undecided(e)
  /\ jobs[e].status = "succeeded" => exports[e].status \in {"ready", "expired"}
  /\ jobs[e].status = "failed" /\ ~ Held(e) => exports[e].status = "failed"
  /\ exports[e].lapsed \/ reaping[e] # NoFile \/ deleted = e => jobs[e].status = "succeeded"

\* Where the graph is and whether it has failed, in the worker's memory and in the row.
Decided(w) == exports[on[w]].status = IF mem[w].failed THEN "failed" ELSE "ready"
RowFits(w) ==
  /\ at[w] = "claimed" => exports[on[w]].status = "queued" /\ Undecided(on[w])
  /\ Driving(w) \/ at[w] = "close" =>
       \/ Early(mem[w]) /\ exports[on[w]].status = "building" /\ Undecided(on[w])
       \/ mem[w].node \in {"cleanup", "end"} /\ Decided(w)
  /\ at[w] \in {"raised", "hushed"} =>
       Undecided(on[w]) \/ exports[on[w]].status \in {"ready", "failed"}

Fits(e) == Kept(e) => Story(e) /\ \A w \in ExportWorkers : on[w] = e => RowFits(w)
FollowInv == \A e \in Exports : Fits(e)

LEMMA FollowInitially == ExportInit => FollowInv
  BY SentinelsAssumption DEF ExportInit, FollowInv, Fits, Story, Held

\* What the story comes to when nobody is on the export.
LEMMA FitsAgree == Typed /\ FollowInv => ExportFollowsJob
<1> SUFFICES ASSUME Typed, FollowInv, NEW e \in Exports, Kept(e), ~ Held(e)
             PROVE  /\ jobs[e].status = "succeeded" <=> exports[e].status \in {"ready", "expired"}
                    /\ jobs[e].status = "failed" => exports[e].status = "failed"
  BY DEF ExportFollowsJob, Kept
<1>1. Story(e) BY DEF FollowInv, Fits
<1>2. jobs[e].status \in JobStatus BY DEF Typed, ExportTypeOK, JobRow
<1>3. QED BY <1>1, <1>2 DEF Story, Undecided, JobStatus

\* What has happened is not forgotten.
LEMMA KeptBefore ==
  ASSUME Typed, [ExportNext]_exportVars PROVE \A e \in Exports : Kept(e)' => Kept(e)
<1>1. ASSUME NEW w \in ExportWorkers, WorkerAction(w) PROVE \A e \in Exports : Kept(e)' => Kept(e)
  BY <1>1, Remembered DEF Kept
<1>2. CASE history' = history BY <1>2 DEF Kept
<1>3. CASE Dies BY <1>3, DeathsApart DEF Kept
<1>4. ASSUME NEW e \in Exports, ExportAction(e) PROVE history' = history \/ Dies
  BY <1>4 DEF ExportAction, Offer, Refuse, ConfirmReads, ConfirmMarks, ConfirmQueues,
              RequestDies, JobLapses, TimeIsUp, ReaperDeletes, ReaperMarks
<1>5. ReaperSelects \/ SweepBreaks => history' = history \/ Dies BY DEF ReaperSelects, SweepBreaks
<1>6. UNCHANGED exportVars => history' = history BY DEF exportVars
<1>7. QED BY <1>1, <1>2, <1>3, <1>4, <1>5, <1>6, StepKinds

\* An export no row and no worker of which a step has touched.
LEMMA UntouchedFollows ==
  ASSUME NEW e \in Exports, Fits(e), Kept(e)' => Kept(e),
         exports'[e] = exports[e], jobs'[e].status = jobs[e].status, asker'[e] = asker[e],
         saved'[e] = saved[e], reaping'[e] # NoFile => reaping[e] # NoFile \/ exports[e].lapsed,
         deleted' = e => deleted = e,
         \A v \in ExportWorkers :
           /\ on'[v] = e <=> on[v] = e
           /\ on[v] = e => at'[v] = at[v] /\ mem'[v] = mem[v]
  PROVE  Fits(e)'
<1> SUFFICES ASSUME Kept(e)'
             PROVE  Story(e)' /\ \A w \in ExportWorkers : on'[w] = e => RowFits(w)'
  BY DEF Fits
<1>1. Story(e) /\ \A w \in ExportWorkers : on[w] = e => RowFits(w) BY DEF Fits
<1>2. (Held(e)' <=> Held(e)) /\ (Undecided(e)' <=> Undecided(e)) BY DEF Held, Undecided, Early
<1>3. Story(e)' BY <1>1, <1>2 DEF Story
<1>4. ASSUME NEW w \in ExportWorkers, on'[w] = e PROVE RowFits(w)'
  <2>1. RowFits(w) /\ on[w] = e /\ at'[w] = at[w] /\ mem'[w] = mem[w] BY <1>1, <1>4
  <2>2. (Driving(w)' <=> Driving(w)) /\ (Decided(w)' <=> Decided(w))
    BY <1>4, <2>1 DEF Driving, Decided
  <2>3. Early(mem[w])' <=> Early(mem[w]) BY <2>1 DEF Early
  <2>4. QED BY <1>2, <1>4, <2>1, <2>2, <2>3 DEF RowFits
<1>5. QED BY <1>3, <1>4

\* A step of a worker that keeps its export.
LEMMA InsideFollows ==
  ASSUME Typed, BuildInv, FollowInv, \A e \in Exports : Kept(e)' => Kept(e),
         NEW w \in ExportWorkers, Building(w), UNCHANGED << on, asker, reaping, deleted >>,
         jobs'[on[w]].status \in {"running", "failed"},
         \A v \in ExportWorkers : v # w => at'[v] = at[v] /\ mem'[v] = mem[v],
         \A e \in Exports : e # on[w] =>
           jobs'[e] = jobs[e] /\ saved'[e] = saved[e] /\ exports'[e] = exports[e],
         RowFits(w) /\ ~ exports[on[w]].lapsed => RowFits(w)' /\ ~ exports'[on[w]].lapsed
  PROVE  FollowInv'
<1>1. /\ on[w] \in Exports /\ jobs[on[w]].status \in {"running", "failed"}
      /\ Held(on[w]) /\ Held(on[w])'
  <2>1. on[w] \in Exports /\ jobs[on[w]].status \in {"running", "failed"} BY BuilderFacts
  <2>2. QED BY <2>1 DEF Held
<1>2. \A v \in ExportWorkers : v # w => on[v] # on[w]
  <2>1. \A v \in ExportWorkers : on[v] = on[w] => Building(v)
    BY <1>1, SentinelsAssumption DEF Building, Typed, ExportTypeOK
  <2>2. QED BY <2>1 DEF BuildInv, SoleBuilder
<1>3. ASSUME NEW e \in Exports, e # on[w] PROVE Fits(e)'
  <2>1. Fits(e) /\ (Kept(e)' => Kept(e)) BY DEF FollowInv
  <2>2. QED BY <1>3, <2>1, UntouchedFollows
<1>4. ASSUME Kept(on[w])' PROVE Story(on[w])' /\ RowFits(w)'
  <2>1. Story(on[w]) /\ RowFits(w) BY <1>1, <1>4 DEF FollowInv, Fits
  <2>2. ~ exports[on[w]].lapsed /\ reaping[on[w]] = NoFile /\ deleted # on[w]
    BY <1>1, <2>1 DEF Story
  <2>3. QED BY <1>1, <2>1, <2>2 DEF Story
<1>5. Fits(on[w])' BY <1>1, <1>2, <1>4 DEF Fits
<1>6. QED BY <1>3, <1>5 DEF FollowInv

LEMMA BatchFollows ==
  ASSUME Typed, BuildInv, FollowInv, \A e \in Exports : Kept(e)' => Kept(e), NEW w \in ExportWorkers,
         ReadsNothing(w) \/ StartsPart(w) \/ WritesPart(w) \/ AttemptFails(w) \/ QueryRefused(w)
  PROVE  FollowInv'
<1>1. mem[w].node = "batch" /\ at[w] \in {"node", "writing"} /\ Building(w) /\ Driving(w)
  BY DEF ReadsNothing, StartsPart, WritesPart, AttemptFails, QueryRefused, InNode, BuildInv,
         NodeFits, Driving, Building
<1>2. on[w] \in Exports /\ mem[w] \in State /\ jobs[on[w]].status \in {"running", "failed"}
  BY <1>1, BuilderFacts
<1>3. UNCHANGED << on, exports, jobs, asker, saved, reaping, deleted >>
  BY DEF ReadsNothing, StartsPart, WritesPart, AttemptFails, QueryRefused, pickedVars
<1>4. ASSUME NEW s, mem'[w] = s, at'[w] \in {"node", "writing"},
             \A v \in ExportWorkers : v # w => at'[v] = at[v] /\ mem'[v] = mem[v],
             RowFits(w) => Early(s)
      PROVE  FollowInv'
  <2>1. ASSUME RowFits(w) PROVE RowFits(w)'
    <3>1. exports[on[w]].status = "building" /\ Undecided(on[w]) BY <1>1, <2>1 DEF RowFits
    <3>2. Undecided(on[w])' BY <1>3, <3>1 DEF Undecided, Early
    <3>3. Early(mem[w])' BY <1>4, <2>1 DEF Early
    <3>4. QED BY <1>3, <1>4, <3>1, <3>2, <3>3 DEF RowFits
  <2>2. QED BY <1>1, <1>2, <1>3, <1>4, <2>1, InsideFollows
<1>5. ASSUME NEW s \in State, NEW failed \in BOOLEAN, NEW finished \in BOOLEAN,
             Goto(w, AfterBatch(s, failed, finished))
      PROVE  FollowInv'
  <2> DEFINE t == AfterBatch(s, failed, finished)
  <2>1. Early(t) BY AfterBatchIs DEF Early
  <2>2. Goto(w, t) BY <1>5
  <2> HIDE DEF t
  <2>3. /\ at'[w] = "node" /\ mem'[w] = t
        /\ \A v \in ExportWorkers : v # w => at'[v] = at[v] /\ mem'[v] = mem[v]
    BY <2>2, GotoIs
  <2>4. QED BY <1>4, <2>1, <2>3
<1>6. ASSUME mem'[w] = mem[w], at'[w] \in {"node", "writing"},
             \A v \in ExportWorkers : v # w => at'[v] = at[v] /\ mem'[v] = mem[v]
      PROVE  FollowInv'
  <2>1. RowFits(w) => Early(mem[w]) BY <1>1 DEF RowFits
  <2>2. QED BY <1>4, <1>6, <2>1
<1>7. CASE ReadsNothing(w) BY <1>2, <1>5, <1>7 DEF ReadsNothing
<1>8. CASE StartsPart(w)
  <2>1. /\ at'[w] = "writing" /\ mem'[w] = mem[w]
        /\ \A v \in ExportWorkers : v # w => at'[v] = at[v] /\ mem'[v] = mem[v]
    BY <1>8 DEF StartsPart, Typed, ExportTypeOK
  <2>2. QED BY <1>6, <2>1
<1>9. CASE WritesPart(w)
  <2>1. mem[w].batch \in Batch BY <1>9 DEF WritesPart, Typed, WritingABatch
  <2>2. [mem[w] EXCEPT !.batch = mem[w].batch + 1] \in State
    BY <2>1, <1>2, StatesTyped, Numbers
  <2>3. QED BY <1>5, <1>9, <2>2 DEF WritesPart
<1>10. CASE AttemptFails(w)
  <2>1. CASE Goto(w, mem[w])
    <3>1. /\ at'[w] = "node" /\ mem'[w] = mem[w]
          /\ \A v \in ExportWorkers : v # w => at'[v] = at[v] /\ mem'[v] = mem[v]
      BY <2>1, GotoIs
    <3>2. QED BY <1>6, <3>1
  <2>2. CASE Goto(w, AfterBatch(mem[w], TRUE, FALSE)) BY <1>2, <1>5, <2>2
  <2>3. QED BY <1>10, <2>1, <2>2 DEF AttemptFails
<1>11. CASE QueryRefused(w) BY <1>2, <1>5, <1>11 DEF QueryRefused
<1>12. QED BY <1>7, <1>8, <1>9, <1>10, <1>11

LEMMA NodeFollows ==
  ASSUME Typed, BuildInv, FollowInv, \A e \in Exports : Kept(e)' => Kept(e), NEW w \in ExportWorkers,
         ChoosesName(w) \/ NamesRunOut(w) \/ OpensArtifact(w) \/ MergeEnds(w) \/ PartMissing(w)
         \/ MergeRaises(w) \/ Publish(w) \/ NotifyFailure(w) \/ Cleanup(w) \/ Returns(w)
         \/ NodeRaises(w)
  PROVE  FollowInv'
<1>1. at[w] \in {"node", "named", "merging"} /\ Driving(w) /\ Building(w)
  BY DEF ChoosesName, NamesRunOut, OpensArtifact, MergeEnds, PartMissing, MergeRaises, Publish,
         NotifyFailure, Cleanup, Returns, NodeRaises, InNode, Driving, Building
<1>2. /\ on[w] \in Exports /\ mem[w] \in State /\ jobs[on[w]].status \in {"running", "failed"}
      /\ exports \in [Exports -> ExportRow]
      /\ at[w] \in {"named", "merging"} => mem[w].node = "merge"
  <2>1. on[w] \in Exports /\ mem[w] \in State /\ jobs[on[w]].status \in {"running", "failed"}
    BY <1>1, BuilderFacts
  <2>2. QED BY <2>1 DEF BuildInv, NodeFits, Typed, ExportTypeOK
<1>3. UNCHANGED << on, jobs, asker, saved, reaping, deleted >>
  BY DEF ChoosesName, NamesRunOut, OpensArtifact, MergeEnds, PartMissing, MergeRaises,
         MergeFailed, Publish, NotifyFailure, Cleanup, Returns, NodeRaises, pickedVars
<1>4. RowFits(w) =>
        \/ Early(mem[w]) /\ exports[on[w]].status = "building" /\ Undecided(on[w])
        \/ mem[w].node \in {"cleanup", "end"} /\ Decided(w)
  BY <1>1 DEF RowFits
<1>5. ASSUME NEW next \in {"named", "merging", "raised", "hushed", "close"},
             at' = [at EXCEPT ![w] = next], mem' = mem, exports' = exports
      PROVE  FollowInv'
  <2>1. at'[w] = next /\ \A v \in ExportWorkers : v # w => at'[v] = at[v]
    BY <1>5 DEF Typed, ExportTypeOK
  <2>2. /\ Undecided(on[w])' <=> Undecided(on[w])
        /\ Early(mem[w])' <=> Early(mem[w])
        /\ Decided(w)' <=> Decided(w)
    BY <1>3, <1>5 DEF Undecided, Early, Decided
  <2>3. RowFits(w) => RowFits(w)'
    BY <1>3, <1>4, <1>5, <2>1, <2>2 DEF RowFits, Decided
  <2>4. QED BY <1>1, <1>2, <1>3, <1>5, <2>1, <2>3, InsideFollows
<1>6. ASSUME NEW s, Goto(w, s),
             \A e \in Exports : e # on[w] => exports'[e] = exports[e],
             RowFits(w) /\ ~ exports[on[w]].lapsed =>
               /\ ~ exports'[on[w]].lapsed
               /\ \/ Early(s) /\ exports' = exports
                     /\ exports[on[w]].status = "building" /\ Undecided(on[w])
                  \/ /\ s.node \in {"cleanup", "end"}
                     /\ exports'[on[w]].status = IF s.failed THEN "failed" ELSE "ready"
      PROVE  FollowInv'
  <2>1. /\ at'[w] = "node" /\ mem'[w] = s
        /\ \A v \in ExportWorkers : v # w => at'[v] = at[v] /\ mem'[v] = mem[v]
    BY <1>6, GotoIs
  <2>2. exports' = exports => (Undecided(on[w])' <=> Undecided(on[w]))
    BY <1>3 DEF Undecided, Early
  <2>3. Early(mem[w])' <=> Early(s) BY <2>1 DEF Early
  <2>4. ASSUME RowFits(w), ~ exports[on[w]].lapsed PROVE RowFits(w)' /\ ~ exports'[on[w]].lapsed
    BY <1>3, <1>6, <2>1, <2>2, <2>3, <2>4 DEF RowFits, Decided
  <2>5. QED BY <1>1, <1>2, <1>3, <1>6, <2>1, <2>4, InsideFollows
<1>7. CASE ChoosesName(w) BY <1>5, <1>7 DEF ChoosesName
<1>8. CASE NamesRunOut(w) BY <1>5, <1>8 DEF NamesRunOut
<1>9. CASE OpensArtifact(w) BY <1>5, <1>9 DEF OpensArtifact
<1>10. CASE MergeEnds(w)
  <2> DEFINE s == [mem[w] EXCEPT !.node = "publish", !.file = dest[w]]
  <2>1. mem[w].node = "merge" /\ exports' = exports /\ Goto(w, s) BY <1>2, <1>10 DEF MergeEnds
  <2>2. s.node = "publish" /\ s.failed = mem[w].failed BY <1>2 DEF State
  <2> HIDE DEF s
  <2>3. RowFits(w) => Early(s) /\ exports[on[w]].status = "building" /\ Undecided(on[w])
    BY <1>4, <2>1, <2>2 DEF Early
  <2>4. QED BY <1>6, <2>1, <2>3
<1>11. CASE PartMissing(w) \/ MergeRaises(w)
  <2> DEFINE s == [mem[w] EXCEPT !.node = "notify", !.failed = TRUE]
  <2>1. mem[w].node = "merge" /\ exports' = exports /\ Goto(w, s)
    BY <1>2, <1>11 DEF PartMissing, MergeRaises, MergeFailed
  <2>2. s.node = "notify" /\ s.failed BY <1>2 DEF State
  <2> HIDE DEF s
  <2>3. RowFits(w) => Early(s) /\ exports[on[w]].status = "building" /\ Undecided(on[w])
    BY <1>4, <2>1, <2>2 DEF Early
  <2>4. QED BY <1>6, <2>1, <2>3
<1>12. CASE Publish(w)
  <2> DEFINE s == [mem[w] EXCEPT !.node = "cleanup"]
  <2>1. /\ mem[w].node = "publish" /\ Goto(w, s)
        /\ exports'[on[w]].status = "ready" /\ ~ exports'[on[w]].lapsed
        /\ \A e \in Exports : e # on[w] => exports'[e] = exports[e]
    BY <1>2, <1>12 DEF Publish, InNode
  <2>2. s.node = "cleanup" /\ s.failed = mem[w].failed BY <1>2 DEF State
  <2>3. RowFits(w) => ~ mem[w].failed BY <1>2, <1>4, <2>1 DEF Early, State
  <2> HIDE DEF s
  <2>4. QED BY <1>6, <2>1, <2>2, <2>3
<1>13. CASE NotifyFailure(w)
  <2> DEFINE s == [mem[w] EXCEPT !.node = "cleanup"]
  <2>1. mem[w].node = "notify" /\ Goto(w, s) BY <1>13 DEF NotifyFailure, InNode
  <2>2. s.node = "cleanup" /\ s.failed = mem[w].failed BY <1>2 DEF State
  <2>3. \A e \in Exports : e # on[w] => exports'[e] = exports[e]
    BY <1>2, <1>13 DEF NotifyFailure
  <2>4. ASSUME RowFits(w), ~ exports[on[w]].lapsed
        PROVE  mem[w].failed /\ exports'[on[w]].status = "failed" /\ ~ exports'[on[w]].lapsed
    <3>1. mem[w].failed /\ ~ exports[on[w]].message
      BY <1>4, <2>1, <2>4 DEF Early, Undecided
    <3>2. exports' = [exports EXCEPT ![on[w]].status = "failed", ![on[w]].message = TRUE]
      BY <1>13, <3>1 DEF NotifyFailure
    <3>3. QED BY <1>2, <2>4, <3>1, <3>2 DEF ExportRow
  <2> HIDE DEF s
  <2>5. QED BY <1>6, <2>1, <2>2, <2>3, <2>4
<1>14. CASE Cleanup(w)
  <2> DEFINE s == [mem[w] EXCEPT !.node = "end"]
  <2>1. mem[w].node = "cleanup" /\ Goto(w, s) /\ exports' = exports
    BY <1>14 DEF Cleanup, InNode
  <2>2. s.node = "end" /\ s.failed = mem[w].failed BY <1>2 DEF State
  <2>3. RowFits(w) => exports[on[w]].status = IF mem[w].failed THEN "failed" ELSE "ready"
    BY <1>4, <2>1 DEF Early, Decided
  <2> HIDE DEF s
  <2>4. QED BY <1>6, <2>1, <2>2, <2>3
<1>15. CASE Returns(w) BY <1>5, <1>15 DEF Returns
<1>16. CASE NodeRaises(w) BY <1>5, <1>16 DEF NodeRaises
<1>17. QED
  BY <1>7, <1>8, <1>9, <1>10, <1>11, <1>12, <1>13, <1>14, <1>15, <1>16

\* A worker that lets go of its export.
LEMMA LeavesFollows ==
  ASSUME Typed, BuildInv, FollowInv, \A e \in Exports : Kept(e)' => Kept(e),
         NEW w \in ExportWorkers, Building(w), NEW d \in Exports, on[w] = d,
         NEW next \in {"idle", "down"}, Leaves(w, next),
         UNCHANGED << asker, saved, reaping, deleted >>,
         \A e \in Exports : e # d => jobs'[e] = jobs[e] /\ exports'[e] = exports[e],
         Kept(d)' /\ RowFits(w) /\ ~ exports[d].lapsed =>
           /\ ~ exports'[d].lapsed
           /\ \/ jobs'[d].status = "running" /\ Undecided(d)'
              \/ jobs'[d].status = "succeeded" /\ exports'[d].status = "ready"
              \/ jobs'[d].status = "failed" /\ exports'[d].status = "failed"
  PROVE  FollowInv'
<1>1. jobs[d].status \in {"running", "failed"} BY BuilderFacts
<1>2. /\ on'[w] = NoExport /\ on'[w] \notin Exports
      /\ \A v \in ExportWorkers : v # w => at'[v] = at[v] /\ mem'[v] = mem[v] /\ on'[v] = on[v]
  BY SentinelsAssumption DEF Leaves, Typed, ExportTypeOK
<1>3. \A v \in ExportWorkers : v # w => on[v] # d
  <2>1. \A v \in ExportWorkers : on[v] = d => Building(v)
    BY <1>1, SentinelsAssumption DEF Building, Typed, ExportTypeOK
  <2>2. QED BY <2>1 DEF BuildInv, SoleBuilder
<1>4. ASSUME NEW e \in Exports, e # d PROVE Fits(e)'
  <2>1. Fits(e) /\ (Kept(e)' => Kept(e)) BY DEF FollowInv
  <2>2. \A v \in ExportWorkers :
           /\ on'[v] = e <=> on[v] = e
           /\ on[v] = e => at'[v] = at[v] /\ mem'[v] = mem[v]
    BY <1>2, <1>4
  <2>3. QED BY <1>4, <2>1, <2>2, UntouchedFollows
<1>5. ASSUME Kept(d)'
      PROVE  Story(d)' /\ \A v \in ExportWorkers : on'[v] # d
  <2>1. Story(d) /\ RowFits(w) BY <1>1, <1>5 DEF FollowInv, Fits
  <2>2. ~ exports[d].lapsed /\ reaping[d] = NoFile /\ deleted # d
    BY <1>1, <2>1 DEF Story
  <2>3. QED BY <1>1, <1>2, <1>3, <1>5, <2>1, <2>2 DEF Story
<1>6. Fits(d)' BY <1>5 DEF Fits
<1>7. QED BY <1>4, <1>6 DEF FollowInv

\* A worker that lets go of its export and leaves both rows: whether it has said half of
\* the outcome is remembered.
LEMMA GoneFollows ==
  ASSUME Typed, BuildInv, FollowInv, \A e \in Exports : Kept(e)' => Kept(e),
         NEW w \in ExportWorkers, Building(w), NEW next \in {"idle", "down"}, Leaves(w, next),
         UNCHANGED << exports, jobs, asker, saved, reaping, deleted >>,
         history'.severed = Severed(w)
  PROVE  FollowInv'
<1>1. PICK d \in Exports : on[w] = d BY BuilderHolds DEF Building
<1>2. ASSUME Kept(d)', RowFits(w)
      PROVE  jobs[d].status = "running" /\ Undecided(d)
  <2>1. ~ HalfTold(w) BY <1>1, <1>2, SeveredTyped DEF Kept
  <2>2. at[w] # "mark" /\ exports[d].status \notin {"ready", "failed"}
    BY <1>1, <2>1, SentinelsAssumption DEF HalfTold
  <2>3. jobs[d].status = "running" BY <1>1, <2>2 DEF BuildInv, SoleBuilder
  <2>4. at[w] \in {"claimed", "raised", "hushed", "close"} \/ Driving(w)
    BY <2>2 DEF Driving, Building, Running, Typed, ExportTypeOK
  <2>5. Undecided(d)
    BY <1>1, <1>2, <2>2, <2>4 DEF RowFits, Decided
  <2>6. QED BY <2>3, <2>5
<1>3. Undecided(d)' <=> Undecided(d) BY DEF Undecided, Early
<1>4. QED BY <1>1, <1>2, <1>3, LeavesFollows

LEMMA ResumedEarly == ASSUME NEW s \in State, Early(s) PROVE Early(Resumed(s))
  BY DEF Early, Resumed, State

LEMMA QueueFollows ==
  ASSUME Typed, BuildInv, FollowInv, \A e \in Exports : Kept(e)' => Kept(e), NEW w \in ExportWorkers,
         RequeueWrite(w) => stale[w] \subseteq StaleJobs,
         RequeueSelect(w) \/ RequeueWrite(w) \/ RequeueRaises(w)
         \/ (\E e \in Exports : Claim(w, e)) \/ Begin(w) \/ Return(w)
         \/ Finish(w) \/ FinishRaised(w) \/ FinishHushed(w) \/ MarkFailed(w)
         \/ DrainRaises(w) \/ Dead(w) \/ SaveCheckpoint(w)
  PROVE  FollowInv'
<1>0. /\ exports \in [Exports -> ExportRow] /\ jobs \in [Exports -> JobRow]
      /\ saved \in [Exports -> State] /\ on \in [ExportWorkers -> Exports \cup {NoExport}]
      /\ \A v \in ExportWorkers : on[v] = NoExport <=> ~ Building(v)
  BY DEF Typed, ExportTypeOK, Building
<1>1. CASE UNCHANGED << exports, jobs, asker, on, mem, saved, reaping, deleted >>
           /\ \A v \in ExportWorkers : on[v] # NoExport => at'[v] = at[v]
  <2>1. ASSUME NEW e \in Exports PROVE Fits(e)'
    <3>1. Fits(e) /\ (Kept(e)' => Kept(e)) BY DEF FollowInv
    <3>2. e # NoExport BY SentinelsAssumption
    <3>3. QED BY <1>1, <3>1, <3>2, UntouchedFollows
  <2>2. QED BY <2>1 DEF FollowInv
<1>2. CASE RequeueSelect(w) \/ RequeueRaises(w)
  BY <1>1, <1>2 DEF RequeueSelect, RequeueRaises, graphVars
<1>3. CASE Return(w)
  <2>1. at[w] = "down" /\ \A v \in ExportWorkers : v # w => at'[v] = at[v]
    BY <1>3 DEF Return, Typed, ExportTypeOK
  <2>2. on[w] = NoExport BY <1>0, <2>1 DEF Building
  <2>3. QED BY <1>1, <1>3, <2>1, <2>2 DEF Return, pickedVars
<1>4. CASE RequeueWrite(w)
  <2>1. /\ UNCHANGED << asker, at, on, mem, saved, reaping, deleted >>
        /\ \A e \in Exports : e \notin stale[w] => exports'[e] = exports[e] /\ jobs'[e] = jobs[e]
        /\ \A e \in stale[w] \cap Exports :
             /\ jobs[e].status = "running" /\ ~ jobs[e].fresh /\ jobs'[e].status = "queued"
             /\ exports'[e] = [exports[e] EXCEPT !.status = "queued"]
    BY <1>4 DEF RequeueWrite, Requeued, StaleJobs, graphVars
  <2>2. ASSUME NEW e \in Exports, e \notin stale[w] PROVE Fits(e)'
    <3>1. Fits(e) /\ (Kept(e)' => Kept(e)) BY DEF FollowInv
    <3>2. QED BY <2>1, <2>2, <3>1, UntouchedFollows
  <2>3. ASSUME NEW e \in Exports, e \in stale[w], Kept(e)'
        PROVE  Story(e)' /\ \A v \in ExportWorkers : on'[v] # e
    <3>1. Story(e) BY <2>3 DEF FollowInv, Fits
    <3>2. jobs[e].status = "running" /\ ~ jobs[e].fresh BY <2>1, <2>3
    <3>3. ASSUME NEW v \in ExportWorkers, on[v] = e PROVE FALSE
      <4>1. Building(v) BY <1>0, <3>3, SentinelsAssumption
      <4>2. QED BY <3>2, <3>3, <4>1 DEF BuildInv, SoleBuilder
    <3>4. ~ Held(e) BY <3>3 DEF Held
    <3>5. Undecided(e) /\ ~ exports[e].lapsed /\ reaping[e] = NoFile /\ deleted # e
      BY <3>1, <3>2, <3>4 DEF Story
    <3>6. /\ exports'[e].status = "queued" /\ jobs'[e].status = "queued"
          /\ ~ exports'[e].message /\ ~ exports'[e].lapsed
      <4>1. exports'[e] = [exports[e] EXCEPT !.status = "queued"] /\ jobs'[e].status = "queued"
        BY <2>1, <2>3
      <4>2. exports[e] \in ExportRow /\ ~ exports[e].message BY <1>0, <3>5 DEF Undecided
      <4>3. QED BY <3>5, <4>1, <4>2 DEF ExportRow
    <3>7. Undecided(e)' BY <2>1, <3>5, <3>6 DEF Undecided, Early
    <3>8. Story(e)' BY <2>1, <3>5, <3>6, <3>7 DEF Story
    <3>9. QED BY <2>1, <3>3, <3>8
  <2>4. ASSUME NEW e \in Exports, e \in stale[w] PROVE Fits(e)' BY <2>3, <2>4 DEF Fits
  <2>5. QED BY <2>2, <2>4 DEF FollowInv
<1>5. ASSUME NEW e \in Exports, Claim(w, e) PROVE FollowInv'
  <2>1. /\ jobs[e].status = "queued" /\ jobs'[e].status = "running"
        /\ \A d \in Exports : d # e => jobs'[d] = jobs[d]
        /\ on[w] = NoExport /\ at'[w] = "claimed" /\ on'[w] = e
        /\ \A v \in ExportWorkers : v # w => at'[v] = at[v] /\ on'[v] = on[v]
        /\ UNCHANGED << exports, asker, mem, saved, reaping, deleted >>
    BY <1>5 DEF Claim, Typed, ExportTypeOK, pickedVars
  <2>2. \A v \in ExportWorkers : on[v] # e
    <3>1. ASSUME NEW v \in ExportWorkers, on[v] = e PROVE FALSE
      <4>1. Building(v) BY <1>0, <3>1, SentinelsAssumption
      <4>2. QED BY <2>1, <3>1, <4>1, BuilderFacts
    <3>2. QED BY <3>1
  <2>3. ASSUME NEW d \in Exports, d # e PROVE Fits(d)'
    <3>1. Fits(d) /\ (Kept(d)' => Kept(d)) BY DEF FollowInv
    <3>2. \A v \in ExportWorkers : /\ on'[v] = d <=> on[v] = d
                                   /\ on[v] = d => at'[v] = at[v] /\ mem'[v] = mem[v]
      BY <2>1, <2>3, SentinelsAssumption
    <3>3. QED BY <2>1, <2>3, <3>1, <3>2, UntouchedFollows
  <2>4. ASSUME Kept(e)' PROVE Story(e)' /\ RowFits(w)'
    <3>1. Story(e) BY <2>4 DEF FollowInv, Fits
    <3>2. /\ exports[e].status = "queued" /\ Undecided(e)
          /\ ~ exports[e].lapsed /\ reaping[e] = NoFile /\ deleted # e
      BY <2>1, <3>1 DEF Story
    <3>3. Undecided(e)' BY <2>1, <3>2 DEF Undecided, Early
    <3>4. Story(e)' BY <2>1, <3>2, <3>3 DEF Story
    <3>5. RowFits(w)' BY <2>1, <3>2, <3>3 DEF RowFits, Driving
    <3>6. QED BY <3>4, <3>5
  <2>5. \A v \in ExportWorkers : on'[v] = e => v = w BY <2>1, <2>2
  <2>6. Fits(e)' BY <2>4, <2>5 DEF Fits
  <2>7. QED BY <2>3, <2>6 DEF FollowInv
<1>6. CASE Begin(w)
  <2>1. Building(w) /\ at[w] = "claimed" BY <1>6 DEF Begin, Building
  <2>2. on[w] \in Exports /\ jobs[on[w]].status \in {"running", "failed"} BY <2>1, BuilderFacts
  <2>3. /\ at'[w] = "node" /\ mem'[w] = Resumed(saved[on[w]])
        /\ \A v \in ExportWorkers : v # w => at'[v] = at[v] /\ mem'[v] = mem[v]
        /\ UNCHANGED << on, jobs, asker, saved, reaping, deleted >>
        /\ exports'[on[w]] = [exports[on[w]] EXCEPT !.status = "building"]
        /\ \A e \in Exports : e # on[w] => exports'[e] = exports[e]
    BY <1>6, <2>2 DEF Begin, SetStatus, Typed, ExportTypeOK, pickedVars
  <2>4. ASSUME RowFits(w), ~ exports[on[w]].lapsed PROVE RowFits(w)' /\ ~ exports'[on[w]].lapsed
    <3>1. Undecided(on[w]) BY <2>1, <2>4 DEF RowFits
    <3>2. /\ exports'[on[w]].status = "building" /\ ~ exports'[on[w]].lapsed
          /\ ~ exports'[on[w]].message
      BY <1>0, <2>2, <2>3, <2>4, <3>1 DEF Undecided, ExportRow
    <3>3. Undecided(on[w])' BY <2>3, <3>1, <3>2 DEF Undecided, Early
    <3>4. Early(mem[w])'
      <4>1. Early(Resumed(saved[on[w]])) BY <1>0, <2>2, <3>1, ResumedEarly DEF Undecided
      <4>2. QED BY <2>3, <4>1 DEF Early
    <3>5. QED BY <2>3, <3>2, <3>3, <3>4 DEF RowFits
  <2>5. QED BY <2>1, <2>2, <2>3, <2>4, InsideFollows
<1>7. CASE SaveCheckpoint(w)
  <2>1. Building(w) /\ Driving(w) BY <1>7 DEF SaveCheckpoint, Building, Driving, Running
  <2>2. on[w] \in Exports /\ jobs[on[w]].status \in {"running", "failed"} BY <2>1, BuilderFacts
  <2>3. /\ UNCHANGED << exports, jobs, asker, at, on, mem, reaping, deleted >>
        /\ saved'[on[w]] = mem[w]
        /\ \A e \in Exports : e # on[w] => saved'[e] = saved[e]
    BY <1>7, <2>2 DEF SaveCheckpoint, graphVars, pickedVars, Typed, ExportTypeOK
  <2>4. ASSUME RowFits(w) PROVE RowFits(w)'
    BY <2>1, <2>3, <2>4 DEF RowFits, Driving, Decided, Undecided, Early
  <2>5. QED BY <2>1, <2>2, <2>3, <2>4, InsideFollows
<1>8. CASE FinishRaised(w)
  <2>1. Building(w) /\ at[w] = "raised" BY <1>8 DEF FinishRaised, Building
  <2>2. on[w] \in Exports BY <2>1, BuilderFacts
  <2>3. /\ at'[w] = "mark" /\ jobs'[on[w]].status = "failed"
        /\ \A v \in ExportWorkers : v # w => at'[v] = at[v]
        /\ \A e \in Exports : e # on[w] => jobs'[e] = jobs[e]
        /\ UNCHANGED << exports, asker, on, mem, saved, reaping, deleted >>
    BY <1>8, <2>2 DEF FinishRaised, CloseJob, Typed, ExportTypeOK, pickedVars
  <2>4. RowFits(w)' BY <2>3 DEF RowFits, Driving
  <2>5. QED BY <2>1, <2>2, <2>3, <2>4, InsideFollows
<1>9. CASE DrainRaises(w) \/ (Dead(w) /\ Building(w))
  <2>1. Building(w) BY <1>9 DEF DrainRaises, Building
  <2>2. history'.severed = Severed(w)
    BY <1>9 DEF DrainRaises, Dead, Typed, ExportTypeOK, History
  <2>3. QED BY <1>9, <2>1, <2>2, GoneFollows DEF DrainRaises, Dead, pickedVars
<1>10. CASE Dead(w) /\ ~ Building(w)
  <2>1. /\ on'[w] = NoExport /\ on[w] = NoExport
        /\ \A v \in ExportWorkers : v # w => at'[v] = at[v] /\ mem'[v] = mem[v] /\ on'[v] = on[v]
        /\ UNCHANGED << exports, jobs, asker, saved, reaping, deleted >>
    BY <1>0, <1>10 DEF Dead, Leaves, Typed, ExportTypeOK
  <2>2. ASSUME NEW e \in Exports PROVE Fits(e)'
    <3>1. Fits(e) /\ (Kept(e)' => Kept(e)) BY DEF FollowInv
    <3>2. \A v \in ExportWorkers : /\ on'[v] = e <=> on[v] = e
                                   /\ on[v] = e => at'[v] = at[v] /\ mem'[v] = mem[v]
      BY <2>1, SentinelsAssumption
    <3>3. QED BY <2>1, <3>1, <3>2, UntouchedFollows
  <2>3. QED BY <2>2 DEF FollowInv
<1>11. CASE Finish(w)
  <2>1. Building(w) /\ at[w] = "close" BY <1>11 DEF Finish, Building
  <2>2. PICK d \in Exports : on[w] = d BY <2>1, BuilderFacts
  <2>3. /\ jobs'[d].status = IF mem[w].failed THEN "failed" ELSE "succeeded"
        /\ \A e \in Exports : e # d => jobs'[e] = jobs[e]
        /\ Leaves(w, "idle") /\ UNCHANGED << exports, asker, saved, reaping, deleted >>
    BY <1>11, <2>2 DEF Finish, CloseJob, Typed, ExportTypeOK, pickedVars
  <2>4. RowFits(w) => exports[d].status = IF mem[w].failed THEN "failed" ELSE "ready"
    BY <2>1, <2>2 DEF RowFits, Decided, Early, BuildInv, NodeFits
  <2>5. QED BY <2>1, <2>2, <2>3, <2>4, LeavesFollows
<1>12. CASE FinishHushed(w)
  <2>1. Building(w) BY <1>12 DEF FinishHushed, Building
  <2>2. PICK d \in Exports : on[w] = d BY <2>1, BuilderFacts
  <2>3. /\ \A e \in Exports : e # d => jobs'[e] = jobs[e]
        /\ Leaves(w, "idle") /\ UNCHANGED << exports, asker, saved, reaping, deleted >>
    BY <1>12, <2>2 DEF FinishHushed, CloseJob, Typed, ExportTypeOK, pickedVars
  <2>4. ~ Kept(d)'
    BY <1>12, <2>2 DEF FinishHushed, Kept, Typed, ExportTypeOK, History
  <2>5. QED BY <2>1, <2>2, <2>3, <2>4, LeavesFollows
<1>13. CASE MarkFailed(w)
  <2>1. Building(w) /\ at[w] = "mark" BY <1>13 DEF MarkFailed, Building
  <2>2. PICK d \in Exports : on[w] = d BY <2>1, BuilderFacts
  <2>3. jobs[d].status = "failed" BY <2>1, <2>2 DEF BuildInv, SoleBuilder
  <2>4. /\ exports'[d].status = "failed" /\ exports'[d].lapsed = exports[d].lapsed
        /\ \A e \in Exports : e # d => exports'[e] = exports[e]
        /\ Leaves(w, "idle") /\ UNCHANGED << jobs, asker, saved, reaping, deleted >>
    BY <1>0, <1>13, <2>2 DEF MarkFailed, ExportRow, pickedVars
  <2>5. QED BY <2>1, <2>2, <2>3, <2>4, LeavesFollows
<1>14. QED
  BY <1>2, <1>3, <1>4, <1>5, <1>6, <1>7, <1>8, <1>9, <1>10, <1>11, <1>12, <1>13

\* A step that writes rows of an export nobody builds.
LEMMA RowsFollow ==
  ASSUME FollowInv, \A e \in Exports : Kept(e)' => Kept(e), NEW e \in Exports,
         UNCHANGED << at, on, mem >>, \A w \in ExportWorkers : on[w] # e,
         \A d \in Exports : d # e =>
           /\ exports'[d] = exports[d] /\ jobs'[d].status = jobs[d].status /\ asker'[d] = asker[d]
           /\ saved'[d] = saved[d] /\ reaping'[d] = reaping[d] /\ (deleted' = d => deleted = d),
         Story(e) => Story(e)'
  PROVE  FollowInv'
<1>1. ASSUME NEW d \in Exports, d # e PROVE Fits(d)'
  <2>1. Fits(d) /\ (Kept(d)' => Kept(d)) BY DEF FollowInv
  <2>2. QED BY <1>1, <2>1, UntouchedFollows
<1>2. Kept(e)' => Story(e)' BY DEF FollowInv, Fits
<1>3. Fits(e)' BY <1>2 DEF Fits
<1>4. QED BY <1>1, <1>3 DEF FollowInv

LEMMA ExportActionFollows ==
  ASSUME Typed, BuildInv, FollowInv, \A e \in Exports : Kept(e)' => Kept(e),
         NEW e \in Exports, ExportAction(e)
  PROVE  FollowInv'
<1>1. jobs[e].status \notin {"running", "failed"} => \A w \in ExportWorkers : on[w] # e
  <2>1. ASSUME NEW w \in ExportWorkers, on[w] = e PROVE jobs[e].status \in {"running", "failed"}
    <3>1. Building(w) BY <2>1, SentinelsAssumption DEF Building, Typed, ExportTypeOK
    <3>2. QED BY <2>1, <3>1, BuilderFacts
  <2>2. QED BY <2>1
<1>2. /\ exports[e] \in ExportRow /\ exports \in [Exports -> ExportRow]
      /\ jobs[e] \in JobRow /\ jobs \in [Exports -> JobRow] /\ saved \in [Exports -> State]
      /\ asker \in [Exports -> {"idle", "read", "marked", "done"}]
  BY DEF Typed, ExportTypeOK
<1>3. /\ exports[e].status = "absent" => asker[e] = "idle"
      /\ asker[e] # "done" => jobs[e].status = "none"
  BY DEF BuildInv, NothingYet
<1>4. CASE Offer(e) \/ Refuse(e)
  <2>1. exports[e].status = "absent" /\ jobs[e].status = "none" /\ asker[e] = "idle"
    BY <1>3, <1>4 DEF Offer, Refuse
  <2>2. /\ UNCHANGED << jobs, asker, at, on, mem, reaping, deleted >>
        /\ exports'[e].lapsed = exports[e].lapsed
        /\ \/ /\ exports'[e].status = "offered" /\ saved'[e] = Paused
              /\ exports'[e].message = exports[e].message
           \/ exports'[e].status = "failed"
        /\ \A d \in Exports : d # e => exports'[d] = exports[d] /\ saved'[d] = saved[d]
    <3>1. CASE Offer(e)
      BY <1>2, <2>1, <3>1 DEF Offer, SetStatus, ExportRow, graphVars, pickedVars
    <3>2. CASE Refuse(e) BY <1>2, <3>2 DEF Refuse, ExportRow, graphVars, pickedVars
    <3>3. QED BY <1>4, <3>1, <3>2
  <2>3. Story(e) => Story(e)' BY <2>1, <2>2 DEF Story
  <2>4. QED BY <1>1, <2>1, <2>2, <2>3, RowsFollow
<1>5. CASE ConfirmReads(e)
  <2>1. /\ UNCHANGED << exports, jobs, at, on, mem, saved, reaping, deleted >>
        /\ exports[e].status = "offered" /\ jobs[e].status = "none" /\ asker'[e] = "read"
        /\ \A d \in Exports : d # e => asker'[d] = asker[d]
    BY <1>2, <1>3, <1>5 DEF ConfirmReads, graphVars, pickedVars
  <2>2. Story(e) => Story(e)' BY <2>1 DEF Story
  <2>3. QED BY <1>1, <2>1, <2>2, RowsFollow
<1>6. CASE ConfirmMarks(e)
  <2>1. /\ UNCHANGED << jobs, at, on, mem, saved, reaping, deleted >>
        /\ asker[e] = "read" /\ jobs[e].status = "none" /\ asker'[e] = "marked"
        /\ \A d \in Exports : d # e => asker'[d] = asker[d]
        /\ exports'[e].status = "queued" /\ exports'[e].message = exports[e].message
        /\ exports'[e].lapsed = exports[e].lapsed
        /\ \A d \in Exports : d # e => exports'[d] = exports[d]
    BY <1>2, <1>3, <1>6 DEF ConfirmMarks, SetStatus, ExportRow, graphVars, pickedVars
  <2>2. Story(e) => Story(e)' BY <2>1 DEF Story
  <2>3. QED BY <1>1, <2>1, <2>2, RowsFollow
<1>7. CASE ConfirmQueues(e)
  <2>1. /\ UNCHANGED << exports, at, on, mem, saved, reaping, deleted >>
        /\ asker[e] = "marked" /\ jobs[e].status = "none" /\ asker'[e] = "done"
        /\ \A d \in Exports : d # e => asker'[d] = asker[d]
        /\ jobs'[e].status = "queued" /\ \A d \in Exports : d # e => jobs'[d] = jobs[d]
    BY <1>2, <1>3, <1>7 DEF ConfirmQueues, JobRow, graphVars, pickedVars
  <2>2. ASSUME Story(e) PROVE Story(e)'
    <3>1. /\ exports[e].status = "queued" /\ ~ exports[e].message /\ saved[e] = Paused
          /\ ~ exports[e].lapsed /\ reaping[e] = NoFile /\ deleted # e
      BY <2>1, <2>2 DEF Story
    <3>2. Undecided(e)' BY <2>1, <3>1 DEF Undecided, Early, Paused
    <3>3. QED BY <2>1, <3>1, <3>2 DEF Story
  <2>3. QED BY <1>1, <2>1, <2>2, RowsFollow
<1>8. CASE RequestDies(e) \/ JobLapses(e)
  <2>1. UNCHANGED << exports, at, on, mem, saved, reaping, deleted >>
    BY <1>8 DEF RequestDies, JobLapses, graphVars, pickedVars
  <2>2. \A d \in Exports : jobs'[d].status = jobs[d].status
    <3>1. CASE RequestDies(e) BY <3>1 DEF RequestDies
    <3>2. CASE JobLapses(e)
      <4>1. jobs' = [jobs EXCEPT ![e] = [@ EXCEPT !.fresh = FALSE]] BY <3>2 DEF JobLapses
      <4>2. jobs'[e].status = jobs[e].status BY <1>2, <4>1 DEF JobRow
      <4>3. QED BY <1>2, <4>1, <4>2
    <3>3. QED BY <1>8, <3>1, <3>2
  <2>3. \A d \in Exports : asker'[d] = asker[d] \/ asker'[d] = "done"
    <3>1. CASE RequestDies(e)
      <4>1. asker' = [asker EXCEPT ![e] = "done"] BY <3>1 DEF RequestDies
      <4>2. QED BY <1>2, <4>1
    <3>2. CASE JobLapses(e) BY <3>2 DEF JobLapses
    <3>3. QED BY <1>8, <3>1, <3>2
  <2>4. ASSUME NEW d \in Exports PROVE Fits(d)'
    <3>1. Fits(d) /\ (Kept(d)' => Kept(d)) BY DEF FollowInv
    <3>2. CASE asker'[d] = asker[d] BY <2>1, <2>2, <3>1, <3>2, UntouchedFollows
    <3>3. CASE asker'[d] = "done"
      <4>1. (Undecided(d)' <=> Undecided(d)) /\ (Held(d)' <=> Held(d))
        BY <2>1 DEF Undecided, Early, Held
      <4>2. Story(d) => Story(d)' BY <2>1, <2>2, <3>3, <4>1 DEF Story
      <4>3. ASSUME NEW w \in ExportWorkers, on[w] = d, RowFits(w) PROVE RowFits(w)'
        BY <2>1, <4>3 DEF RowFits, Driving, Decided, Undecided, Early
      <4>4. QED BY <2>1, <3>1, <4>2, <4>3 DEF Fits
    <3>4. QED BY <2>3, <3>2, <3>3
  <2>5. QED BY <2>4 DEF FollowInv
<1>9. CASE TimeIsUp(e)
  <2>1. /\ UNCHANGED << jobs, asker, at, on, mem, saved, reaping, deleted >>
        /\ exports[e].status = "ready" /\ jobs[e].status # "running" /\ ~ Held(e)
        /\ exports'[e].status = "ready" /\ \A d \in Exports : d # e => exports'[d] = exports[d]
    BY <1>2, <1>9 DEF TimeIsUp, ExportRow, graphVars, pickedVars
  <2>2. Story(e) => jobs[e].status = "succeeded"
    <3>1. jobs[e].status \in JobStatus BY <1>2 DEF JobRow
    <3>2. QED BY <2>1, <3>1 DEF Story, JobStatus
  <2>3. Story(e) => Story(e)' BY <2>1, <2>2 DEF Story
  <2>4. \A w \in ExportWorkers : on[w] # e BY <2>1 DEF Held
  <2>5. QED BY <2>1, <2>3, <2>4, RowsFollow
<1>10. CASE ReaperDeletes(e)
  <2>1. /\ UNCHANGED << exports, jobs, asker, at, on, mem, saved, reaping >>
        /\ reaping[e] # NoFile /\ deleted' = e
    BY <1>10 DEF ReaperDeletes, graphVars
  <2>2. ASSUME NEW d \in Exports PROVE Fits(d)'
    <3>1. Fits(d) /\ (Kept(d)' => Kept(d)) BY DEF FollowInv
    <3>2. CASE d # e BY <2>1, <3>1, <3>2, UntouchedFollows
    <3>3. CASE d = e
      <4>1. (Undecided(d)' <=> Undecided(d)) /\ (Held(d)' <=> Held(d))
        BY <2>1 DEF Undecided, Early, Held
      <4>2. Story(d) => Story(d)' BY <2>1, <3>3, <4>1 DEF Story
      <4>3. ASSUME NEW w \in ExportWorkers, on[w] = d, RowFits(w) PROVE RowFits(w)'
        BY <2>1, <4>3 DEF RowFits, Driving, Decided, Undecided, Early
      <4>4. QED BY <2>1, <3>1, <4>2, <4>3 DEF Fits
    <3>4. QED BY <3>2, <3>3
  <2>3. QED BY <2>2 DEF FollowInv
<1>11. CASE ReaperMarks(e)
  <2>1. /\ deleted = e /\ deleted' = NoExport
        /\ exports'[e].status = "expired" /\ \A d \in Exports : d # e => exports'[d] = exports[d]
        /\ \A d \in Exports : d # e => reaping'[d] = reaping[d]
        /\ UNCHANGED << jobs, asker, at, on, mem, saved >>
    BY <1>2, <1>11 DEF ReaperMarks, ExportRow, graphVars, Typed, ExportTypeOK
  <2>2. \A d \in Exports : deleted' # d BY <2>1, SentinelsAssumption
  <2>3. CASE jobs[e].status = "succeeded"
    <3>1. Story(e)' BY <2>1, <2>3 DEF Story
    <3>2. QED BY <1>1, <2>1, <2>2, <2>3, <3>1, RowsFollow
  <2>4. CASE jobs[e].status # "succeeded"
    <3>1. ~ Kept(e)' BY <2>1, <2>4 DEF FollowInv, Fits, Story
    <3>2. ASSUME NEW d \in Exports, d # e PROVE Fits(d)'
      <4>1. Fits(d) /\ (Kept(d)' => Kept(d)) BY DEF FollowInv
      <4>2. QED BY <2>1, <2>2, <3>2, <4>1, UntouchedFollows
    <3>3. QED BY <3>1, <3>2 DEF FollowInv, Fits
  <2>5. QED BY <2>3, <2>4
<1>12. QED
  BY <1>4, <1>5, <1>6, <1>7, <1>8, <1>9, <1>10, <1>11 DEF ExportAction

LEMMA SweepFollows ==
  ASSUME Typed, FollowInv, \A e \in Exports : Kept(e)' => Kept(e), ReaperSelects \/ SweepBreaks
  PROVE  FollowInv'
<1>1. /\ UNCHANGED << exports, jobs, asker, at, on, mem, saved >>
      /\ \A e \in Exports : reaping'[e] # NoFile => exports[e].lapsed
      /\ \A e \in Exports : deleted' = e => deleted = e
  BY SentinelsAssumption DEF ReaperSelects, SweepBreaks, graphVars
<1>2. ASSUME NEW e \in Exports PROVE Fits(e)'
  <2>1. Fits(e) /\ (Kept(e)' => Kept(e)) BY DEF FollowInv
  <2>2. QED BY <1>1, <2>1, UntouchedFollows
<1>3. QED BY <1>2 DEF FollowInv

LEMMA StillFollows == ASSUME FollowInv, UNCHANGED exportVars PROVE FollowInv'
<1>1. ASSUME NEW e \in Exports PROVE Fits(e)'
  <2>1. Fits(e) BY DEF FollowInv
  <2>2. Kept(e)' => Kept(e) BY DEF Kept, exportVars
  <2>3. QED BY <2>1, <2>2, UntouchedFollows DEF exportVars
<1>2. QED BY <1>1 DEF FollowInv

LEMMA FollowStep ==
  ASSUME Typed, BuildInv, FollowInv, [ExportNext]_exportVars, ~ RequeuesTaken PROVE FollowInv'
<1>1. \A e \in Exports : Kept(e)' => Kept(e) BY KeptBefore
<1>2. ASSUME NEW w \in ExportWorkers, WorkerAction(w) PROVE FollowInv'
  <2>1. RequeueWrite(w) => stale[w] \subseteq StaleJobs BY DEF RequeuesTaken
  <2>2. QED
    BY <1>1, <1>2, <2>1, BatchFollows, NodeFollows, QueueFollows
    DEF WorkerAction, BuildStep, Misfortune
<1>3. QED BY <1>1, <1>2, StillFollows, StepKinds, ExportActionFollows, SweepFollows

\* However many exports, workers, deaths and failing calls there are: a job nobody is
\* working on and its export say the same, except of the exports whose worker was gone
\* with half of the outcome told and of those closed by an exception without a text,
\* until a requeue writes over a job that was not stale any more.
THEOREM JobAndExportAgree ==
  ExportSpec /\ [][~ RequeuesTaken]_exportVars => []ExportFollowsJob
<1>1. Typed /\ BuildInv /\ FollowInv /\ [ExportNext]_exportVars /\ [~ RequeuesTaken]_exportVars
      => FollowInv'
  <2> SUFFICES ASSUME Typed, BuildInv, FollowInv, [ExportNext]_exportVars,
                      [~ RequeuesTaken]_exportVars
               PROVE  FollowInv'
    OBVIOUS
  <2>1. CASE ~ RequeuesTaken BY <2>1, FollowStep
  <2>2. CASE UNCHANGED exportVars BY <2>2, StillFollows
  <2>3. QED BY <2>1, <2>2
<1>2. QED
  BY <1>1, FitsAgree, FollowInitially, TypedInvariant, BuildInvariant, PTL DEF ExportSpec

\* With one worker nothing comes between its SELECT and its UPDATE.
THEOREM OneWorkerJobAndExportAgree == ASSUME LoneWorker PROVE ExportSpec => []ExportFollowsJob
  BY LoneWorkerRequeues, JobAndExportAgree, PTL
=============================================================================
