---------------------------- MODULE ExportQueue ----------------------------
(***************************************************************************)
(* Building a downloadable file: the request that offers and confirms it,  *)
(* the job queue, the LangGraph run that reads batches into part files and *)
(* folds them into one artifact, the checkpoints of that run, and the      *)
(* reaper of finished files.                                               *)
(*                                                                         *)
(* A worker is one process: the queue's task with the graph run it drives. *)
(* A commit, a checkpoint and an operation on a file are one step each.    *)
(* The result set does not change while it is read; a batch is its number. *)
(***************************************************************************)
EXTENDS Naturals, FiniteSets

CONSTANTS
  Exports,          \* rows of download_exports
  ExportWorkers,    \* processes that run run_worker
  BatchCount,       \* full batches of every result set
  WantedName,       \* [Exports -> names]: table, date and session of the artifact
  MaxSuffix,        \* how many numbered variants of a name are tried
  MaxBatchAttempts, \* attempts at one batch
  MaxDeaths,        \* bound: processes and requests that die
  MaxTroubles,      \* bound: calls that raise
  ReaperMayDie,     \* may a process die between deleting a file and saying so?
  NoFile, Fragment, NoExport

ASSUME BatchesAssumption == BatchCount \in Nat
ASSUME SuffixAssumption == MaxSuffix \in Nat
ASSUME BatchAttemptsAssumption == MaxBatchAttempts \in Nat \ {0}
ASSUME DeathsAssumption == MaxDeaths \in Nat
ASSUME TroublesAssumption == MaxTroubles \in Nat
ASSUME SentinelsAssumption ==
  /\ NoFile \notin Exports /\ Fragment \notin Exports /\ NoExport \notin Exports
  /\ NoFile # Fragment

VARIABLES
  exports,  \* download_exports: status, artifact, message, and whether its time is up
  jobs,     \* download_jobs: status and whether the heartbeat is recent
  asker,    \* the request that confirms: what it has done
  at,       \* what each worker is doing
  on,       \* the export it is building
  mem,      \* the graph state it holds in memory
  try,      \* the attempt at the current batch
  dest,     \* the name the merge settled on
  cursor,   \* the reader it keeps for an export: the next batch of the open cursor
  saved,    \* the checkpoint of each export's thread
  parts,    \* the part files of each export: whose rows each one holds
  files,    \* the artifacts on disk
  stale,    \* the jobs each worker has read as stale and not requeued yet
  reaping,  \* the reaper's list: the artifact of each row it selected
  deleted,  \* the row whose files it has just removed
  history   \* what happened: how often, and to which exports (see History)

exportVars == << exports, jobs, asker, at, on, mem, try, dest, cursor, saved,
                 parts, files, stale, reaping, deleted, history >>
graphVars == << at, on, mem, try, dest, cursor >>
pickedVars == << stale, reaping, deleted >>

-----------------------------------------------------------------------------
(* The values.                                                             *)

Status == {"absent", "offered", "queued", "building", "ready", "failed", "expired"}
JobStatus == {"none", "queued", "running", "succeeded", "failed"}
Names == { WantedName[e] : e \in Exports }
Artifacts == Names \X (0 .. MaxSuffix)
Batch == 1 .. BatchCount
Torn == BatchCount + 2
Node == {"none", "confirm", "batch", "merge", "publish", "notify", "cleanup", "end"}
State == [node: Node, batch: 1 .. BatchCount + 1, failed: BOOLEAN,
          file: Artifacts \cup {NoFile}]
Paused == [node |-> "confirm", batch |-> 1, failed |-> FALSE, file |-> NoFile]
ExportRow == [status: Status, file: Artifacts \cup {NoFile}, message: BOOLEAN, lapsed: BOOLEAN]
JobRow == [status: JobStatus, fresh: BOOLEAN]

\* Beside the bounded events: the exports whose worker was gone between the
\* outcome of the export and that of its job, and those whose job was closed
\* after an exception without a text.
History == [deaths: 0 .. MaxDeaths, troubles: 0 .. MaxTroubles,
            severed: SUBSET Exports, hushed: SUBSET Exports]
Running == {"claimed", "node", "writing", "named", "merging"}

\* Type invariant: the tables, the disk and the processes keep their types.
ExportTypeOK ==
  /\ exports \in [Exports -> ExportRow]
  /\ jobs \in [Exports -> JobRow]
  /\ asker \in [Exports -> {"idle", "read", "marked", "done"}]
  /\ at \in [ExportWorkers -> Running \cup {"down", "idle", "close", "raised", "hushed", "mark"}]
  /\ on \in [ExportWorkers -> Exports \cup {NoExport}]
  /\ \A w \in ExportWorkers : on[w] = NoExport <=> at[w] \in {"down", "idle"}
  /\ mem \in [ExportWorkers -> State]
  /\ try \in [ExportWorkers -> 1 .. MaxBatchAttempts]
  /\ dest \in [ExportWorkers -> Artifacts \cup {NoFile}]
  /\ cursor \in [ExportWorkers -> [Exports -> 0 .. BatchCount + 2]]
  /\ saved \in [Exports -> State]
  /\ parts \in [Exports -> [Batch -> 0 .. Torn]]
  /\ files \in [Artifacts -> Exports \cup {NoFile, Fragment}]
  /\ stale \in [ExportWorkers -> SUBSET Exports]
  /\ reaping \in [Exports -> Artifacts \cup {NoFile}]
  /\ deleted \in Exports \cup {NoExport}
  /\ history \in History

NoParts == [b \in Batch |-> 0]

\* Two people have asked nothing yet; every process runs.
ExportInit ==
  /\ exports = [e \in Exports |-> [status |-> "absent", file |-> NoFile,
                                   message |-> FALSE, lapsed |-> FALSE]]
  /\ jobs = [e \in Exports |-> [status |-> "none", fresh |-> FALSE]]
  /\ asker = [e \in Exports |-> "idle"]
  /\ at = [w \in ExportWorkers |-> "idle"]
  /\ on = [w \in ExportWorkers |-> NoExport]
  /\ mem = [w \in ExportWorkers |-> Paused]
  /\ try = [w \in ExportWorkers |-> 1]
  /\ dest = [w \in ExportWorkers |-> NoFile]
  /\ cursor = [w \in ExportWorkers |-> [e \in Exports |-> 0]]
  /\ saved = [e \in Exports |-> [Paused EXCEPT !.node = "none"]]
  /\ parts = [e \in Exports |-> NoParts]
  /\ files = [f \in Artifacts |-> NoFile]
  /\ stale = [w \in ExportWorkers |-> {}]
  /\ reaping = [e \in Exports |-> NoFile]
  /\ deleted = NoExport
  /\ history = [deaths |-> 0, troubles |-> 0, severed |-> {}, hushed |-> {}]

Dies == /\ history.deaths < MaxDeaths
        /\ history' = [history EXCEPT !.deaths = @ + 1]
Raises == /\ history.troubles < MaxTroubles
          /\ history' = [history EXCEPT !.troubles = @ + 1]

SetStatus(e, s) == exports' = [exports EXCEPT ![e].status = s]
Held(e) == \E w \in ExportWorkers : on[w] = e

\* One of the two rows has its outcome and the other is about to get it.
HalfTold(w) ==
  on[w] # NoExport /\ (at[w] = "mark" \/ exports[on[w]].status \in {"ready", "failed"})
Severed(w) == IF HalfTold(w) THEN history.severed \cup {on[w]} ELSE history.severed

-----------------------------------------------------------------------------
(* The conversation.                                                       *)

\* A large result: the row is created and the graph runs up to the question.
Offer(e) ==
  /\ exports[e].status = "absent"
  /\ SetStatus(e, "offered")
  /\ saved' = [saved EXCEPT ![e] = Paused]
  /\ UNCHANGED << jobs, asker, graphVars, parts, files, pickedVars, history >>

\* The graph's own count is past the ceiling: the row carries the refusal.
Refuse(e) ==
  /\ exports[e].status = "absent"
  /\ exports' = [exports EXCEPT ![e].status = "failed", ![e].message = TRUE]
  /\ saved' = [saved EXCEPT ![e] = [Paused EXCEPT !.node = "end", !.failed = TRUE]]
  /\ UNCHANGED << jobs, asker, graphVars, parts, files, pickedVars, history >>

\* "Yes": confirm_download reads the offer, commits the status, then the job.
ConfirmReads(e) ==
  /\ asker[e] = "idle" /\ exports[e].status = "offered"
  /\ asker' = [asker EXCEPT ![e] = "read"]
  /\ UNCHANGED << exports, jobs, graphVars, saved, parts, files, pickedVars, history >>

ConfirmMarks(e) ==
  /\ asker[e] = "read"
  /\ asker' = [asker EXCEPT ![e] = "marked"]
  /\ SetStatus(e, "queued")
  /\ UNCHANGED << jobs, graphVars, saved, parts, files, pickedVars, history >>

ConfirmQueues(e) ==
  /\ asker[e] = "marked"
  /\ asker' = [asker EXCEPT ![e] = "done"]
  /\ jobs' = [jobs EXCEPT ![e].status = "queued"]
  /\ UNCHANGED << exports, graphVars, saved, parts, files, pickedVars, history >>

RequestDies(e) ==
  /\ asker[e] \in {"read", "marked"}
  /\ Dies
  /\ asker' = [asker EXCEPT ![e] = "done"]
  /\ UNCHANGED << exports, jobs, graphVars, saved, parts, files, pickedVars >>

-----------------------------------------------------------------------------
(* The queue.                                                              *)

\* The heartbeat of a job nobody works on passes the threshold.
JobLapses(e) ==
  /\ jobs[e].status = "running" /\ jobs[e].fresh /\ ~ Held(e)
  /\ jobs' = [jobs EXCEPT ![e].fresh = FALSE]
  /\ UNCHANGED << exports, asker, graphVars, saved, parts, files, pickedVars, history >>

StaleJobs == { e \in Exports : jobs[e].status = "running" /\ ~ jobs[e].fresh }

\* requeue_stale_jobs begins with a SELECT that locks nothing.
RequeueSelect(w) ==
  /\ at[w] = "idle" /\ stale[w] = {} /\ StaleJobs # {}
  /\ stale' = [stale EXCEPT ![w] = StaleJobs]
  /\ UNCHANGED << exports, jobs, asker, graphVars, saved, parts, files, reaping, deleted, history >>

Requeued(w) == [e \in Exports |-> IF e \in stale[w] THEN [exports[e] EXCEPT !.status = "queued"]
                                  ELSE exports[e]]

\* Mutation: only the export goes back to the queue.
RequeueForgetsJobs(w) ==
  /\ at[w] = "idle" /\ stale[w] # {}
  /\ exports' = Requeued(w)
  /\ stale' = [stale EXCEPT ![w] = {}]
  /\ UNCHANGED << jobs, asker, graphVars, saved, parts, files, reaping, deleted, history >>

\* Then every job it found, and its export, are written by id in one commit,
\* whatever another worker has made of them in the meantime.
RequeueWrite(w) ==
  /\ at[w] = "idle" /\ stale[w] # {}
  /\ jobs' = [e \in Exports |-> IF e \in stale[w] THEN [status |-> "queued", fresh |-> FALSE]
                                ELSE jobs[e]]
  /\ exports' = Requeued(w)
  /\ stale' = [stale EXCEPT ![w] = {}]
  /\ UNCHANGED << asker, graphVars, saved, parts, files, reaping, deleted, history >>

\* The statement or the commit raises: run_worker logs it and goes on.
RequeueRaises(w) ==
  /\ at[w] = "idle" /\ stale[w] # {}
  /\ Raises
  /\ stale' = [stale EXCEPT ![w] = {}]
  /\ UNCHANGED << exports, jobs, asker, graphVars, saved, parts, files, reaping, deleted >>

\* claim_next_job: row lock and commit are one step. A job that went stale
\* after this worker's requeue waits for its next round, so no guard on that.
Claim(w, e) ==
  /\ at[w] = "idle" /\ stale[w] = {} /\ jobs[e].status = "queued"
  /\ jobs' = [jobs EXCEPT ![e] = [status |-> "running", fresh |-> TRUE]]
  /\ at' = [at EXCEPT ![w] = "claimed"]
  /\ on' = [on EXCEPT ![w] = e]
  /\ UNCHANGED << exports, asker, mem, try, dest, cursor, saved, parts, files, pickedVars, history >>

\* The state a resumed thread goes on from: past the question, or the node the
\* last checkpoint names.
Resumed(s) == IF s.node = "confirm" THEN [s EXCEPT !.node = "batch"] ELSE s

\* mark_building, and the graph is resumed from its checkpoint.
Begin(w) ==
  /\ at[w] = "claimed"
  /\ SetStatus(on[w], "building")
  /\ mem' = [mem EXCEPT ![w] = Resumed(saved[on[w]])]
  /\ at' = [at EXCEPT ![w] = "node"]
  /\ try' = [try EXCEPT ![w] = 1]
  /\ UNCHANGED << jobs, asker, on, dest, cursor, saved, parts, files, pickedVars, history >>

-----------------------------------------------------------------------------
(* The graph. Every node ends by choosing the next one; the saver writes   *)
(* the state of a finished node while later nodes already run.             *)

InNode(w, n) == at[w] = "node" /\ mem[w].node = n
Goto(w, s) == /\ mem' = [mem EXCEPT ![w] = s]
              /\ at' = [at EXCEPT ![w] = "node"]

SaveCheckpoint(w) ==
  /\ at[w] \in Running \ {"claimed"} /\ saved[on[w]] # mem[w]
  /\ saved' = [saved EXCEPT ![on[w]] = mem[w]]
  /\ UNCHANGED << exports, jobs, asker, graphVars, parts, files, pickedVars, history >>

\* Mutation: a failed batch counts as the end of the result set.
AfterBatchMergesFailure(s, failed, finished) ==
  [s EXCEPT !.failed = failed,
            !.node = IF failed \/ finished THEN "merge" ELSE "batch"]

\* _after_batch: a failure is looked at before the end of the reading.
AfterBatch(s, failed, finished) ==
  [s EXCEPT !.failed = failed,
            !.node = IF failed THEN "notify" ELSE IF finished THEN "merge" ELSE "batch"]

\* Mutation: an open cursor is used as it stands.
ReadsAtCursor(w, e, b) == IF cursor[w][e] = 0 THEN b ELSE cursor[w][e]

\* BatchReader.read: the batch the rows come from. A cursor that is not where
\* it should be is opened again and skips forward.
ReadsAt(w, e, b) ==
  IF cursor[w][e] = 0 \/ cursor[w][e] # b THEN b ELSE cursor[w][e]

\* The first empty read ends the loop.
ReadsNothing(w) ==
  LET e == on[w]  b == mem[w].batch IN
  /\ InNode(w, "batch") /\ ReadsAt(w, e, b) > BatchCount
  /\ cursor' = [cursor EXCEPT ![w][e] = b + 1]
  /\ Goto(w, AfterBatch(mem[w], FALSE, TRUE))
  /\ UNCHANGED << exports, jobs, asker, on, try, dest, saved, parts, files, pickedVars, history >>

\* An attempt: the rows are in memory and the part's file is opened.
StartsPart(w) ==
  LET e == on[w]  b == mem[w].batch IN
  /\ InNode(w, "batch") /\ ReadsAt(w, e, b) \in Batch
  /\ parts' = [parts EXCEPT ![e][b] = Torn]
  /\ at' = [at EXCEPT ![w] = "writing"]
  /\ UNCHANGED << exports, jobs, asker, on, mem, try, dest, cursor, saved, files, pickedVars, history >>

\* The part is on disk and recorded: the batch is done.
WritesPart(w) ==
  LET e == on[w]  b == mem[w].batch IN
  /\ at[w] = "writing"
  /\ parts' = [parts EXCEPT ![e][b] = ReadsAt(w, e, b)]
  /\ cursor' = [cursor EXCEPT ![w][e] = ReadsAt(w, e, b) + 1]
  /\ try' = [try EXCEPT ![w] = 1]
  /\ Goto(w, AfterBatch([mem[w] EXCEPT !.batch = b + 1], FALSE, FALSE))
  /\ UNCHANGED << exports, jobs, asker, on, dest, saved, files, pickedVars, history >>

\* An attempt fails: the part goes (or stays, when discarding it fails as
\* well) and the batch is tried again, up to MaxBatchAttempts. Either the
\* rows had been read, or the fetch raised and the cursor is where it was.
AttemptFails(w) ==
  LET e == on[w]  b == mem[w].batch IN
  /\ at[w] = "writing"
  /\ Raises
  /\ \E left \in {0, Torn} : parts' = [parts EXCEPT ![e][b] = left]
  /\ \E next \in {cursor[w][e], ReadsAt(w, e, b) + 1} :
        cursor' = [cursor EXCEPT ![w][e] = next]
  /\ IF try[w] < MaxBatchAttempts
     THEN /\ try' = [try EXCEPT ![w] = @ + 1]
          /\ Goto(w, mem[w])
     ELSE /\ try' = [try EXCEPT ![w] = 1]
          /\ Goto(w, AfterBatch(mem[w], TRUE, FALSE))
  /\ UNCHANGED << exports, jobs, asker, on, dest, saved, files, pickedVars >>

\* A ToolQueryError is permanent and is not tried again.
QueryRefused(w) ==
  /\ InNode(w, "batch")
  /\ Raises
  /\ Goto(w, AfterBatch(mem[w], TRUE, FALSE))
  /\ UNCHANGED << exports, jobs, asker, on, try, dest, cursor, saved, parts, files, pickedVars >>

-----------------------------------------------------------------------------
(* Merging.                                                                *)

Variants(e) == { << WantedName[e], i >> : i \in 0 .. MaxSuffix }

\* Mutation: the wanted name is used as it is.
FreeNameWanted(e) == { << WantedName[e], 0 >> }

\* available_artifact_name: the first variant of the name no file has.
FreeName(e) ==
  { f \in Variants(e) : /\ files[f] = NoFile
                        /\ \A i \in 0 .. f[2] - 1 : files[<< f[1], i >>] # NoFile }

ChoosesName(w) ==
  /\ InNode(w, "merge")
  /\ \E f \in FreeName(on[w]) : dest' = [dest EXCEPT ![w] = f]
  /\ at' = [at EXCEPT ![w] = "named"]
  /\ UNCHANGED << exports, jobs, asker, on, mem, try, cursor, saved, parts, files, pickedVars, history >>

\* Every variant is taken: the RuntimeError is raised outside the node's try.
NamesRunOut(w) ==
  /\ InNode(w, "merge") /\ FreeName(on[w]) = {}
  /\ at' = [at EXCEPT ![w] = "raised"]
  /\ UNCHANGED << exports, jobs, asker, on, mem, try, dest, cursor, saved, parts, files, pickedVars, history >>

OpensArtifact(w) ==
  /\ at[w] = "named"
  /\ files' = [files EXCEPT ![dest[w]] = Fragment]
  /\ at' = [at EXCEPT ![w] = "merging"]
  /\ UNCHANGED << exports, jobs, asker, on, mem, try, dest, cursor, saved, parts, pickedVars, history >>

Listed(w) == { b \in Batch : b < mem[w].batch }   \* part_paths of the state

\* What the parts add up to: the export when they hold its batches in order.
Merged(w) ==
  IF \A b \in Batch : b \in Listed(w) /\ parts[on[w]][b] = b THEN on[w] ELSE Fragment

MergeEnds(w) ==
  /\ at[w] = "merging"
  /\ \A b \in Listed(w) : parts[on[w]][b] # 0
  /\ files' = [files EXCEPT ![dest[w]] = Merged(w)]
  /\ Goto(w, [mem[w] EXCEPT !.node = "publish", !.file = dest[w]])
  /\ dest' = [dest EXCEPT ![w] = NoFile]
  /\ UNCHANGED << exports, jobs, asker, on, try, cursor, saved, parts, pickedVars, history >>

MergeFailed(w) ==
  /\ Goto(w, [mem[w] EXCEPT !.node = "notify", !.failed = TRUE])
  /\ dest' = [dest EXCEPT ![w] = NoFile]
  /\ UNCHANGED << exports, jobs, asker, on, try, cursor, saved, parts, files, pickedVars >>

\* A part is not there any more; what was written of the artifact stays.
PartMissing(w) ==
  /\ at[w] = "merging"
  /\ \E b \in Listed(w) : parts[on[w]][b] = 0
  /\ MergeFailed(w)
  /\ UNCHANGED history

MergeRaises(w) ==
  /\ at[w] \in {"named", "merging"}
  /\ Raises
  /\ MergeFailed(w)

-----------------------------------------------------------------------------
(* The end of a build.                                                     *)

\* mark_ready: from here on the route serves the file.
Publish(w) ==
  /\ InNode(w, "publish")
  /\ exports' = [exports EXCEPT ![on[w]] =
                   [status |-> "ready", file |-> mem[w].file, message |-> FALSE, lapsed |-> FALSE]]
  /\ Goto(w, [mem[w] EXCEPT !.node = "cleanup"])
  /\ UNCHANGED << jobs, asker, on, try, dest, cursor, saved, parts, files, pickedVars, history >>

\* A row that carries a message already keeps it, and its status.
NotifyFailure(w) ==
  /\ InNode(w, "notify")
  /\ exports' = IF exports[on[w]].message THEN exports
                ELSE [exports EXCEPT ![on[w]].status = "failed", ![on[w]].message = TRUE]
  /\ Goto(w, [mem[w] EXCEPT !.node = "cleanup"])
  /\ UNCHANGED << jobs, asker, on, try, dest, cursor, saved, parts, files, pickedVars, history >>

\* The reader is closed and the export's own directory goes, whatever the
\* outcome; the artifact is in the session's directory and stays.
Cleanup(w) ==
  /\ InNode(w, "cleanup")
  /\ cursor' = [cursor EXCEPT ![w][on[w]] = 0]
  /\ parts' = [parts EXCEPT ![on[w]] = NoParts]
  /\ Goto(w, [mem[w] EXCEPT !.node = "end"])
  /\ UNCHANGED << exports, jobs, asker, on, try, dest, saved, files, pickedVars, history >>

\* resume_export returns once the last checkpoint is written.
Returns(w) ==
  /\ InNode(w, "end") /\ saved[on[w]] = mem[w]
  /\ at' = [at EXCEPT ![w] = "close"]
  /\ UNCHANGED << exports, jobs, asker, on, mem, try, dest, cursor, saved, parts, files, pickedVars, history >>

\* A call outside the retry of a batch and the try of the merge raises an
\* exception, with a text or (a TimeoutError, a MemoryError) with none.
NodeRaises(w) ==
  /\ at[w] = "node"
  /\ Raises
  /\ \E next \in {"raised", "hushed"} : at' = [at EXCEPT ![w] = next]
  /\ UNCHANGED << exports, jobs, asker, on, mem, try, dest, cursor, saved, parts, files, pickedVars >>

Leaves(w, next) ==
  /\ at' = [at EXCEPT ![w] = next]
  /\ on' = [on EXCEPT ![w] = NoExport]
  /\ mem' = [mem EXCEPT ![w] = Paused]
  /\ try' = [try EXCEPT ![w] = 1]
  /\ dest' = [dest EXCEPT ![w] = NoFile]

CloseJob(e, s) == jobs' = [jobs EXCEPT ![e] = [status |-> s, fresh |-> FALSE]]

\* _finish after a graph that came to its end.
Finish(w) ==
  /\ at[w] = "close"
  /\ CloseJob(on[w], IF mem[w].failed THEN "failed" ELSE "succeeded")
  /\ Leaves(w, "idle")
  /\ UNCHANGED << exports, asker, cursor, saved, parts, files, pickedVars, history >>

\* Mutation: the export is left to the graph's own notify node.
FinishRaisedJobOnly(w) ==
  /\ at[w] = "raised"
  /\ CloseJob(on[w], "failed")
  /\ Leaves(w, "idle")
  /\ UNCHANGED << exports, asker, cursor, saved, parts, files, pickedVars, history >>

\* _finish after an exception with a text: the job, and then the export.
FinishRaised(w) ==
  /\ at[w] = "raised"
  /\ CloseJob(on[w], "failed")
  /\ at' = [at EXCEPT ![w] = "mark"]
  /\ UNCHANGED << exports, asker, on, mem, try, dest, cursor, saved, parts, files, pickedVars, history >>

\* _finish after an exception without one: str(exc) is empty and passes for no
\* failure, so the job has succeeded and the export is left as it is.
FinishHushed(w) ==
  /\ at[w] = "hushed"
  /\ CloseJob(on[w], "succeeded")
  /\ Leaves(w, "idle")
  /\ history' = [history EXCEPT !.hushed = @ \cup {on[w]}]
  /\ UNCHANGED << exports, asker, cursor, saved, parts, files, pickedVars >>

MarkFailed(w) ==
  /\ at[w] = "mark"
  /\ exports' = [exports EXCEPT ![on[w]].status = "failed", ![on[w]].message = TRUE]
  /\ Leaves(w, "idle")
  /\ UNCHANGED << jobs, asker, cursor, saved, parts, files, pickedVars, history >>

\* mark_building or _finish raises: run_worker logs it and goes on.
DrainRaises(w) ==
  /\ at[w] \in {"claimed", "close", "raised", "hushed", "mark"}
  /\ history.troubles < MaxTroubles
  /\ history' = [history EXCEPT !.troubles = @ + 1, !.severed = Severed(w)]
  /\ Leaves(w, "idle")
  /\ UNCHANGED << exports, jobs, asker, cursor, saved, parts, files, pickedVars >>

-----------------------------------------------------------------------------
(* Expiry.                                                                 *)

\* Timing assumption: the time to live is half an hour and more, the threshold
\* of a heartbeat one minute, so the job is closed or queued again by then
\* and its worker is through with it.
TimeIsUp(e) ==
  /\ exports[e].status = "ready" /\ ~ exports[e].lapsed /\ jobs[e].status # "running" /\ ~ Held(e)
  /\ exports' = [exports EXCEPT ![e].lapsed = TRUE]
  /\ UNCHANGED << jobs, asker, graphVars, saved, parts, files, pickedVars, history >>

ReaperSelects ==
  /\ \A e \in Exports : reaping[e] = NoFile
  /\ \E e \in Exports : exports[e].status = "ready" /\ exports[e].lapsed
  /\ reaping' = [e \in Exports |-> IF exports[e].status = "ready" /\ exports[e].lapsed
                                    THEN exports[e].file ELSE NoFile]
  /\ UNCHANGED << exports, jobs, asker, graphVars, saved, parts, files, stale, deleted, history >>

\* The artifact, by the name the row had, and the export's own directory.
ReaperDeletes(e) ==
  /\ reaping[e] # NoFile /\ deleted = NoExport
  /\ files' = [files EXCEPT ![reaping[e]] = NoFile]
  /\ parts' = [parts EXCEPT ![e] = NoParts]
  /\ deleted' = e
  /\ UNCHANGED << exports, jobs, asker, graphVars, saved, stale, reaping, history >>

\* mark_expired writes the row it selected, by id.
ReaperMarks(e) ==
  /\ deleted = e
  /\ exports' = [exports EXCEPT ![e].status = "expired", ![e].file = NoFile, ![e].message = TRUE]
  /\ reaping' = [reaping EXCEPT ![e] = NoFile]
  /\ deleted' = NoExport
  /\ UNCHANGED << jobs, asker, graphVars, saved, parts, files, stale, history >>

\* The sweep ends early: its process dies or a statement raises.
SweepBreaks ==
  /\ \E e \in Exports : reaping[e] # NoFile
  /\ deleted = NoExport \/ ReaperMayDie
  /\ Dies
  /\ reaping' = [e \in Exports |-> NoFile]
  /\ deleted' = NoExport
  /\ UNCHANGED << exports, jobs, asker, graphVars, saved, parts, files, stale >>

-----------------------------------------------------------------------------
(* Death and return of a process.                                          *)

\* A kill, or stop_worker: the task ends where it is and writes nothing.
Dead(w) ==
  /\ at[w] # "down"
  /\ history.deaths < MaxDeaths
  /\ history' = [history EXCEPT !.deaths = @ + 1, !.severed = Severed(w)]
  /\ Leaves(w, "down")
  /\ cursor' = [cursor EXCEPT ![w] = [e \in Exports |-> 0]]
  /\ stale' = [stale EXCEPT ![w] = {}]
  /\ UNCHANGED << exports, jobs, asker, saved, parts, files, reaping, deleted >>

Return(w) ==
  /\ at[w] = "down"
  /\ at' = [at EXCEPT ![w] = "idle"]
  /\ UNCHANGED << exports, jobs, asker, on, mem, try, dest, cursor, saved, parts, files, pickedVars, history >>

-----------------------------------------------------------------------------

\* What a living worker and the saver do in any case.
BuildStep(w) ==
  \/ RequeueSelect(w) \/ RequeueWrite(w) \/ (\E e \in Exports : Claim(w, e))
  \/ Begin(w) \/ ReadsNothing(w) \/ StartsPart(w) \/ WritesPart(w)
  \/ ChoosesName(w) \/ NamesRunOut(w) \/ OpensArtifact(w) \/ MergeEnds(w) \/ PartMissing(w)
  \/ Publish(w) \/ NotifyFailure(w) \/ Cleanup(w) \/ Returns(w)
  \/ Finish(w) \/ FinishRaised(w) \/ FinishHushed(w) \/ MarkFailed(w)

Misfortune(w) ==
  \/ AttemptFails(w) \/ QueryRefused(w) \/ MergeRaises(w) \/ NodeRaises(w)
  \/ RequeueRaises(w) \/ DrainRaises(w) \/ Dead(w)

ExportNext ==
  \/ \E e \in Exports :
       \/ Offer(e) \/ Refuse(e) \/ ConfirmReads(e) \/ ConfirmMarks(e) \/ ConfirmQueues(e)
       \/ RequestDies(e) \/ JobLapses(e) \/ TimeIsUp(e) \/ ReaperDeletes(e) \/ ReaperMarks(e)
  \/ ReaperSelects \/ SweepBreaks
  \/ \E w \in ExportWorkers : BuildStep(w) \/ SaveCheckpoint(w) \/ Misfortune(w) \/ Return(w)

ExportSpec == ExportInit /\ [][ExportNext]_exportVars

\* Fairness: the tasks of a process run, a process that died is started again
\* (by its supervisor), time passes, and the saver writes what it was given.
ExportFair ==
  /\ \A w \in ExportWorkers : WF_exportVars(BuildStep(w))
  /\ \A w \in ExportWorkers : WF_exportVars(SaveCheckpoint(w)) /\ WF_exportVars(Return(w))
  /\ \A e \in Exports : WF_exportVars(JobLapses(e))

-----------------------------------------------------------------------------
(* Properties.                                                             *)

\* A download link that works leads to a file with every batch of its own
\* result set, in order and once each: through retries of a batch, a resume
\* from an old checkpoint, a leftover of a broken merge and another export
\* that wants the same name.
ServedFileIsWhole ==
  \A e \in Exports :
    exports[e].status = "ready" /\ ~ exports[e].lapsed => files[exports[e].file] = e

\* A job and its export tell one story whenever no worker is on them: through
\* deaths in the middle of a build, requeues, resumes from old checkpoints and
\* calls that raise. Left out are the exports whose worker was gone after one of
\* the two rows had its outcome, and those of an exception without a text.
ExportFollowsJob ==
  \A e \in Exports \ (history.severed \cup history.hushed) : ~ Held(e) =>
    /\ jobs[e].status = "succeeded" <=> exports[e].status \in {"ready", "expired"}
    /\ jobs[e].status = "failed" => exports[e].status = "failed"

\* A job that succeeded has left no part file behind, unless it has succeeded by
\* an exception without a text.
SucceededIsClean ==
  \A e \in Exports \ history.hushed : jobs[e].status = "succeeded" => parts[e] = NoParts

\* Once confirmed and queued, a build ends: a death, a lost write of the outcome
\* and a run out of names included, and its job is never forgotten as running.
JobEnded(e) == jobs[e].status \in {"succeeded", "failed"}
EveryExportJobEnds == \A e \in Exports : (jobs[e].status = "queued") ~> JobEnded(e)
=============================================================================
