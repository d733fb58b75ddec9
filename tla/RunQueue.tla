------------------------------ MODULE RunQueue ------------------------------
(***************************************************************************)
(* The integration run queue: the tables integration_runs and              *)
(* integration_run_jobs, the asyncio workers of every process that drain   *)
(* them, the stale reaper each worker runs before it claims, and the two   *)
(* halves of cancellation.  One action is the code between two awaits that *)
(* another task or another process can come between.                       *)
(***************************************************************************)
EXTENDS Naturals, FiniteSets

CONSTANTS
  Run,        \* runs, numbered in the order their rows are inserted
  FlowOf,     \* the workflow each run executes
  Watched,    \* runs enqueued with priority 1: somebody pressed Run
  Process, NoProcess,
  Worker,     \* worker tasks; each process starts its own at on_startup
  HostOf,     \* the process a worker task belongs to
  NoRun,
  Nodes,      \* super-steps one graph takes
  MaxStops,   \* bound: Stop requests
  MaxDeaths,  \* bound: process crashes and shutdowns
  MaxFaults   \* bound: database calls that raise

ASSUME QueueAssumption ==
  /\ Run \subseteq Nat
  /\ NoRun \notin Run
  /\ NoProcess \notin Process
  /\ HostOf \in [Worker -> Process]
  /\ Nodes \in Nat \ {0}
  /\ {MaxStops, MaxDeaths, MaxFaults} \subseteq Nat

VARIABLES
  \* integration_runs
  run,        \* status
  cancelReq,  \* cancel_requested
  \* integration_run_jobs
  job,        \* status
  attempts,   \* attempts
  claimedBy,  \* claimed_by
  quiet,      \* heartbeat_at is older than STALE_AFTER_SECONDS
  \* one worker task
  pc,         \* where it is
  holds,      \* the run it is on
  left,       \* super-steps its graph still has to take
  acc,        \* what its flow state has accumulated
  seen,       \* its entry in _cancel_cache
  beat,       \* its heartbeat task is writing
  doomed,     \* the stale jobs its reaper has selected
  \* one process
  up,         \* "up", "stopping" or "down"
  stopping,   \* Stop requests that have marked the row, not yet the task
  \* history and bounds
  early,      \* runs stopped while they were still queued
  worked,     \* runs some node of which has run
  used        \* how much of each bound is spent

runRow  == <<run, cancelReq>>
jobRow  == <<job, attempts, claimedBy, quiet>>
taskVar == <<pc, holds, left, acc, seen, beat>>
rest    == <<up, stopping, early, used>>
vars    == <<run, cancelReq, job, attempts, claimedBy, quiet, pc, holds, left,
             acc, seen, beat, doomed, up, stopping, early, worked, used>>

Terminal     == {"succeeded", "partial", "failed", "cancelled"}
RunStatus    == {"none", "queued", "running"} \cup Terminal
JobStatus    == {"none", "queued", "running", "succeeded", "failed"}

\* Where a worker is inside execute_run, and so listed in _RUNNING.
Executing    == {"planning", "driving", "settling", "announcing", "failing", "unwinding"}
\* Where it answers for the run it holds.
Answering    == Executing \cup {"claimed", "closing"}
Stage        == Answering \cup {"idle", "reaping", "looking", "claim", "dead", "down"}
Mark         == {"lossy", "failed_at", "cancelled"}

TypeOK ==
  /\ run \in [Run -> RunStatus]
  /\ cancelReq \in [Run -> BOOLEAN]
  /\ job \in [Run -> JobStatus]
  /\ attempts \in [Run -> Nat]
  /\ claimedBy \in [Run -> Process \cup {NoProcess}]
  /\ quiet \in [Run -> BOOLEAN]
  /\ pc \in [Worker -> Stage]
  /\ holds \in [Worker -> Run \cup {NoRun}]
  /\ left \in [Worker -> 0..Nodes]
  /\ acc \in [Worker -> SUBSET Mark]
  /\ seen \in [Worker -> {"none", "no", "yes"}]
  /\ beat \in [Worker -> BOOLEAN]
  /\ doomed \in [Worker -> SUBSET Run]
  /\ up \in [Process -> {"up", "stopping", "down"}]
  /\ stopping \in SUBSET (Process \X Run)
  /\ early \in SUBSET Run
  /\ worked \in SUBSET Run
  /\ used \in [{"stops", "deaths", "faults"} -> Nat]

Init ==
  /\ run = [r \in Run |-> "none"]
  /\ cancelReq = [r \in Run |-> FALSE]
  /\ job = [r \in Run |-> "none"]
  /\ attempts = [r \in Run |-> 0]
  /\ claimedBy = [r \in Run |-> NoProcess]
  /\ quiet = [r \in Run |-> FALSE]
  /\ pc = [w \in Worker |-> "idle"]
  /\ holds = [w \in Worker |-> NoRun]
  /\ left = [w \in Worker |-> 0]
  /\ acc = [w \in Worker |-> {}]
  /\ seen = [w \in Worker |-> "none"]
  /\ beat = [w \in Worker |-> FALSE]
  /\ doomed = [w \in Worker |-> {}]
  /\ up = [p \in Process |-> "up"]
  /\ stopping = {}
  /\ early = {}
  /\ worked = {}
  /\ used = [b \in {"stops", "deaths", "faults"} |-> 0]

-----------------------------------------------------------------------------
(* Reading the tables.                                                     *)

\* ORDER BY priority DESC, available_at, id.
Precedes(q, r) ==
  \/ q \in Watched /\ r \notin Watched
  \/ (q \in Watched <=> r \in Watched) /\ q < r

\* The correlated NOT EXISTS: a committed running job of the same workflow.
BusyFlow(r) == \E q \in Run : job[q] = "running" /\ FlowOf[q] = FlowOf[r]

\* FOR UPDATE: another worker has selected this row and not yet committed.
LockedRow(r) == \E v \in Worker : pc[v] = "claim" /\ holds[v] = r

\* Mutations: the claim without SKIP LOCKED, and without its NOT EXISTS.
ClaimableUnlocked == {r \in Run : job[r] = "queued" /\ ~BusyFlow(r)}
ClaimableAnyFlow  == {r \in Run : job[r] = "queued" /\ ~LockedRow(r)}

Claimable == {r \in Run : job[r] = "queued" /\ ~BusyFlow(r) /\ ~LockedRow(r)}

\* Mutations: the reaper that does not look at the heartbeat, and the one that
\* gives a job more attempts than a claim ever counts.
StaleRunning    == {r \in Run : job[r] = "running"}
StaleUnderLimit == {r \in Run : job[r] = "running" /\ quiet[r] /\ attempts[r] < 1}

StaleJobs == {r \in Run : job[r] = "running" /\ quiet[r]}

\* A failed node ends the run failed; otherwise final_status decides.
FinalStatus(marks) ==
  IF "cancelled" \in marks THEN "cancelled"
  ELSE IF "failed_at" \in marks THEN "failed"
  ELSE IF "lossy" \in marks THEN "partial"
  ELSE "succeeded"

\* Mutations: the run's own status, and the cancelled branch forgotten.
JobStatusIsRunStatus(status) == status
JobStatusNoCancelled(status) == IF status = "failed" THEN "failed" ELSE "succeeded"

JobStatusFor(status) ==
  IF status \in {"failed", "cancelled"} THEN "failed" ELSE "succeeded"

-----------------------------------------------------------------------------
(* Moving one worker.                                                      *)

Goto(w, to) == pc' = [pc EXCEPT ![w] = to]

\* execute_run's finally, and the end of _execute: nothing of the run is left.
Drop(ws, to) ==
  /\ pc' = [w \in Worker |-> IF w \in ws THEN to ELSE pc[w]]
  /\ holds' = [w \in Worker |-> IF w \in ws THEN NoRun ELSE holds[w]]
  /\ left' = [w \in Worker |-> IF w \in ws THEN 0 ELSE left[w]]
  /\ acc' = [w \in Worker |-> IF w \in ws THEN {} ELSE acc[w]]
  /\ seen' = [w \in Worker |-> IF w \in ws THEN "none" ELSE seen[w]]
  /\ beat' = [w \in Worker |-> IF w \in ws THEN FALSE ELSE beat[w]]
  /\ doomed' = [w \in Worker |-> IF w \in ws THEN {} ELSE doomed[w]]

\* The finally of execute_run and of _execute on a return: the heartbeats stop
\* and the run leaves _RUNNING, then _finish closes the job.
Return(w, marks) ==
  /\ Goto(w, "closing")
  /\ acc' = [acc EXCEPT ![w] = marks]
  /\ seen' = [seen EXCEPT ![w] = "none"]
  /\ beat' = [beat EXCEPT ![w] = FALSE]
  /\ UNCHANGED <<holds, left, doomed>>

-----------------------------------------------------------------------------
(* Enqueueing, and the passage of time.                                    *)

\* start_run, replay_run and the scheduler: the run and its job, one commit.
EnqueueRun(r) ==
  /\ run[r] = "none"
  /\ \A q \in Run : q < r => run[q] # "none"
  /\ run' = [run EXCEPT ![r] = "queued"]
  /\ job' = [job EXCEPT ![r] = "queued"]
  /\ UNCHANGED <<cancelReq, attempts, claimedBy, quiet, taskVar, doomed, rest, worked>>

\* Nobody has written the heartbeat for STALE_AFTER_SECONDS.  A worker that is
\* between two bookkeeping statements is assumed to be quicker than that.
Lapse(r) ==
  /\ job[r] = "running"
  /\ ~quiet[r]
  /\ \A w \in Worker :
       holds[w] = r => ~beat[w] /\ pc[w] \notin {"claimed", "closing"}
  /\ quiet' = [quiet EXCEPT ![r] = TRUE]
  /\ UNCHANGED <<runRow, job, attempts, claimedBy, taskVar, doomed, rest, worked>>

\* CANCEL_CACHE_SECONDS pass: the next check reads the row again.
CacheExpires(w) ==
  /\ pc[w] = "driving"
  /\ seen[w] = "no"
  /\ seen' = [seen EXCEPT ![w] = "none"]
  /\ UNCHANGED <<runRow, jobRow, pc, holds, left, acc, beat, doomed, rest, worked>>

-----------------------------------------------------------------------------
(* drain_once: reap, claim, execute.                                       *)

\* requeue_stale_run_jobs, the SELECT.  Nothing stale returns at once.
ReapSelect(w) ==
  /\ pc[w] = "idle"
  /\ IF StaleJobs = {} THEN Goto(w, "looking") /\ UNCHANGED doomed
     ELSE Goto(w, "reaping") /\ doomed' = [doomed EXCEPT ![w] = StaleJobs]
  /\ UNCHANGED <<runRow, jobRow, holds, left, acc, seen, beat, rest, worked>>

\* Mutation: the reaper that puts an abandoned job back on the queue.
ReapRequeues(w) ==
  /\ pc[w] = "reaping"
  /\ job' = [r \in Run |-> IF r \in doomed[w] THEN "queued" ELSE job[r]]
  /\ doomed' = [doomed EXCEPT ![w] = {}]
  /\ Goto(w, "looking")
  /\ UNCHANGED <<runRow, attempts, claimedBy, quiet, holds, left, acc, seen, beat, rest, worked>>

\* requeue_stale_run_jobs, the two UPDATEs and the commit.
ReapWrite(w) ==
  /\ pc[w] = "reaping"
  /\ job' = [r \in Run |-> IF r \in doomed[w] THEN "failed" ELSE job[r]]
  /\ run' = [r \in Run |-> IF r \in doomed[w] THEN "failed" ELSE run[r]]
  /\ doomed' = [doomed EXCEPT ![w] = {}]
  /\ Goto(w, "looking")
  /\ UNCHANGED <<cancelReq, attempts, claimedBy, quiet, holds, left, acc, seen, beat, rest, worked>>

\* claim_next_run_job: the first runnable row that nobody has locked.
ClaimSelect(w) ==
  /\ pc[w] = "looking"
  /\ \E r \in Claimable :
       /\ \A q \in Claimable \ {r} : Precedes(r, q)
       /\ holds' = [holds EXCEPT ![w] = r]
       /\ Goto(w, "claim")
  /\ UNCHANGED <<runRow, jobRow, left, acc, seen, beat, doomed, rest, worked>>

\* Nothing to claim: wait for the wakeup or the poll.
ClaimNothing(w) ==
  /\ pc[w] = "looking"
  /\ Claimable = {}
  /\ Goto(w, "idle")
  /\ UNCHANGED <<runRow, jobRow, holds, left, acc, seen, beat, doomed, rest, worked>>

\* claim_next_run_job: the status flips and the transaction commits.
ClaimCommit(w) ==
  /\ pc[w] = "claim"
  /\ job' = [job EXCEPT ![holds[w]] = "running"]
  /\ attempts' = [attempts EXCEPT ![holds[w]] = @ + 1]
  /\ claimedBy' = [claimedBy EXCEPT ![holds[w]] = HostOf[w]]
  /\ quiet' = [quiet EXCEPT ![holds[w]] = FALSE]
  /\ Goto(w, "claimed")
  /\ UNCHANGED <<runRow, holds, left, acc, seen, beat, doomed, rest, worked>>

\* _execute starts the heartbeat; execute_run registers the task in _RUNNING.
Enter(w) ==
  /\ pc[w] = "claimed"
  /\ Goto(w, "planning")
  /\ beat' = [beat EXCEPT ![w] = TRUE]
  /\ UNCHANGED <<runRow, jobRow, holds, left, acc, seen, doomed, rest, worked>>

-----------------------------------------------------------------------------
(* execute_run.                                                            *)

\* _plan_for marks the run running and hands the plan to _drive.
Plan(w) ==
  /\ pc[w] = "planning"
  /\ run' = [run EXCEPT ![holds[w]] = "running"]
  /\ left' = [left EXCEPT ![w] = Nodes]
  /\ Goto(w, "driving")
  /\ UNCHANGED <<cancelReq, jobRow, holds, acc, seen, beat, doomed, rest, worked>>

\* Mutation: the early return that records nothing.
RefuseSilently(w) == pc[w] = "planning" /\ Return(w, {"failed_at"}) /\ UNCHANGED <<runRow, jobRow, rest, worked>>

\* The pinned version is gone, or the drawing no longer validates: the run is
\* failed with a sentence before any node runs.
Refuse(w) ==
  /\ pc[w] = "planning"
  /\ run' = [run EXCEPT ![holds[w]] = "failed"]
  /\ Return(w, {"failed_at"})
  /\ UNCHANGED <<cancelReq, jobRow, rest, worked>>

\* Mutation: the flag read from the cache alone.
CancelCached(w) == seen[w] = "yes"

\* run_store.cancel_requested: the cached answer, or the row's.
CancelSeen(w) ==
  IF seen[w] = "none" THEN cancelReq[holds[w]] ELSE seen[w] = "yes"

Remember(w) ==
  seen' = [seen EXCEPT ![w] = IF CancelSeen(w) THEN "yes" ELSE "no"]

\* run_node declines because the run was stopped, and the router ends it.
NodeDeclines(w) ==
  /\ pc[w] = "driving"
  /\ left[w] > 0
  /\ CancelSeen(w)
  /\ Remember(w)
  /\ acc' = [acc EXCEPT ![w] = @ \cup {"cancelled"}]
  /\ Goto(w, "settling")
  /\ UNCHANGED <<runRow, jobRow, holds, left, beat, doomed, rest, worked>>

\* A node's work: clean, losing some records, or failing with no error edge.
NodeWorks(w) ==
  /\ pc[w] = "driving"
  /\ left[w] > 0
  /\ worked' = worked \cup {holds[w]}
  /\ \/ \E lost \in {{}, {"lossy"}} :
          /\ acc' = [acc EXCEPT ![w] = @ \cup lost]
          /\ left' = [left EXCEPT ![w] = @ - 1]
          /\ UNCHANGED pc
     \/ /\ acc' = [acc EXCEPT ![w] = @ \cup {"failed_at"}]
        /\ Goto(w, "settling")
        /\ UNCHANGED left
  /\ UNCHANGED <<runRow, jobRow, holds, beat, doomed, up, stopping, early>>

\* run_node runs a node of a run nobody has stopped.
NodeRuns(w) == NodeWorks(w) /\ ~CancelSeen(w) /\ Remember(w) /\ UNCHANGED used

\* The graph reached its end.
GraphEnds(w) ==
  /\ pc[w] = "driving"
  /\ left[w] = 0
  /\ Goto(w, "settling")
  /\ UNCHANGED <<runRow, jobRow, holds, left, acc, seen, beat, doomed, rest, worked>>

\* Compiling or invoking the graph raises: execute_run will fail the run.
DriveRaises(w) ==
  /\ pc[w] = "driving"
  /\ Goto(w, "failing")
  /\ acc' = [acc EXCEPT ![w] = {"failed_at"}]
  /\ UNCHANGED <<runRow, jobRow, holds, left, seen, beat, doomed, rest, worked>>

\* _settle: mark_finished commits the run's outcome.
Settle(w) ==
  /\ pc[w] = "settling"
  /\ run' = [run EXCEPT ![holds[w]] = FinalStatus(acc[w])]
  /\ seen' = [seen EXCEPT ![w] = "none"]
  /\ Goto(w, "announcing")
  /\ UNCHANGED <<cancelReq, jobRow, holds, left, acc, beat, doomed, rest, worked>>

\* _announce_settled returns, and so does execute_run.
Announce(w) ==
  /\ pc[w] = "announcing"
  /\ Return(w, acc[w])
  /\ UNCHANGED <<runRow, jobRow, rest, worked>>

\* execute_run's except Exception: _fail_by_id, then return failed.
FailWrite(w) ==
  /\ pc[w] = "failing"
  /\ run' = [run EXCEPT ![holds[w]] = "failed"]
  /\ Return(w, {"failed_at"})
  /\ UNCHANGED <<cancelReq, jobRow, rest, worked>>

\* finish_run_job: an UPDATE by id, whatever the job says by then.
Close(w) ==
  /\ pc[w] = "closing"
  /\ job' = [job EXCEPT ![holds[w]] = JobStatusFor(FinalStatus(acc[w]))]
  /\ Drop({w}, "idle")
  /\ UNCHANGED <<runRow, attempts, claimedBy, quiet, rest, worked>>

\* _settle_cancelled, after which CancelledError ends the worker's own task.
Unwind(w) ==
  /\ pc[w] = "unwinding"
  /\ run' = [run EXCEPT ![holds[w]] = "cancelled"]
  /\ Drop({w}, "dead")
  /\ UNCHANGED <<cancelReq, jobRow, rest, worked>>

-----------------------------------------------------------------------------
(* Stopping a run, and stopping a process.                                 *)

\* Cancelling these tasks: what CancelledError does where each of them is.
Interrupt(ws) ==
  LET unwinds == {w \in ws : pc[w] \in Executing \ {"failing", "unwinding"}}
  IN  /\ pc' = [w \in Worker |->
                  IF w \in unwinds THEN "unwinding"
                  ELSE IF w \in ws THEN "dead" ELSE pc[w]]
      /\ holds' = [w \in Worker |-> IF w \in ws \ unwinds THEN NoRun ELSE holds[w]]
      /\ left' = [w \in Worker |-> IF w \in ws THEN 0 ELSE left[w]]
      /\ acc' = [w \in Worker |-> IF w \in ws THEN {} ELSE acc[w]]
      /\ seen' = [w \in Worker |-> IF w \in ws THEN "none" ELSE seen[w]]
      /\ beat' = [w \in Worker |-> IF w \in ws \ unwinds THEN FALSE ELSE beat[w]]
      /\ doomed' = [w \in Worker |-> IF w \in ws THEN {} ELSE doomed[w]]

\* request_stop in process p: the row is marked and this process forgets what
\* it had cached.  No status is checked.
RequestStop(p, r) ==
  /\ up[p] = "up"
  /\ run[r] # "none"
  /\ used["stops"] < MaxStops
  /\ used' = [used EXCEPT !["stops"] = @ + 1]
  /\ cancelReq' = [cancelReq EXCEPT ![r] = TRUE]
  /\ early' = IF job[r] = "queued" /\ r \notin worked THEN early \cup {r} ELSE early
  /\ seen' = [w \in Worker |->
                IF HostOf[w] = p /\ holds[w] = r THEN "none" ELSE seen[w]]
  /\ stopping' = stopping \cup {<<p, r>>}
  /\ UNCHANGED <<run, jobRow, pc, holds, left, acc, beat, doomed, up, worked>>

\* request_stop in process p: the task driving the run here, if any, is cancelled.
CancelTask(p, r) ==
  /\ <<p, r>> \in stopping
  /\ stopping' = stopping \ {<<p, r>>}
  /\ Interrupt({w \in Worker : HostOf[w] = p /\ holds[w] = r /\ pc[w] \in Executing})
  /\ UNCHANGED <<runRow, jobRow, up, early, worked, used>>

TasksOf(p) == {w \in Worker : HostOf[w] = p}

Crash(p) ==
  /\ up[p] # "down"
  /\ used["deaths"] < MaxDeaths
  /\ used' = [used EXCEPT !["deaths"] = @ + 1]
  /\ up' = [up EXCEPT ![p] = "down"]
  /\ stopping' = {s \in stopping : s[1] # p}
  /\ Drop(TasksOf(p), "down")
  /\ UNCHANGED <<runRow, jobRow, early, worked>>

\* on_shutdown: stop_workers cancels every worker task of the process.
Shutdown(p) ==
  /\ up[p] = "up"
  /\ used["deaths"] < MaxDeaths
  /\ used' = [used EXCEPT !["deaths"] = @ + 1]
  /\ up' = [up EXCEPT ![p] = "stopping"]
  /\ Interrupt({w \in TasksOf(p) : pc[w] # "dead"})
  /\ UNCHANGED <<runRow, jobRow, stopping, early, worked>>

\* on_startup: start_workers, once the old process is gone.
Restart(p) ==
  /\ \/ up[p] = "down"
     \/ up[p] = "stopping" /\ \A w \in TasksOf(p) : pc[w] = "dead"
  /\ up' = [up EXCEPT ![p] = "up"]
  /\ stopping' = {s \in stopping : s[1] # p}
  /\ Drop(TasksOf(p), "idle")
  /\ UNCHANGED <<runRow, jobRow, early, worked, used>>

-----------------------------------------------------------------------------
(* A database call that raises, where each caller catches it.              *)

Faulty == used["faults"] < MaxFaults /\ used' = [used EXCEPT !["faults"] = @ + 1]

\* In drain_once: run_worker logs it and looks again after a pause.
DrainFaults(w) ==
  /\ Faulty
  /\ pc[w] \in {"reaping", "looking", "claim"}
  /\ Drop({w}, "idle")
  /\ UNCHANGED <<runRow, jobRow, up, stopping, early, worked>>

\* In execute_run: on to _fail_by_id.
RunFaults(w) ==
  /\ Faulty
  /\ pc[w] \in {"planning", "settling"}
  /\ Goto(w, "failing")
  /\ acc' = [acc EXCEPT ![w] = {"failed_at"}]
  /\ UNCHANGED <<runRow, jobRow, holds, left, seen, beat, doomed, up, stopping, early, worked>>

\* In _fail_by_id: the exception reaches _execute, which closes the job alone.
FailFaults(w) ==
  /\ Faulty
  /\ pc[w] = "failing"
  /\ Return(w, {"failed_at"})
  /\ UNCHANGED <<runRow, jobRow, up, stopping, early, worked>>

\* In _finish and in _settle_cancelled: swallowed.
CloseFaults(w) ==
  /\ Faulty
  /\ \/ pc[w] = "closing" /\ Drop({w}, "idle")
     \/ pc[w] = "unwinding" /\ Drop({w}, "dead")
  /\ UNCHANGED <<runRow, jobRow, up, stopping, early, worked>>

\* In cancel_requested: swallowed, nothing is cached and the node runs.
FlagFaults(w) ==
  /\ Faulty
  /\ seen[w] = "none"
  /\ NodeWorks(w)
  /\ UNCHANGED seen

\* In _beat: swallowed outside its loop, so the heartbeat never resumes.
BeatFaults(w) ==
  /\ Faulty
  /\ beat[w]
  /\ beat' = [beat EXCEPT ![w] = FALSE]
  /\ UNCHANGED <<runRow, jobRow, pc, holds, left, acc, seen, doomed, up, stopping, early, worked>>

-----------------------------------------------------------------------------

WorkerStep(w) ==
  \/ ReapSelect(w) \/ ReapWrite(w) \/ ClaimSelect(w) \/ ClaimNothing(w)
  \/ ClaimCommit(w) \/ Enter(w) \/ Plan(w) \/ Refuse(w)
  \/ NodeDeclines(w) \/ NodeRuns(w) \/ GraphEnds(w) \/ DriveRaises(w)
  \/ Settle(w) \/ Announce(w) \/ FailWrite(w) \/ Close(w) \/ Unwind(w)

Fault(w) ==
  \/ DrainFaults(w) \/ RunFaults(w) \/ FailFaults(w)
  \/ CloseFaults(w) \/ FlagFaults(w) \/ BeatFaults(w)

Next ==
  \/ \E r \in Run : EnqueueRun(r) \/ Lapse(r)
  \/ \E w \in Worker : WorkerStep(w) \/ CacheExpires(w) \/ Fault(w)
  \/ \E p \in Process, r \in Run : RequestStop(p, r) \/ CancelTask(p, r)
  \/ \E p \in Process : Crash(p) \/ Shutdown(p) \/ Restart(p)

Spec == Init /\ [][Next]_vars

\* The event loop runs every live task, time passes, an operator's request is
\* carried through, and the container is restarted (docker-compose).
Fairness ==
  /\ \A w \in Worker : WF_vars(WorkerStep(w))
  /\ \A r \in Run : WF_vars(Lapse(r))
  /\ \A p \in Process, r \in Run : WF_vars(CancelTask(p, r))
  /\ \A p \in Process : WF_vars(Restart(p))

FairSpec == Spec /\ Fairness

-----------------------------------------------------------------------------
(* What the queue promises, whatever database calls raise.                 *)

\* No run is ever answered for by two workers at once, in one process or in
\* two: "two workers executing one run ... is the failure this whole table
\* exists to prevent" (claim_next_run_job, requeue_stale_run_jobs).
SoleExecutor ==
  \A v, w \in Worker :
    v # w /\ pc[v] \in Answering /\ pc[w] \in Answering => holds[v] # holds[w]

\* A job is claimed once in its life: a dead worker's run is failed, never
\* started again, because it may have written half its records already
\* (requeue_stale_run_jobs, claim_next_run_job).
NeverRestarted == \A r \in Run : attempts[r] <= 1

\* Where the two above come from: who holds a run, and what its rows then say.
Holding == Answering \cup {"claim"}
Untaken(r) == job[r] \in {"none", "queued"}

HoldersHaveRuns == \A w \in Worker : pc[w] \in Holding => holds[w] \in Run
OneHolder ==
  \A v, w \in Worker :
    v # w /\ pc[v] \in Holding /\ pc[w] \in Holding => holds[v] # holds[w]
ClaimsAreQueued == \A w \in Worker : pc[w] = "claim" => job[holds[w]] = "queued"
AnswersAreTaken == \A w \in Worker : pc[w] \in Answering => ~Untaken(holds[w])
DoomedAreTaken == \A w \in Worker : \A r \in doomed[w] : ~Untaken(r)
ClaimedOnce == \A r \in Run : attempts[r] = IF Untaken(r) THEN 0 ELSE 1
JobsHaveRuns == \A r \in Run : run[r] = "none" => job[r] = "none"

\* A selected row is still queued and selected by nobody else, an answered or
\* doomed one has been claimed exactly once, and no job is without its run: the
\* bookkeeping every writer of the two tables must keep (queries.py).
Consistent ==
  /\ HoldersHaveRuns /\ OneHolder /\ ClaimsAreQueued /\ AnswersAreTaken
  /\ DoomedAreTaken /\ ClaimedOnce /\ JobsHaveRuns

\* Every run goes absent, waiting, taken, over, and is taken by one process:
\* the ledger is what the queue tables and their writers implement.
PhaseOf(status) ==
  CASE status = "none" -> "absent"
    [] status = "queued" -> "waiting"
    [] status = "running" -> "taken"
    [] OTHER -> "over"

Ledger == INSTANCE RunLedger WITH
  phase <- [r \in Run |-> PhaseOf(job[r])],
  owner <- claimedBy

KeepsTheLedger == Ledger!Spec

(* What it promises while no database call raises.                         *)

\* The reaper never picks a job whose worker is still answering for its run,
\* also when that worker is slow, unwinding or in another process (_beat,
\* requeue_stale_run_jobs, STALE_AFTER_SECONDS).
ReaperSparesLiving ==
  \A v, w \in Worker : pc[v] \in Answering => holds[v] \notin doomed[w]

\* A run that has not ended still has a job that will end it: one nobody
\* claimed, or a running one that its worker or the reaper closes.
NoOrphanRun ==
  \A r \in Run :
    run[r] \in {"queued", "running"} => job[r] \in {"queued", "running"}

\* Once a job is closed its badge agrees with what the run's page says, also
\* when the reaper or a Stop raced the worker (_job_status_for).
JobMatchesRun ==
  \A r \in Run :
    /\ job[r] = "succeeded" => run[r] \in {"succeeded", "partial"}
    /\ job[r] = "failed" => run[r] \in {"failed", "cancelled"}

\* A run stopped while it was queued does no work at all and never reads as a
\* success, whichever process claims it later (request_cancel, run_node).
StopBeforeStart ==
  \A r \in early : r \notin worked /\ run[r] \notin {"succeeded", "partial"}

\* A run recorded as failed or cancelled is never reopened and never turns
\* green: no worker the reaper gave up on comes back (mark_finished is an
\* unconditional UPDATE, so only the order of the writers keeps this).
NeverTurnsGreen ==
  [][\A r \in Run : run[r] \in {"failed", "cancelled"} => run'[r] \in {"failed", "cancelled"}]_vars

\* Every queued run ends, through crashes, shutdowns and a Stop that costs a
\* worker, as long as one worker task is left and no database call raises
\* (drain_once, the stale reaper).
EveryRunSettles == \A r \in Run : run[r] = "queued" ~> run[r] \in Terminal

\* Every claimed job is closed even when database calls raise on the way: what
\* its worker could not write, the reaper writes.
EveryJobCloses ==
  \A r \in Run : job[r] = "running" ~> job[r] \in {"succeeded", "failed"}

(* What the code's comments say of it and the code does not keep.          *)

\* At most one job of a workflow is running: "Per-flow serialisation is in the
\* claim" (queue.py's docstring, claim_next_run_job's NOT EXISTS).
FlowSerialised ==
  \A q, r \in Run :
    q # r /\ job[q] = "running" /\ job[r] = "running" => FlowOf[q] # FlowOf[r]

\* A worker task ends only because its process does: "The loop itself only
\* ever stops on cancellation", which "is shutdown rather than an error".
WorkerDiesOnlyAtShutdown ==
  \A w \in Worker : pc[w] = "dead" => up[HostOf[w]] # "up"
=============================================================================
