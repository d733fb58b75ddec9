--------------------------- MODULE RunQueueProofs ---------------------------
(***************************************************************************)
(* What holds of the run queue for every number of runs, workers and       *)
(* processes.  Whatever database calls raise: its type invariant, that no  *)
(* run is executed twice, and that the tables implement RunLedger.  Unless *)
(* one of three calls raises: that no run is orphaned, misreported or      *)
(* reopened, and that a Stop on a queued run is kept.  Unless one step is  *)
(* taken, for each: that workflows are serialised and workers survive.     *)
(***************************************************************************)
EXTENDS RunQueue, TLAPS

\* The steps of one worker, its faults included.
WorkerAction(w) == WorkerStep(w) \/ CacheExpires(w) \/ Fault(w)

-----------------------------------------------------------------------------
(* Types.                                                                  *)

LEMMA InitType == Init => TypeOK
  BY QueueAssumption DEF Init, TypeOK, RunStatus, JobStatus, Stage

\* The variables of the worker tasks.
TaskTypes ==
  /\ pc \in [Worker -> Stage]
  /\ holds \in [Worker -> Run \cup {NoRun}]
  /\ left \in [Worker -> 0..Nodes]
  /\ acc \in [Worker -> SUBSET Mark]
  /\ seen \in [Worker -> {"none", "no", "yes"}]
  /\ beat \in [Worker -> BOOLEAN]
  /\ doomed \in [Worker -> SUBSET Run]

LEMMA DropType ==
  ASSUME TypeOK, NEW ws, NEW to \in Stage, Drop(ws, to)
  PROVE  TaskTypes'
<1> USE DEF TypeOK, Drop
<1>1. (pc \in [Worker -> Stage])' OBVIOUS
<1>2. (holds \in [Worker -> Run \cup {NoRun}])' OBVIOUS
<1>3. (left \in [Worker -> 0..Nodes])' BY QueueAssumption DEF QueueAssumption
<1>4. (acc \in [Worker -> SUBSET Mark])' OBVIOUS
<1>5. (seen \in [Worker -> {"none", "no", "yes"}])' OBVIOUS
<1>6. (beat \in [Worker -> BOOLEAN])' OBVIOUS
<1>7. (doomed \in [Worker -> SUBSET Run])' OBVIOUS
<1> QED BY <1>1, <1>2, <1>3, <1>4, <1>5, <1>6, <1>7 DEF TaskTypes

LEMMA InterruptType ==
  ASSUME TypeOK, NEW ws, Interrupt(ws)
  PROVE  TaskTypes'
<1> USE DEF TypeOK, Interrupt
<1>1. (pc \in [Worker -> Stage])' BY DEF Stage, Answering, Executing
<1>2. (holds \in [Worker -> Run \cup {NoRun}])' OBVIOUS
<1>3. (left \in [Worker -> 0..Nodes])' BY QueueAssumption DEF QueueAssumption
<1>4. (acc \in [Worker -> SUBSET Mark])' OBVIOUS
<1>5. (seen \in [Worker -> {"none", "no", "yes"}])' OBVIOUS
<1>6. (beat \in [Worker -> BOOLEAN])' OBVIOUS
<1>7. (doomed \in [Worker -> SUBSET Run])' OBVIOUS
<1> QED BY <1>1, <1>2, <1>3, <1>4, <1>5, <1>6, <1>7 DEF TaskTypes

LEMMA CountsUp ==
  ASSUME NEW f \in [Run -> Nat], NEW x
  PROVE  [f EXCEPT ![x] = @ + 1] \in [Run -> Nat]
<1> DEFINE g == [f EXCEPT ![x] = @ + 1]
<1>1. CASE x \in Run
  <2>1. f[x] \in Nat BY <1>1
  <2>2. f[x] + 1 \in Nat BY <2>1
  <2> QED BY <1>1, <2>2
<1>2. CASE x \notin Run
  <2>1. g = f BY <1>2
  <2> QED BY <2>1
<1> QED BY <1>1, <1>2

\* The statements that move a worker keep the types of what they move.
LEMMA WorkerType ==
  ASSUME TypeOK, HoldersHaveRuns, NEW w \in Worker, WorkerAction(w)
  PROVE  TypeOK'
<1> USE DEF TypeOK, RunStatus, JobStatus, Terminal, Stage,
        Answering, Executing, Mark, runRow, jobRow, taskVar, rest, Goto, Return, TaskTypes
<1>1. CASE ReapSelect(w)   BY <1>1 DEF ReapSelect, StaleJobs
<1>2. CASE ReapWrite(w)    BY <1>2 DEF ReapWrite
<1>3. CASE ClaimSelect(w)  BY <1>3 DEF ClaimSelect, Claimable
<1>4. CASE ClaimNothing(w) BY <1>4 DEF ClaimNothing
<1>5. CASE ClaimCommit(w)
  <2> USE <1>5, QueueAssumption DEF ClaimCommit, QueueAssumption
  <2>1. (job \in [Run -> JobStatus])' OBVIOUS
  <2>2. (attempts \in [Run -> Nat])' BY CountsUp
  <2>3. (claimedBy \in [Run -> Process \cup {NoProcess}])' OBVIOUS
  <2>4. (quiet \in [Run -> BOOLEAN])' OBVIOUS
  <2>5. (pc \in [Worker -> Stage])' OBVIOUS
  <2> QED BY <2>1, <2>2, <2>3, <2>4, <2>5
<1>6. CASE Enter(w)        BY <1>6 DEF Enter
<1>7. CASE Plan(w)
  <2>1. (left \in [Worker -> 0..Nodes])' BY <1>7, QueueAssumption DEF Plan, QueueAssumption
  <2> QED BY <1>7, <2>1 DEF Plan
<1>8. CASE Refuse(w)       BY <1>8 DEF Refuse
<1>9. CASE NodeDeclines(w) BY <1>9 DEF NodeDeclines, Remember
<1>10. CASE NodeWorks(w) /\ used' \in [{"stops", "deaths", "faults"} -> Nat]
                        /\ seen' \in [Worker -> {"none", "no", "yes"}]
  <2>1. (left \in [Worker -> 0..Nodes])'
    BY <1>10, QueueAssumption DEF NodeWorks, QueueAssumption
  <2>2. (acc \in [Worker -> SUBSET Mark])' BY <1>10 DEF NodeWorks
  <2>3. (worked \in SUBSET Run)'
    BY <1>10 DEF NodeWorks, HoldersHaveRuns, Holding
  <2>4. (pc \in [Worker -> Stage])' BY <1>10 DEF NodeWorks
  <2> QED BY <1>10, <2>1, <2>2, <2>3, <2>4 DEF NodeWorks
<1>24. CASE NodeRuns(w)    BY <1>24, <1>10 DEF NodeRuns, Remember
<1>25. CASE FlagFaults(w)  BY <1>25, <1>10 DEF FlagFaults, Faulty
<1>11. CASE GraphEnds(w)   BY <1>11 DEF GraphEnds
<1>12. CASE DriveRaises(w) BY <1>12 DEF DriveRaises
<1>13. CASE Settle(w)      BY <1>13 DEF Settle, FinalStatus
<1>14. CASE Announce(w)    BY <1>14 DEF Announce
<1>15. CASE FailWrite(w)   BY <1>15 DEF FailWrite
<1>16. CASE Close(w)       BY <1>16, DropType DEF Close, JobStatusFor
<1>17. CASE Unwind(w)      BY <1>17, DropType DEF Unwind
<1>18. CASE CacheExpires(w) BY <1>18 DEF CacheExpires
<1>19. CASE DrainFaults(w) BY <1>19, DropType DEF DrainFaults, Faulty
<1>20. CASE RunFaults(w)   BY <1>20 DEF RunFaults, Faulty
<1>21. CASE FailFaults(w)  BY <1>21 DEF FailFaults, Faulty
<1>22. CASE CloseFaults(w) BY <1>22, DropType DEF CloseFaults, Faulty
<1>23. CASE BeatFaults(w)  BY <1>23 DEF BeatFaults, Faulty
<1> QED
  BY <1>1, <1>2, <1>3, <1>4, <1>5, <1>6, <1>7, <1>8, <1>9, <1>11, <1>12,
     <1>13, <1>14, <1>15, <1>16, <1>17, <1>18, <1>19, <1>20, <1>21, <1>22, <1>23, <1>24, <1>25
     DEF WorkerAction, WorkerStep, Fault

LEMMA OtherType ==
  ASSUME TypeOK,
         \/ \E r \in Run : EnqueueRun(r) \/ Lapse(r)
         \/ \E p \in Process, r \in Run : RequestStop(p, r) \/ CancelTask(p, r)
         \/ \E p \in Process : Crash(p) \/ Shutdown(p) \/ Restart(p)
         \/ UNCHANGED vars
  PROVE  TypeOK'
<1> USE DEF TypeOK, RunStatus, JobStatus, Terminal, Stage,
        Answering, Executing, Mark, runRow, jobRow, taskVar, rest, TaskTypes
<1>1. ASSUME NEW r \in Run, EnqueueRun(r) PROVE TypeOK'  BY <1>1 DEF EnqueueRun
<1>2. ASSUME NEW r \in Run, Lapse(r) PROVE TypeOK'       BY <1>2 DEF Lapse
<1>3. ASSUME NEW p \in Process, NEW r \in Run, RequestStop(p, r) PROVE TypeOK'
  BY <1>3 DEF RequestStop
<1>4. ASSUME NEW p \in Process, NEW r \in Run, CancelTask(p, r) PROVE TypeOK'
  BY <1>4, InterruptType DEF CancelTask
<1>5. ASSUME NEW p \in Process, Crash(p) PROVE TypeOK'    BY <1>5, DropType DEF Crash
<1>6. ASSUME NEW p \in Process, Shutdown(p) PROVE TypeOK' BY <1>6, InterruptType DEF Shutdown
<1>7. ASSUME NEW p \in Process, Restart(p) PROVE TypeOK'  BY <1>7, DropType DEF Restart
<1>8. CASE UNCHANGED vars BY <1>8 DEF vars
<1> QED BY <1>1, <1>2, <1>3, <1>4, <1>5, <1>6, <1>7, <1>8

-----------------------------------------------------------------------------
(* The rows and the tasks agree.                                           *)

LEMMA InitConsistent == Init => Consistent
  BY DEF Init, Consistent, HoldersHaveRuns, OneHolder, ClaimsAreQueued, AnswersAreTaken,
         DoomedAreTaken, ClaimedOnce, JobsHaveRuns, Holding, Answering, Executing, Untaken

\* Nobody begins to hold a run, or to doom a job that is not taken.
NobodyNew ==
  \A w \in Worker :
    /\ pc'[w] \in Holding => holds'[w] = holds[w]
    /\ pc'[w] \in Answering => pc[w] \in Answering
    /\ pc'[w] = "claim" => pc[w] = "claim"
    /\ \A r \in doomed'[w] : r \in doomed[w] \/ (r \in Run /\ ~Untaken(r))

\* A step that writes a status over runs and jobs that have been taken, and
\* lets nobody begin to hold one.
LEMMA WriteStep ==
  ASSUME TypeOK, Consistent, UNCHANGED attempts,
         \A r \in Run : job'[r] = job[r] \/ (~Untaken(r) /\ ~Untaken(r)'),
         \A r \in Run : run'[r] = "none" => run[r] = "none",
         NobodyNew
  PROVE  Consistent'
<1> USE DEF Consistent, Holding, NobodyNew, TypeOK
<1>1. HoldersHaveRuns' BY DEF HoldersHaveRuns
<1>2. OneHolder'       BY DEF OneHolder
<1>3. ClaimsAreQueued' BY DEF ClaimsAreQueued, HoldersHaveRuns, Untaken
<1>4. AnswersAreTaken' BY DEF AnswersAreTaken, HoldersHaveRuns, Untaken
<1>5. DoomedAreTaken'  BY DEF DoomedAreTaken, Untaken
<1>6. ClaimedOnce'     BY DEF ClaimedOnce, Untaken
<1>7. JobsHaveRuns'    BY DEF JobsHaveRuns, Untaken
<1> QED BY <1>1, <1>2, <1>3, <1>4, <1>5, <1>6, <1>7

\* Claiming is the step that lets a worker begin to hold a run.
LEMMA ClaimStep ==
  ASSUME TypeOK, Consistent, NEW w \in Worker, ClaimSelect(w) \/ ClaimCommit(w)
  PROVE  Consistent'
<1> USE DEF TypeOK, Consistent, Holding, Goto, runRow, jobRow, rest
<1>1. CASE ClaimSelect(w)
  <2> USE <1>1 DEF ClaimSelect, Claimable, LockedRow
  <2>1. HoldersHaveRuns' BY DEF HoldersHaveRuns
  <2>2. OneHolder'       BY DEF OneHolder, AnswersAreTaken, Untaken
  <2>3. ClaimsAreQueued' BY DEF ClaimsAreQueued
  <2>4. AnswersAreTaken' BY DEF AnswersAreTaken, Untaken, Answering, Executing
  <2>5. DoomedAreTaken'  BY DEF DoomedAreTaken, Untaken
  <2>6. ClaimedOnce'     BY DEF ClaimedOnce, Untaken
  <2>7. JobsHaveRuns'    BY DEF JobsHaveRuns
  <2> QED BY <2>1, <2>2, <2>3, <2>4, <2>5, <2>6, <2>7
<1>2. CASE ClaimCommit(w)
  <2> USE <1>2 DEF ClaimCommit
  <2>0. holds[w] \in Run /\ job[holds[w]] = "queued"
    BY DEF HoldersHaveRuns, ClaimsAreQueued
  <2>1. HoldersHaveRuns' BY DEF HoldersHaveRuns
  <2>2. OneHolder'       BY DEF OneHolder
  <2>3. ClaimsAreQueued' BY DEF ClaimsAreQueued, OneHolder, HoldersHaveRuns
  <2>4. AnswersAreTaken' BY <2>0 DEF AnswersAreTaken, HoldersHaveRuns, Untaken
  <2>5. DoomedAreTaken'  BY <2>0 DEF DoomedAreTaken, Untaken
  <2>6. ClaimedOnce'     BY <2>0 DEF ClaimedOnce, Untaken
  <2>7. JobsHaveRuns'    BY <2>0 DEF JobsHaveRuns
  <2> QED BY <2>1, <2>2, <2>3, <2>4, <2>5, <2>6, <2>7
<1> QED BY <1>1, <1>2

\* Every other statement of a worker only closes what has been taken.
LEMMA WorkerConsistent ==
  ASSUME TypeOK, Consistent, NEW w \in Worker, WorkerAction(w)
  PROVE  Consistent'
<1> USE DEF NobodyNew, TypeOK, Holding, Answering, Executing, runRow, jobRow, taskVar, rest,
        Goto, Return
<1>0. pc[w] \in Answering => holds[w] \in Run /\ ~Untaken(holds[w])
  BY DEF Consistent, HoldersHaveRuns, AnswersAreTaken
<1>1. CASE ClaimSelect(w) \/ ClaimCommit(w) BY <1>1, ClaimStep
<1>2. CASE ReapSelect(w) BY <1>2, <1>0, WriteStep DEF ReapSelect, StaleJobs, Untaken
<1>3. CASE ReapWrite(w) BY <1>3, <1>0, WriteStep DEF ReapWrite, Consistent, DoomedAreTaken, Untaken
<1>4. CASE ClaimNothing(w) BY <1>4, <1>0, WriteStep DEF ClaimNothing
<1>5. CASE Enter(w) BY <1>5, <1>0, WriteStep DEF Enter
<1>6. CASE Plan(w) BY <1>6, <1>0, WriteStep DEF Plan
<1>7. CASE Refuse(w) BY <1>7, <1>0, WriteStep DEF Refuse
<1>8. CASE NodeDeclines(w) BY <1>8, <1>0, WriteStep DEF NodeDeclines
<1>9. CASE NodeRuns(w) BY <1>9, <1>0, WriteStep DEF NodeRuns, NodeWorks
<1>10. CASE GraphEnds(w) BY <1>10, <1>0, WriteStep DEF GraphEnds
<1>11. CASE DriveRaises(w) BY <1>11, <1>0, WriteStep DEF DriveRaises
<1>12. CASE Settle(w) BY <1>12, <1>0, WriteStep DEF Settle, FinalStatus
<1>13. CASE Announce(w) BY <1>13, <1>0, WriteStep DEF Announce
<1>14. CASE FailWrite(w) BY <1>14, <1>0, WriteStep DEF FailWrite
<1>15. CASE Close(w) BY <1>15, <1>0, WriteStep DEF Close, JobStatusFor, Drop, Untaken
<1>16. CASE Unwind(w) BY <1>16, <1>0, WriteStep DEF Unwind, Drop
<1>17. CASE CacheExpires(w) BY <1>17, <1>0, WriteStep DEF CacheExpires
<1>18. CASE DrainFaults(w) BY <1>18, <1>0, WriteStep DEF DrainFaults, Drop
<1>19. CASE RunFaults(w) BY <1>19, <1>0, WriteStep DEF RunFaults
<1>20. CASE FailFaults(w) BY <1>20, <1>0, WriteStep DEF FailFaults
<1>21. CASE CloseFaults(w)
  <2>1. PICK to \in {"idle", "dead"} : Drop({w}, to) BY <1>21 DEF CloseFaults
  <2>2. NobodyNew BY <2>1 DEF Drop
  <2> QED BY <1>21, <2>2, WriteStep DEF CloseFaults
<1>22. CASE BeatFaults(w) BY <1>22, <1>0, WriteStep DEF BeatFaults
<1>23. CASE FlagFaults(w) BY <1>23, <1>0, WriteStep DEF FlagFaults, NodeWorks
<1> QED
  BY <1>1, <1>2, <1>3, <1>4, <1>5, <1>6, <1>7, <1>8, <1>9, <1>10, <1>11, <1>12, <1>13, <1>14, <1>15, <1>16, <1>17, <1>18, <1>19, <1>20, <1>21, <1>22, <1>23
     DEF WorkerAction, WorkerStep, Fault

LEMMA OtherConsistent ==
  ASSUME TypeOK, Consistent,
         \/ \E r \in Run : EnqueueRun(r) \/ Lapse(r)
         \/ \E p \in Process, r \in Run : RequestStop(p, r) \/ CancelTask(p, r)
         \/ \E p \in Process : Crash(p) \/ Shutdown(p) \/ Restart(p)
         \/ UNCHANGED vars
  PROVE  Consistent'
<1> USE DEF NobodyNew, TypeOK, Holding, Answering, Executing, runRow, jobRow, taskVar, rest
<1>1. ASSUME NEW r \in Run, EnqueueRun(r) PROVE Consistent'
  <2> USE <1>1 DEF EnqueueRun, Consistent
  <2>0. job[r] = "none" BY DEF JobsHaveRuns
  <2>1. HoldersHaveRuns' BY DEF HoldersHaveRuns
  <2>2. OneHolder'       BY DEF OneHolder
  <2>3. ClaimsAreQueued' BY <2>0 DEF ClaimsAreQueued, HoldersHaveRuns
  <2>4. AnswersAreTaken' BY <2>0 DEF AnswersAreTaken, HoldersHaveRuns, Untaken
  <2>5. DoomedAreTaken'  BY <2>0 DEF DoomedAreTaken, Untaken
  <2>6. ClaimedOnce'     BY <2>0 DEF ClaimedOnce, Untaken
  <2>7. JobsHaveRuns'    BY DEF JobsHaveRuns
  <2> QED BY <2>1, <2>2, <2>3, <2>4, <2>5, <2>6, <2>7
<1>2. ASSUME NEW r \in Run, Lapse(r) PROVE Consistent' BY <1>2, WriteStep DEF Lapse
<1>3. ASSUME NEW p \in Process, NEW r \in Run, RequestStop(p, r) PROVE Consistent'
  BY <1>3, WriteStep DEF RequestStop
<1>4. ASSUME NEW ws, Interrupt(ws), UNCHANGED <<runRow, jobRow>> PROVE Consistent'
  <2>1. NobodyNew BY <1>4 DEF Interrupt
  <2> QED BY <1>4, <2>1, WriteStep
<1>5. ASSUME NEW ws, NEW to \in {"idle", "down"}, Drop(ws, to), UNCHANGED <<runRow, jobRow>>
      PROVE  Consistent'
  <2>1. NobodyNew BY <1>5 DEF Drop
  <2> QED BY <1>5, <2>1, WriteStep
<1>6. ASSUME NEW p \in Process, NEW r \in Run, CancelTask(p, r) PROVE Consistent'
  BY <1>4, <1>6 DEF CancelTask
<1>7. ASSUME NEW p \in Process, Crash(p) \/ Restart(p) PROVE Consistent'
  BY <1>5, <1>7 DEF Crash, Restart
<1>8. ASSUME NEW p \in Process, Shutdown(p) PROVE Consistent'
  BY <1>4, <1>8 DEF Shutdown
<1>9. CASE UNCHANGED vars BY <1>9, WriteStep DEF vars
<1> QED BY <1>1, <1>2, <1>3, <1>6, <1>7, <1>8, <1>9

-----------------------------------------------------------------------------
(* The theorems.                                                           *)

\* The rows and the tasks agree in every reachable state: the inductive
\* invariant, which the type invariant needs too (a node runs for some run).
THEOREM StaysConsistent == Spec => [](TypeOK /\ Consistent)
<1>1. Init => TypeOK /\ Consistent BY InitType, InitConsistent
<1>2. TypeOK /\ Consistent /\ [Next]_vars => TypeOK' /\ Consistent'
  <2> SUFFICES ASSUME TypeOK, Consistent, [Next]_vars PROVE TypeOK' /\ Consistent'
    OBVIOUS
  <2>1. HoldersHaveRuns BY DEF Consistent
  <2>2. CASE \E w \in Worker : WorkerAction(w)
    BY <2>1, <2>2, WorkerType, WorkerConsistent
  <2>3. CASE ~ \E w \in Worker : WorkerAction(w)
    <3>1. \/ \E r \in Run : EnqueueRun(r) \/ Lapse(r)
          \/ \E p \in Process, r \in Run : RequestStop(p, r) \/ CancelTask(p, r)
          \/ \E p \in Process : Crash(p) \/ Shutdown(p) \/ Restart(p)
          \/ UNCHANGED vars
      BY <2>3 DEF Next, WorkerAction
    <3> QED BY <3>1, OtherType, OtherConsistent
  <2> QED BY <2>2, <2>3
<1> QED BY <1>1, <1>2, PTL DEF Spec

\* The tables, the tasks and the process states always have their types.
THEOREM TypeCorrect == Spec => []TypeOK
  BY StaysConsistent, PTL

\* However many workers, processes, crashes and failing database calls: two
\* workers never answer for one run.
THEOREM ExecutedByOne == Spec => []SoleExecutor
<1>1. Consistent => SoleExecutor
  BY DEF Consistent, OneHolder, SoleExecutor, Holding
<1> QED BY <1>1, StaysConsistent, PTL

\* No job is ever claimed twice.
THEOREM ClaimedAtMostOnce == Spec => []NeverRestarted
<1>1. Consistent => NeverRestarted
  BY DEF Consistent, ClaimedOnce, NeverRestarted
<1> QED BY <1>1, StaysConsistent, PTL


-----------------------------------------------------------------------------
(* The tables implement the ledger.                                        *)

LEMMA LedgerInit == Init => Ledger!Init
  BY DEF Init, Ledger!Init, PhaseOf

\* A step that only closes taken jobs is the ledger's Finish.
LEMMA LedgerFinish ==
  ASSUME TypeOK, UNCHANGED claimedBy, NEW done \in SUBSET Run,
         \A r \in done : ~Untaken(r),
         \A r \in done : job'[r] \in {"succeeded", "failed"},
         \A r \in Run \ done : job'[r] = job[r]
  PROVE  Ledger!Next
<1>1. Ledger!Finish(done) BY DEF TypeOK, JobStatus, Untaken, Ledger!Finish, PhaseOf
<1> QED BY <1>1 DEF Ledger!Next

\* One that writes neither the job's status nor its claimant is a stutter.
LEMMA LedgerStutter ==
  ASSUME UNCHANGED <<job, claimedBy>>
  PROVE  UNCHANGED Ledger!lvars
  BY DEF Ledger!lvars, PhaseOf

LEMMA LedgerWorker ==
  ASSUME TypeOK, Consistent, NEW w \in Worker, WorkerAction(w)
  PROVE  Ledger!Next \/ UNCHANGED Ledger!lvars
<1>1. CASE ReapWrite(w)
  <2>1. doomed[w] \in SUBSET Run /\ \A r \in doomed[w] : ~Untaken(r)
    BY DEF TypeOK, Consistent, DoomedAreTaken
  <2> QED BY <1>1, <2>1, LedgerFinish DEF ReapWrite, TypeOK
<1>2. CASE ClaimCommit(w)
  <2>1. holds[w] \in Run /\ job[holds[w]] = "queued" /\ HostOf[w] \in Process
    BY <1>2, QueueAssumption
       DEF ClaimCommit, Consistent, HoldersHaveRuns, ClaimsAreQueued, Holding, QueueAssumption
  <2>2. Ledger!Take(holds[w], HostOf[w])
    BY <1>2, <2>1 DEF ClaimCommit, TypeOK, Ledger!Take, PhaseOf
  <2> QED BY <2>1, <2>2 DEF Ledger!Next
<1>3. CASE Close(w)
  <2>1. holds[w] \in Run /\ ~Untaken(holds[w])
    BY <1>3 DEF Close, Consistent, HoldersHaveRuns, AnswersAreTaken, Holding, Answering
  <2>2. job'[holds[w]] \in {"succeeded", "failed"}
    BY <1>3, <2>1 DEF Close, JobStatusFor, TypeOK
  <2> DEFINE done == {holds[w]}
  <2>3. \A r \in Run \ done : job'[r] = job[r] BY <1>3 DEF Close, TypeOK
  <2>4. done \in SUBSET Run /\ UNCHANGED claimedBy BY <1>3, <2>1 DEF Close
  <2>5. /\ \A r \in done : ~Untaken(r)
        /\ \A r \in done : job'[r] \in {"succeeded", "failed"}
    BY <2>1, <2>2
  <2> HIDE DEF done
  <2> QED BY <2>3, <2>4, <2>5, LedgerFinish
<1>4. CASE UNCHANGED <<job, claimedBy>> BY <1>4, LedgerStutter
<1>5. \/ ReapWrite(w) \/ ClaimCommit(w) \/ Close(w) \/ UNCHANGED <<job, claimedBy>>
  BY DEF WorkerAction, WorkerStep, Fault, jobRow, ReapSelect, ClaimSelect, ClaimNothing,
         Enter, Plan, Refuse, NodeDeclines, NodeRuns, GraphEnds, DriveRaises, Settle,
         Announce, FailWrite, Unwind, CacheExpires, DrainFaults, RunFaults, FailFaults,
         CloseFaults, BeatFaults, FlagFaults, NodeWorks
<1> QED BY <1>1, <1>2, <1>3, <1>4, <1>5

LEMMA LedgerOther ==
  ASSUME TypeOK, Consistent,
         \/ \E r \in Run : EnqueueRun(r) \/ Lapse(r)
         \/ \E p \in Process, r \in Run : RequestStop(p, r) \/ CancelTask(p, r)
         \/ \E p \in Process : Crash(p) \/ Shutdown(p) \/ Restart(p)
         \/ UNCHANGED vars
  PROVE  Ledger!Next \/ UNCHANGED Ledger!lvars
<1>1. ASSUME NEW r \in Run, EnqueueRun(r) PROVE Ledger!Next
  <2>1. job[r] = "none" BY <1>1 DEF EnqueueRun, Consistent, JobsHaveRuns
  <2>2. Ledger!Submit(r) BY <1>1, <2>1 DEF EnqueueRun, TypeOK, Ledger!Submit, PhaseOf
  <2> QED BY <2>2 DEF Ledger!Next
<1>2. \/ \E r \in Run : EnqueueRun(r)
      \/ UNCHANGED <<job, claimedBy>>
  BY DEF Lapse, RequestStop, CancelTask, Crash, Shutdown, Restart, jobRow, vars
<1> QED BY <1>1, <1>2, LedgerStutter

\* The two tables and everything that writes them implement the ledger: a run
\* is taken at most once, by one process, and is never taken again once over.
THEOREM ImplementsLedger == Spec => KeepsTheLedger
<1>1. TypeOK /\ Consistent /\ [Next]_vars => Ledger!Next \/ UNCHANGED Ledger!lvars
  <2> SUFFICES ASSUME TypeOK, Consistent, [Next]_vars
               PROVE  Ledger!Next \/ UNCHANGED Ledger!lvars
    OBVIOUS
  <2>1. CASE \E w \in Worker : WorkerAction(w) BY <2>1, LedgerWorker
  <2>2. CASE ~ \E w \in Worker : WorkerAction(w)
    <3>1. \/ \E r \in Run : EnqueueRun(r) \/ Lapse(r)
          \/ \E p \in Process, r \in Run : RequestStop(p, r) \/ CancelTask(p, r)
          \/ \E p \in Process : Crash(p) \/ Shutdown(p) \/ Restart(p)
          \/ UNCHANGED vars
      BY <2>2 DEF Next, WorkerAction
    <3> QED BY <3>1, LedgerOther
  <2> QED BY <2>1, <2>2
<1> QED BY <1>1, LedgerInit, StaysConsistent, PTL DEF Spec, KeepsTheLedger, Ledger!Spec

-----------------------------------------------------------------------------
(* What holds unless a failure goes unrecorded.                            *)

\* The two raising calls that nothing makes up for: in _fail_by_id, when the
\* run's failure is lost, and in _beat, when a live worker falls silent.
Unrecorded == \E w \in Worker : FailFaults(w) \/ BeatFaults(w)

\* cancel_requested raises, and the node runs as if nobody had pressed Stop.
StopUnread == \E w \in Worker : FlagFaults(w)

\* A worker that answers for a run keeps its heartbeat fresh, and the run's job
\* is running.
HeartbeatKept ==
  \A w \in Worker :
    /\ pc[w] \in Executing => beat[w]
    /\ pc[w] \in Answering => job[holds[w]] = "running" /\ ~quiet[holds[w]]

\* What a reaper has selected stays abandoned until it is closed.
DoomedAbandoned ==
  \A w \in Worker : \A r \in doomed[w] : quiet[r] /\ job[r] \in {"running", "failed"}

\* What a job's status says of its run's.
RowsAgree ==
  \A r \in Run :
    /\ job[r] = "none" => run[r] = "none"
    /\ job[r] = "queued" => run[r] = "queued"
    /\ job[r] = "running" => run[r] # "none"
    /\ job[r] = "succeeded" => run[r] \in {"succeeded", "partial"}
    /\ job[r] = "failed" => run[r] \in {"failed", "cancelled"}

\* What the place a worker is at says of its run's status.
StagesAgree ==
  \A w \in Worker :
    /\ pc[w] \in {"claimed", "planning"} => run[holds[w]] = "queued"
    /\ pc[w] \in {"driving", "settling"} => run[holds[w]] = "running"
    /\ pc[w] = "failing" => run[holds[w]] \in {"queued", "running"}
    /\ pc[w] \in {"announcing", "closing"} => run[holds[w]] = FinalStatus(acc[w])

Undisturbed == HeartbeatKept /\ DoomedAbandoned /\ RowsAgree /\ StagesAgree

\* A worker that is not inside a graph has cached no answer about a Stop.
CacheEmpty ==
  \A w \in Worker : pc[w] \notin {"driving", "settling", "failing"} => seen[w] = "none"

\* The mark a queued run was stopped with stays on its row.
EarlyMarked ==
  \A r \in early : cancelReq[r] /\ r \notin worked /\ run[r] \notin {"succeeded", "partial"}

\* Whoever drives such a run has not cached that nobody stopped it, and does
\* not come to the end of its graph with nothing against it.
EarlyHeld ==
  \A w \in Worker :
    /\ pc[w] = "driving" /\ holds[w] \in early => seen[w] # "no" /\ left[w] # 0
    /\ pc[w] = "settling" /\ holds[w] \in early =>
         "cancelled" \in acc[w] \/ "failed_at" \in acc[w]

StopHeld == CacheEmpty /\ EarlyMarked /\ EarlyHeld

LEMMA InitUndisturbed == Init => Undisturbed /\ StopHeld
  BY DEF Init, Undisturbed, HeartbeatKept, DoomedAbandoned, RowsAgree, StagesAgree,
         StopHeld, CacheEmpty, EarlyMarked, EarlyHeld, Answering, Executing

LEMMA WorkerUndisturbed ==
  ASSUME TypeOK, Consistent, Undisturbed, NEW w \in Worker, WorkerAction(w),
         ~FailFaults(w), ~BeatFaults(w)
  PROVE  Undisturbed'
<1> USE DEF TypeOK, Holding, Answering, Executing, runRow, jobRow, taskVar, rest, Goto, Return,
        Consistent, HoldersHaveRuns, OneHolder,
        Undisturbed, HeartbeatKept, DoomedAbandoned, RowsAgree, StagesAgree
<1>1. CASE ReapSelect(w)
  <2> USE <1>1 DEF ReapSelect, StaleJobs
  <2>1. HeartbeatKept' OBVIOUS
  <2>2. DoomedAbandoned' OBVIOUS
  <2>3. RowsAgree' OBVIOUS
  <2>4. StagesAgree' OBVIOUS
  <2> QED BY <2>1, <2>2, <2>3, <2>4
<1>2. CASE ReapWrite(w)
  <2> USE <1>2 DEF ReapWrite
  <2>0. \A v \in Worker : pc[v] \in Answering => holds[v] \notin doomed[w] OBVIOUS
  <2>1. HeartbeatKept' BY <2>0
  <2>2. DoomedAbandoned' OBVIOUS
  <2>3. RowsAgree' OBVIOUS
  <2>4. StagesAgree' BY <2>0
  <2> QED BY <2>1, <2>2, <2>3, <2>4
<1>3. CASE ClaimSelect(w) BY <1>3 DEF ClaimSelect
<1>4. CASE ClaimNothing(w) BY <1>4 DEF ClaimNothing
<1>5. CASE ClaimCommit(w) BY <1>5 DEF ClaimCommit, ClaimsAreQueued
<1>6. CASE Enter(w) BY <1>6 DEF Enter
<1>7. CASE Plan(w) BY <1>7 DEF Plan
<1>8. CASE Refuse(w) BY <1>8 DEF Refuse, FinalStatus
<1>9. CASE NodeDeclines(w) BY <1>9 DEF NodeDeclines, Remember
<1>10. CASE NodeRuns(w) BY <1>10 DEF NodeRuns, NodeWorks
<1>11. CASE GraphEnds(w) BY <1>11 DEF GraphEnds
<1>12. CASE DriveRaises(w) BY <1>12 DEF DriveRaises
<1>13. CASE Settle(w) BY <1>13 DEF Settle, FinalStatus
<1>14. CASE Announce(w) BY <1>14 DEF Announce
<1>15. CASE FailWrite(w) BY <1>15 DEF FailWrite, FinalStatus
<1>16. CASE Close(w) BY <1>16 DEF Close, JobStatusFor, FinalStatus, Drop
<1>17. CASE Unwind(w) BY <1>17 DEF Unwind, Drop
<1>18. CASE CacheExpires(w) BY <1>18 DEF CacheExpires
<1>19. CASE DrainFaults(w) BY <1>19 DEF DrainFaults, Drop
<1>20. CASE RunFaults(w) BY <1>20 DEF RunFaults
<1>21. CASE CloseFaults(w)
  <2>1. PICK to \in {"idle", "dead"} : Drop({w}, to) BY <1>21 DEF CloseFaults
  <2>2. UNCHANGED <<runRow, jobRow, early, worked>> BY <1>21 DEF CloseFaults
  <2>3. pc[w] \in {"closing", "unwinding"} BY <1>21 DEF CloseFaults
  <2> QED BY <2>1, <2>2, <2>3 DEF Drop
<1>22. CASE FlagFaults(w) BY <1>22 DEF FlagFaults, NodeWorks
<1> QED
  BY <1>1, <1>2, <1>3, <1>4, <1>5, <1>6, <1>7, <1>8, <1>9, <1>10, <1>11, <1>12, <1>13, <1>14,
     <1>15, <1>16, <1>17, <1>18, <1>19, <1>20, <1>21, <1>22
     DEF WorkerAction, WorkerStep, Fault

\* Enqueueing, the passage of time, a Stop and the life of a process.
LEMMA OtherUndisturbed ==
  ASSUME TypeOK, Consistent, Undisturbed,
         \/ \E r \in Run : EnqueueRun(r) \/ Lapse(r)
         \/ \E p \in Process, r \in Run : RequestStop(p, r) \/ CancelTask(p, r)
         \/ \E p \in Process : Crash(p) \/ Shutdown(p) \/ Restart(p)
         \/ UNCHANGED vars
  PROVE  Undisturbed'
<1> USE DEF TypeOK, Holding, Answering, Executing, runRow, jobRow, taskVar, rest,
        Consistent, HoldersHaveRuns,
        Undisturbed, HeartbeatKept, DoomedAbandoned, RowsAgree, StagesAgree
<1>1. ASSUME NEW r \in Run, EnqueueRun(r) PROVE Undisturbed'
  BY <1>1 DEF EnqueueRun, JobsHaveRuns
<1>2. ASSUME NEW r \in Run, Lapse(r) PROVE Undisturbed' BY <1>2 DEF Lapse
<1>3. ASSUME NEW p \in Process, NEW r \in Run, RequestStop(p, r) PROVE Undisturbed'
  BY <1>3 DEF RequestStop
<1>4. ASSUME NEW ws, Interrupt(ws), UNCHANGED <<runRow, jobRow>> PROVE Undisturbed'
  BY <1>4 DEF Interrupt
<1>5. ASSUME NEW ws, NEW to \in {"idle", "down"}, Drop(ws, to), UNCHANGED <<runRow, jobRow>>
      PROVE  Undisturbed'
  BY <1>5 DEF Drop
<1>6. ASSUME NEW p \in Process, NEW r \in Run, CancelTask(p, r) PROVE Undisturbed'
  BY <1>4, <1>6 DEF CancelTask
<1>7. ASSUME NEW p \in Process, Crash(p) \/ Restart(p) PROVE Undisturbed'
  BY <1>5, <1>7 DEF Crash, Restart
<1>8. ASSUME NEW p \in Process, Shutdown(p) PROVE Undisturbed'
  BY <1>4, <1>8 DEF Shutdown
<1>9. CASE UNCHANGED vars BY <1>9 DEF vars
<1> QED BY <1>1, <1>2, <1>3, <1>6, <1>7, <1>8, <1>9

LEMMA WorkerStopHeld ==
  ASSUME TypeOK, Consistent, Undisturbed, StopHeld, NEW w \in Worker, WorkerAction(w),
         ~FailFaults(w), ~BeatFaults(w), ~FlagFaults(w)
  PROVE  StopHeld'
<1> USE DEF TypeOK, Holding, Answering, Executing, runRow, jobRow, taskVar, rest, Goto, Return,
        Consistent, HoldersHaveRuns, OneHolder, StopHeld, CacheEmpty, EarlyMarked, EarlyHeld
<1>1. CASE ReapSelect(w) BY <1>1 DEF ReapSelect
<1>2. CASE ReapWrite(w) BY <1>2 DEF ReapWrite
<1>3. CASE ClaimSelect(w) BY <1>3 DEF ClaimSelect
<1>4. CASE ClaimNothing(w) BY <1>4 DEF ClaimNothing
<1>5. CASE ClaimCommit(w) BY <1>5 DEF ClaimCommit, ClaimsAreQueued
<1>6. CASE Enter(w) BY <1>6 DEF Enter
<1>7. CASE Plan(w)
  BY <1>7, QueueAssumption DEF Plan, QueueAssumption
<1>8. CASE Refuse(w) BY <1>8 DEF Refuse
<1>9. CASE NodeDeclines(w) BY <1>9 DEF NodeDeclines, Remember
<1>10. CASE NodeRuns(w)
  <2> USE <1>10 DEF NodeRuns, NodeWorks, CancelSeen, Remember
  <2>0. holds[w] \notin early OBVIOUS
  <2>1. CacheEmpty' BY <2>0
  <2>2. EarlyMarked' BY <2>0
  <2>3. EarlyHeld' BY <2>0
  <2> QED BY <2>1, <2>2, <2>3
<1>11. CASE GraphEnds(w) BY <1>11 DEF GraphEnds
<1>12. CASE DriveRaises(w) BY <1>12 DEF DriveRaises
<1>13. CASE Settle(w) BY <1>13 DEF Settle, FinalStatus
<1>14. CASE Announce(w) BY <1>14 DEF Announce
<1>15. CASE FailWrite(w) BY <1>15 DEF FailWrite
<1>16. CASE Close(w) BY <1>16 DEF Close, Drop
<1>17. CASE Unwind(w) BY <1>17 DEF Unwind, Drop
<1>18. CASE CacheExpires(w) BY <1>18 DEF CacheExpires
<1>19. CASE DrainFaults(w) BY <1>19 DEF DrainFaults, Drop
<1>20. CASE RunFaults(w) BY <1>20 DEF RunFaults
<1>21. CASE CloseFaults(w)
  <2>1. PICK to \in {"idle", "dead"} : Drop({w}, to) BY <1>21 DEF CloseFaults
  <2>2. UNCHANGED <<runRow, jobRow, early, worked>> BY <1>21 DEF CloseFaults
  <2>3. pc[w] \in {"closing", "unwinding"} BY <1>21 DEF CloseFaults
  <2> QED BY <2>1, <2>2, <2>3 DEF Drop
<1> QED
  BY <1>1, <1>2, <1>3, <1>4, <1>5, <1>6, <1>7, <1>8, <1>9, <1>10, <1>11, <1>12, <1>13, <1>14,
     <1>15, <1>16, <1>17, <1>18, <1>19, <1>20, <1>21
     DEF WorkerAction, WorkerStep, Fault

LEMMA OtherStopHeld ==
  ASSUME TypeOK, Consistent, Undisturbed, StopHeld,
         \/ \E r \in Run : EnqueueRun(r) \/ Lapse(r)
         \/ \E p \in Process, r \in Run : RequestStop(p, r) \/ CancelTask(p, r)
         \/ \E p \in Process : Crash(p) \/ Shutdown(p) \/ Restart(p)
         \/ UNCHANGED vars
  PROVE  StopHeld'
<1> USE DEF TypeOK, Holding, Answering, Executing, runRow, jobRow, taskVar, rest,
        Consistent, HoldersHaveRuns, StopHeld, CacheEmpty, EarlyMarked, EarlyHeld
<1>1. ASSUME NEW r \in Run, EnqueueRun(r) PROVE StopHeld' BY <1>1 DEF EnqueueRun
<1>2. ASSUME NEW r \in Run, Lapse(r) PROVE StopHeld' BY <1>2 DEF Lapse
<1>3. ASSUME NEW p \in Process, NEW r \in Run, RequestStop(p, r) PROVE StopHeld'
  BY <1>3 DEF RequestStop, Undisturbed, HeartbeatKept, RowsAgree
<1>4. ASSUME NEW ws, Interrupt(ws), UNCHANGED <<runRow, jobRow, early, worked>> PROVE StopHeld'
  BY <1>4 DEF Interrupt
<1>5. ASSUME NEW ws, NEW to \in {"idle", "down"}, Drop(ws, to),
             UNCHANGED <<runRow, jobRow, early, worked>>
      PROVE  StopHeld'
  BY <1>5 DEF Drop
<1>6. ASSUME NEW p \in Process, NEW r \in Run, CancelTask(p, r) PROVE StopHeld'
  BY <1>4, <1>6 DEF CancelTask
<1>7. ASSUME NEW p \in Process, Crash(p) \/ Restart(p) PROVE StopHeld'
  BY <1>5, <1>7 DEF Crash, Restart
<1>8. ASSUME NEW p \in Process, Shutdown(p) PROVE StopHeld'
  BY <1>4, <1>8 DEF Shutdown
<1>9. CASE UNCHANGED vars BY <1>9 DEF vars
<1> QED BY <1>1, <1>2, <1>3, <1>6, <1>7, <1>8, <1>9

\* The rest of a step, once the workers' own are set aside.
LEMMA OtherSteps ==
  ASSUME [Next]_vars, ~ \E w \in Worker : WorkerAction(w)
  PROVE  \/ \E r \in Run : EnqueueRun(r) \/ Lapse(r)
         \/ \E p \in Process, r \in Run : RequestStop(p, r) \/ CancelTask(p, r)
         \/ \E p \in Process : Crash(p) \/ Shutdown(p) \/ Restart(p)
         \/ UNCHANGED vars
  BY DEF Next, WorkerAction

\* The rows of the two tables, the heartbeats and the places of the workers
\* agree in every state, through every crash, Stop and raising database call
\* but the two of Unrecorded: the inductive invariant of what follows.
THEOREM StaysUndisturbed == Spec /\ [][~Unrecorded]_vars => []Undisturbed
<1>1. TypeOK /\ Consistent /\ Undisturbed /\ [Next]_vars /\ [~Unrecorded]_vars => Undisturbed'
  <2> SUFFICES ASSUME TypeOK, Consistent, Undisturbed, [Next]_vars, [~Unrecorded]_vars
               PROVE  Undisturbed'
    OBVIOUS
  <2>1. CASE UNCHANGED vars BY <2>1, OtherUndisturbed
  <2>2. ASSUME NEW w \in Worker, WorkerAction(w), ~Unrecorded PROVE Undisturbed'
    BY <2>2, WorkerUndisturbed DEF Unrecorded
  <2>3. CASE ~ \E w \in Worker : WorkerAction(w) BY <2>3, OtherSteps, OtherUndisturbed
  <2> QED BY <2>1, <2>2, <2>3
<1> QED BY <1>1, InitUndisturbed, StaysConsistent, PTL DEF Spec

\* No reaper selects or closes the job of a run some worker still answers for,
\* however slow that worker is, as long as no heartbeat write raises and no
\* failure goes unwritten.
THEOREM ReaperSpares == Spec /\ [][~Unrecorded]_vars => []ReaperSparesLiving
<1>1. Undisturbed => ReaperSparesLiving
  BY DEF Undisturbed, HeartbeatKept, DoomedAbandoned, ReaperSparesLiving
<1> QED BY <1>1, StaysUndisturbed, PTL

\* A run that has not ended has a job that will end it, whatever database calls
\* raise but the two of Unrecorded.
THEOREM NoRunOrphaned == Spec /\ [][~Unrecorded]_vars => []NoOrphanRun
<1>1. TypeOK /\ Undisturbed => NoOrphanRun
  BY DEF TypeOK, JobStatus, Undisturbed, RowsAgree, NoOrphanRun
<1> QED BY <1>1, StaysUndisturbed, StaysConsistent, PTL

\* A closed job's badge says what its run says, whatever database calls raise
\* but the two of Unrecorded.
THEOREM BadgeMatchesRun == Spec /\ [][~Unrecorded]_vars => []JobMatchesRun
<1>1. Undisturbed => JobMatchesRun BY DEF Undisturbed, RowsAgree, JobMatchesRun
<1> QED BY <1>1, StaysUndisturbed, PTL

\* A run recorded as failed or cancelled stays so, whatever database calls
\* raise but the two of Unrecorded: a worker writes "running" only over
\* "queued" and its verdict only over "running", and the reaper and Stop write
\* failures.
THEOREM NeverGreenAgain == Spec /\ [][~Unrecorded]_vars => NeverTurnsGreen
<1>1. TypeOK /\ Consistent /\ Undisturbed /\ [Next]_vars
        => [\A r \in Run : run[r] \in {"failed", "cancelled"} =>
              run'[r] \in {"failed", "cancelled"}]_vars
  <2> SUFFICES ASSUME TypeOK, Consistent, Undisturbed, Next,
                      NEW r \in Run, run[r] \in {"failed", "cancelled"}
               PROVE  run'[r] \in {"failed", "cancelled"}
    OBVIOUS
  <2> USE DEF TypeOK, runRow, jobRow, Undisturbed, StagesAgree, Consistent, HoldersHaveRuns,
              Holding, Answering, Executing
  <2>1. ASSUME NEW w \in Worker, WorkerAction(w) PROVE run'[r] \in {"failed", "cancelled"}
    <3>1. \/ ReapWrite(w) \/ Plan(w) \/ Refuse(w) \/ Settle(w) \/ FailWrite(w) \/ Unwind(w)
          \/ UNCHANGED run
      BY <2>1 DEF WorkerAction, WorkerStep, Fault, ReapSelect, ClaimSelect, ClaimNothing,
           ClaimCommit, Enter, NodeDeclines, NodeRuns, NodeWorks, GraphEnds, DriveRaises,
           Announce, Close, CacheExpires, DrainFaults, RunFaults, FailFaults, CloseFaults,
           FlagFaults, BeatFaults
    <3>2. CASE ReapWrite(w) BY <3>2 DEF ReapWrite
    <3>3. CASE Plan(w)      BY <3>3 DEF Plan
    <3>4. CASE Refuse(w)    BY <3>4 DEF Refuse
    <3>5. CASE Settle(w)    BY <3>5 DEF Settle
    <3>6. CASE FailWrite(w) BY <3>6 DEF FailWrite
    <3>7. CASE Unwind(w)    BY <3>7 DEF Unwind
    <3>8. CASE UNCHANGED run BY <3>8
    <3> QED BY <3>1, <3>2, <3>3, <3>4, <3>5, <3>6, <3>7, <3>8
  <2>2. ASSUME NEW q \in Run, EnqueueRun(q) PROVE run'[r] \in {"failed", "cancelled"}
    BY <2>2 DEF EnqueueRun
  <2>3. CASE UNCHANGED run BY <2>3
  <2>4. \/ \E w \in Worker : WorkerAction(w)
        \/ \E q \in Run : EnqueueRun(q)
        \/ UNCHANGED run
    BY OtherSteps DEF Lapse, RequestStop, CancelTask, Crash, Shutdown, Restart, vars
  <2> QED BY <2>1, <2>2, <2>3, <2>4
<1> QED BY <1>1, StaysUndisturbed, StaysConsistent, PTL DEF Spec, NeverTurnsGreen

\* A run stopped while it was queued does no work and does not read as a
\* success, whichever process claims it and whatever database calls raise but
\* the two of Unrecorded and the read of the flag itself.
THEOREM StoppedBeforeStart ==
  Spec /\ [][~Unrecorded /\ ~StopUnread]_vars => []StopBeforeStart
<1>1. TypeOK /\ Consistent /\ Undisturbed /\ StopHeld
        /\ [Next]_vars /\ [~Unrecorded /\ ~StopUnread]_vars => StopHeld'
  <2> SUFFICES ASSUME TypeOK, Consistent, Undisturbed, StopHeld,
                      [Next]_vars, [~Unrecorded /\ ~StopUnread]_vars
               PROVE  StopHeld'
    OBVIOUS
  <2>1. CASE UNCHANGED vars BY <2>1, OtherStopHeld
  <2>2. ASSUME NEW w \in Worker, WorkerAction(w), ~Unrecorded, ~StopUnread PROVE StopHeld'
    BY <2>2, WorkerStopHeld DEF Unrecorded, StopUnread
  <2>3. CASE ~ \E w \in Worker : WorkerAction(w) BY <2>3, OtherSteps, OtherStopHeld
  <2> QED BY <2>1, <2>2, <2>3
<1>2. [~Unrecorded /\ ~StopUnread]_vars => [~Unrecorded]_vars OBVIOUS
<1>3. StopHeld => StopBeforeStart BY DEF StopHeld, EarlyMarked, StopBeforeStart
<1> QED BY <1>1, <1>2, <1>3, InitUndisturbed, StaysUndisturbed, StaysConsistent, PTL DEF Spec

\* The calls that raise are counted: with a bound of none, none raises.
LEMMA NothingRaises ==
  ASSUME MaxFaults = 0, TypeOK PROVE ~ Unrecorded /\ ~ StopUnread
<1>1. used["faults"] \in Nat BY DEF TypeOK
<1>2. ~ Faulty BY <1>1 DEF Faulty
<1>3. QED BY <1>2 DEF Unrecorded, StopUnread, FailFaults, BeatFaults, FlagFaults

\* While no database call raises, the reaper spares the living, no run loses its
\* job, a badge agrees with its run, a Stop before the start holds and nothing
\* failed turns green, whatever crashes, shutdowns and Stops do (the five
\* properties as they are checked, for any number of runs, workers and processes).
THEOREM SoundWhileNothingRaises ==
  ASSUME MaxFaults = 0
  PROVE  Spec => /\ [](ReaperSparesLiving /\ NoOrphanRun /\ JobMatchesRun /\ StopBeforeStart)
                 /\ NeverTurnsGreen
<1>1. TypeOK => ~ Unrecorded /\ ~ StopUnread BY NothingRaises
<1>2. Spec => [][~ Unrecorded]_vars BY <1>1, TypeCorrect, PTL
<1>3. Spec => [][~ Unrecorded /\ ~ StopUnread]_vars BY <1>1, TypeCorrect, PTL
<1>4. QED
  BY <1>2, <1>3, ReaperSpares, NoRunOrphaned, BadgeMatchesRun, StoppedBeforeStart,
     NeverGreenAgain, PTL
-----------------------------------------------------------------------------
(* Which step is to blame where the code does not do what it says.         *)

\* A worker selects a run while another one's claim of the same workflow is
\* selected and not yet committed: the NOT EXISTS reads committed rows only,
\* and SKIP LOCKED locks the selected row and not its workflow.
ClaimsOverlap ==
  \E v, w \in Worker :
    v # w /\ ClaimSelect(w) /\ pc[v] = "claim" /\ FlowOf[holds[v]] = FlowOf[holds'[w]]

\* No two open claims are of one workflow, and none is of a running one.
ClaimsApart ==
  \A w \in Worker : pc[w] = "claim" =>
    /\ ~ BusyFlow(holds[w])
    /\ \A v \in Worker \ {w} : pc[v] = "claim" => FlowOf[holds[v]] # FlowOf[holds[w]]

Serialised == FlowSerialised /\ ClaimsApart

\* A step that starts no job and opens no claim cannot disturb the two.
LEMMA NoNewClaim ==
  ASSUME TypeOK, Serialised,
         \A r \in Run : job'[r] = "running" => job[r] = "running",
         \A w \in Worker : pc'[w] = "claim" => pc[w] = "claim" /\ holds'[w] = holds[w]
  PROVE  Serialised'
<1>1. FlowSerialised' BY DEF Serialised, FlowSerialised
<1>2. ClaimsApart' BY DEF Serialised, ClaimsApart, BusyFlow
<1> QED BY <1>1, <1>2 DEF Serialised

LEMMA WorkerSerialised ==
  ASSUME TypeOK, Consistent, Serialised, NEW w \in Worker, WorkerAction(w), ~ ClaimsOverlap
  PROVE  Serialised'
<1> USE DEF TypeOK
<1>1. CASE ClaimSelect(w)
  <2>1. PICK r \in Claimable :
          holds' = [holds EXCEPT ![w] = r] /\ Goto(w, "claim") /\ UNCHANGED job
    BY <1>1 DEF ClaimSelect, jobRow
  <2>2. r \in Run /\ ~ BusyFlow(r) BY <2>1 DEF Claimable
  <2>3. \A v \in Worker \ {w} : pc[v] = "claim" => FlowOf[holds[v]] # FlowOf[r]
    BY <1>1, <2>1 DEF ClaimsOverlap
  <2>4. FlowSerialised' BY <2>1 DEF Serialised, FlowSerialised
  <2>5. ClaimsApart' BY <2>1, <2>2, <2>3 DEF Serialised, ClaimsApart, BusyFlow, Goto
  <2> QED BY <2>4, <2>5 DEF Serialised
<1>2. CASE ClaimCommit(w)
  <2>1. holds[w] \in Run /\ ~ BusyFlow(holds[w])
    BY <1>2 DEF ClaimCommit, Serialised, ClaimsApart, Consistent, HoldersHaveRuns, Holding
  <2>2. \A v \in Worker \ {w} : pc[v] = "claim" => FlowOf[holds[v]] # FlowOf[holds[w]]
    BY <1>2 DEF ClaimCommit, Serialised, ClaimsApart
  <2>3. job' = [job EXCEPT ![holds[w]] = "running"] /\ UNCHANGED holds /\ Goto(w, "claimed")
    BY <1>2 DEF ClaimCommit
  <2>4. FlowSerialised' BY <2>1, <2>3 DEF Serialised, FlowSerialised, BusyFlow
  <2>5. ClaimsApart' BY <2>1, <2>2, <2>3 DEF Serialised, ClaimsApart, BusyFlow, Goto
  <2> QED BY <2>4, <2>5 DEF Serialised
<1>3. CASE ~ ClaimSelect(w) /\ ~ ClaimCommit(w)
  <2> USE DEF Goto, Return, Drop, runRow, jobRow
  <2>1. \A r \in Run : job'[r] = "running" => job[r] = "running"
    <3>1. UNCHANGED job \/ ReapWrite(w) \/ Close(w)
      BY <1>3 DEF WorkerAction, WorkerStep, Fault, ReapSelect, ClaimNothing, Enter, Plan, Refuse,
           NodeDeclines, NodeRuns, NodeWorks, GraphEnds, DriveRaises, Settle, Announce, FailWrite,
           Unwind, CacheExpires, DrainFaults, RunFaults, FailFaults, CloseFaults, FlagFaults,
           BeatFaults
    <3> QED BY <3>1 DEF ReapWrite, Close, JobStatusFor
  <2>2. \A v \in Worker : pc'[v] = "claim" => pc[v] = "claim" /\ holds'[v] = holds[v]
    <3>1. \/ UNCHANGED <<pc, holds>>
          \/ UNCHANGED holds /\ \E to \in Stage \ {"claim"} : Goto(w, to)
          \/ \E to \in Stage \ {"claim"} : Drop({w}, to)
      BY <1>3 DEF WorkerAction, WorkerStep, Fault, Stage, Answering, Executing, ReapSelect,
           ReapWrite, ClaimNothing, Enter, Plan, Refuse, NodeDeclines, NodeRuns, NodeWorks,
           GraphEnds, DriveRaises, Settle, Announce, FailWrite, Close, Unwind, CacheExpires,
           DrainFaults, RunFaults, FailFaults, CloseFaults, FlagFaults, BeatFaults
    <3> QED BY <3>1
  <2> QED BY <2>1, <2>2, NoNewClaim
<1> QED BY <1>1, <1>2, <1>3

LEMMA OtherSerialised ==
  ASSUME TypeOK, Serialised,
         \/ \E r \in Run : EnqueueRun(r) \/ Lapse(r)
         \/ \E p \in Process, r \in Run : RequestStop(p, r) \/ CancelTask(p, r)
         \/ \E p \in Process : Crash(p) \/ Shutdown(p) \/ Restart(p)
         \/ UNCHANGED vars
  PROVE  Serialised'
<1>1. \A r \in Run : job'[r] = "running" => job[r] = "running"
  BY DEF TypeOK, EnqueueRun, Lapse, RequestStop, CancelTask, Crash, Shutdown, Restart, jobRow, vars
<1>2. \A w \in Worker : pc'[w] = "claim" => pc[w] = "claim" /\ holds'[w] = holds[w]
  <2>1. \/ UNCHANGED <<pc, holds>>
        \/ \E ws : Interrupt(ws)
        \/ \E ws : \E to \in {"idle", "down"} : Drop(ws, to)
    BY DEF EnqueueRun, Lapse, RequestStop, CancelTask, Crash, Shutdown, Restart, taskVar, vars
  <2>2. ASSUME NEW ws, Interrupt(ws), NEW w \in Worker, pc'[w] = "claim"
        PROVE  pc[w] = "claim" /\ holds'[w] = holds[w]
    BY <2>2 DEF Interrupt
  <2>3. ASSUME NEW ws, NEW to \in {"idle", "down"}, Drop(ws, to), NEW w \in Worker,
               pc'[w] = "claim"
        PROVE  pc[w] = "claim" /\ holds'[w] = holds[w]
    BY <2>3 DEF Drop
  <2> QED BY <2>1, <2>2, <2>3
<1> QED BY <1>1, <1>2, NoNewClaim

\* Two jobs of one workflow run at once only after a worker selected a run of it
\* while another worker's claim of it was still open: no crash, Stop, reaper or
\* raising database call can bring it about.
THEOREM SerialisedUnlessClaimsOverlap == Spec /\ [][~ClaimsOverlap]_vars => []FlowSerialised
<1>1. Init => Serialised BY DEF Init, Serialised, FlowSerialised, ClaimsApart
<1>2. TypeOK /\ Consistent /\ Serialised /\ [Next]_vars /\ [~ClaimsOverlap]_vars => Serialised'
  <2> SUFFICES ASSUME TypeOK, Consistent, Serialised, [Next]_vars, [~ClaimsOverlap]_vars
               PROVE  Serialised'
    OBVIOUS
  <2>1. CASE UNCHANGED vars BY <2>1, OtherSerialised
  <2>2. ASSUME NEW w \in Worker, WorkerAction(w), ~ClaimsOverlap PROVE Serialised'
    BY <2>2, WorkerSerialised
  <2>3. CASE ~ \E w \in Worker : WorkerAction(w) BY <2>3, OtherSteps, OtherSerialised
  <2> QED BY <2>1, <2>2, <2>3
<1>3. Serialised => FlowSerialised BY DEF Serialised
<1> QED BY <1>1, <1>2, <1>3, StaysConsistent, PTL DEF Spec

\* One worker task alone keeps the workflows serialised, in one process or
\* through any number of restarts of it: the promise breaks with the second.
THEOREM SerialisedForOneWorker ==
  ASSUME \A v, w \in Worker : v = w
  PROVE  Spec => []FlowSerialised
<1>1. ~ ClaimsOverlap BY DEF ClaimsOverlap
<1> QED BY <1>1, SerialisedUnlessClaimsOverlap, PTL

\* A Stop reaches a worker of its own process that is driving the run.
StopStrikes ==
  \E p \in Process, r \in Run :
    /\ CancelTask(p, r)
    /\ \E w \in Worker : HostOf[w] = p /\ holds[w] = r /\ pc[w] \in Executing

\* A worker that is ending, or has ended, belongs to a process that is stopping.
EndsWithProcess == \A w \in Worker : pc[w] \in {"unwinding", "dead"} => up[HostOf[w]] # "up"

LEMMA WorkerEnds ==
  ASSUME TypeOK, EndsWithProcess, NEW w \in Worker, WorkerAction(w)
  PROVE  EndsWithProcess'
<1> USE DEF Goto, Return, Drop, rest
<1>1. UNCHANGED up
  BY DEF WorkerAction, WorkerStep, Fault, ReapSelect, ReapWrite, ClaimSelect, ClaimNothing,
       ClaimCommit, Enter, Plan, Refuse, NodeDeclines, NodeRuns, NodeWorks, GraphEnds,
       DriveRaises, Settle, Announce, FailWrite, Close, Unwind, CacheExpires, DrainFaults,
       RunFaults, FailFaults, CloseFaults, FlagFaults, BeatFaults
<1>2. \/ UNCHANGED pc
      \/ \E to \in Stage \ {"unwinding", "dead"} : Goto(w, to)
      \/ \E to \in Stage \ {"unwinding", "dead"} : Drop({w}, to)
      \/ pc[w] = "unwinding" /\ Drop({w}, "dead")
  BY DEF WorkerAction, WorkerStep, Fault, Stage, Answering, Executing, ReapSelect, ReapWrite,
       ClaimSelect, ClaimNothing, ClaimCommit, Enter, Plan, Refuse, NodeDeclines, NodeRuns,
       NodeWorks, GraphEnds, DriveRaises, Settle, Announce, FailWrite, Close, Unwind,
       CacheExpires, DrainFaults, RunFaults, FailFaults, CloseFaults, FlagFaults, BeatFaults
<1>3. \A v \in Worker : pc'[v] \in {"unwinding", "dead"} => pc[v] \in {"unwinding", "dead"}
  <2> SUFFICES ASSUME NEW v \in Worker, pc'[v] \in {"unwinding", "dead"}
               PROVE  pc[v] \in {"unwinding", "dead"}
    OBVIOUS
  <2> USE DEF TypeOK
  <2>1. CASE UNCHANGED pc BY <2>1
  <2>2. ASSUME NEW to \in Stage \ {"unwinding", "dead"}, Goto(w, to)
        PROVE  pc[v] \in {"unwinding", "dead"}
    BY <2>2
  <2>3. ASSUME NEW to \in Stage \ {"unwinding", "dead"}, Drop({w}, to)
        PROVE  pc[v] \in {"unwinding", "dead"}
    BY <2>3
  <2>4. CASE pc[w] = "unwinding" /\ Drop({w}, "dead") BY <2>4
  <2> QED BY <1>2, <2>1, <2>2, <2>3, <2>4
<1> QED BY <1>1, <1>3 DEF EndsWithProcess

LEMMA OtherEnds ==
  ASSUME TypeOK, EndsWithProcess, ~ StopStrikes,
         \/ \E r \in Run : EnqueueRun(r) \/ Lapse(r)
         \/ \E p \in Process, r \in Run : RequestStop(p, r) \/ CancelTask(p, r)
         \/ \E p \in Process : Crash(p) \/ Shutdown(p) \/ Restart(p)
         \/ UNCHANGED vars
  PROVE  EndsWithProcess'
<1> USE QueueAssumption DEF TypeOK, EndsWithProcess, TasksOf, rest, taskVar
<1>1. ASSUME NEW r \in Run, EnqueueRun(r) \/ Lapse(r) PROVE EndsWithProcess'
  BY <1>1 DEF EnqueueRun, Lapse
<1>2. ASSUME NEW p \in Process, NEW r \in Run, RequestStop(p, r) PROVE EndsWithProcess'
  BY <1>2 DEF RequestStop
<1>3. ASSUME NEW p \in Process, NEW r \in Run, CancelTask(p, r) PROVE EndsWithProcess'
  BY <1>3 DEF CancelTask, StopStrikes, Interrupt
<1>4. ASSUME NEW p \in Process, Crash(p) PROVE EndsWithProcess' BY <1>4 DEF Crash, Drop
<1>5. ASSUME NEW p \in Process, Shutdown(p) PROVE EndsWithProcess' BY <1>5 DEF Shutdown, Interrupt
<1>6. ASSUME NEW p \in Process, Restart(p) PROVE EndsWithProcess' BY <1>6 DEF Restart, Drop
<1>7. CASE UNCHANGED vars BY <1>7 DEF vars
<1> QED BY <1>1, <1>2, <1>3, <1>4, <1>5, <1>6, <1>7

\* A worker task ends while its process serves only because a Stop cancelled it:
\* no crash, shutdown, restart or raising database call costs a worker.
THEOREM OnlyStopCostsAWorker == Spec /\ [][~StopStrikes]_vars => []WorkerDiesOnlyAtShutdown
<1>1. Init => EndsWithProcess BY DEF Init, EndsWithProcess
<1>2. TypeOK /\ EndsWithProcess /\ [Next]_vars /\ [~StopStrikes]_vars => EndsWithProcess'
  <2> SUFFICES ASSUME TypeOK, EndsWithProcess, [Next]_vars, [~StopStrikes]_vars
               PROVE  EndsWithProcess'
    OBVIOUS
  <2>1. CASE UNCHANGED vars BY <2>1 DEF EndsWithProcess, vars
  <2>2. ASSUME NEW w \in Worker, WorkerAction(w) PROVE EndsWithProcess' BY <2>2, WorkerEnds
  <2>3. CASE ~ (\E w \in Worker : WorkerAction(w)) /\ ~StopStrikes
    BY <2>3, OtherSteps, OtherEnds
  <2> QED BY <2>1, <2>2, <2>3
<1>3. EndsWithProcess => WorkerDiesOnlyAtShutdown BY DEF EndsWithProcess, WorkerDiesOnlyAtShutdown
<1> QED BY <1>1, <1>2, <1>3, StaysConsistent, PTL DEF Spec
=============================================================================
