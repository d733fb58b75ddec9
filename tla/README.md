# GetMyStuff: a verification development

GetMyStuff is one Litestar process (or several replicas of it) over one
PostgreSQL database. Everything that runs without a person watching runs as an
asyncio task inside that process: the export worker, the expiry reapers, the
integration run workers, the integration scheduler and the email workers
(`main.py`, `on_startup`, `on_shutdown`). The tasks of all replicas meet only in
the database, through row locks (`FOR UPDATE SKIP LOCKED`), status columns and
unique indexes. That meeting is what these modules describe.

## 1. The system

| component | state it keeps | operations | what makes it correct |
|---|---|---|---|
| Integration run queue (`engine/queue.py`, `run_service.py`, `run_store.py`, `db/integrations/queries.py`) | `integration_runs`, `integration_run_jobs`; per process `_RUNNING`, `_cancel_cache`, worker tasks | enqueue, claim, heartbeat, execute, settle, close, reap, stop, shutdown, restart | a run is executed at most once, by one worker; run and job rows agree; a Stop is honoured; every run ends |
| Integration scheduler (`engine/scheduler.py`, `flow_service.py`) | `integration_triggers`, the open session of a tick | claim due triggers, advance, fire or skip, cancel previous, commit; edits of triggers and workflows | one row per slot; no slot lost; overlap policy kept; nothing caught up |
| Write safety (`engine/retry.py`, `engine/idempotency.py`, `runtime/sender.py`, `nodes/connector_nodes.py`, `mapping/dedupe.py`) | `integration_sync_keys`, the batch in memory | plan, send, retry, remember keys, give up, run again | a second copy at the vendor only where an answer was lost; a remembered key stands for a record that exists; every record is counted |
| Connector runtime (`runtime/*`, `engine/batching.py`) | one bucket per key and process, the page walk, the batches carried over | acquire, refill, correct, next page, next batch | never more requests than burst and rate allow; every record once and in order; a finished walk has read all |
| Credentials (`credentials/token_service.py`) | `integration_credentials` with its refresh lease | read, claim, exchange, store, release, wait | one exchange at a time; the row ends with the token that works |
| Flow engine (`flow_compiler.py`, `flow_rules.py`, `flow_state.py`, `node_runners.py`, `batching.py`, `record_buffer.py`) | LangGraph state, in-process record buffer | compile, run node, route, batch, release | routing and log agree; buffers are released on every path |
| Workflow lifecycle (`flow_service.py`) | `integration_flows`, `integration_flow_versions` | save, publish, unpublish, delete, replay | one published version; a run keeps its version |
| Email dispatch (`services/email_dispatch/queue.py`, `dispatch_service.py`, `retry.py`) | `email_messages`, per-server in-flight rows | enqueue, claim, send, retry, reap | no copy sent that nobody asked for; tries bounded; every message ends; one connection per SMTP server |
| Event bus and email triggers (`utils/events.py`, `email_dispatch/triggers.py`) | subscriber table | publish, subscribe | a subscriber never changes the publisher's outcome |
| Export downloads (`downloader_agents/base/*`, `csv/csv_writer.py`) | `download_jobs`, `download_exports`, checkpoints, part files, artifacts | offer, confirm, claim, write part, retry, merge, publish, requeue stale, clean up, expire | a file that is offered holds every batch once; job and export agree; every job ends |
| File delivery (`file_delivery/*`) | generated files and their rows | write, download, expire | no row without file that is offered |
| Graph designer runs (`graph_designer/graph_run_service.py`, `run_store.py`, `timers.py`) | `tool_graph_runs`, checkpoints | start, park, resume, time out, stop | one answer per question; a timer and an answer never both resume |
| Chatbot flow engine (`flow_builder/engine_service.py`, `subflow_service.py`, `flow_service.py`) | `chatbot_flow_sessions`: status, block, call stack, variables, open question; the turn's copy of the row | read, restart, deliver a reply, one block per hop, call, return, fail, save; save and delete a flow | position and stack are of one place; a flow sees its own variables only; no flow runs twice; a completed conversation is outside every call |
| Tool chains (`tool_configs/tool_chain_*`) | per-call results | order, run, combine | dependencies before dependants |
| Recursive aggregation (`agent_recursive_dataframes/*`) | partial aggregates | combine, finish | partial results combine to the whole |
| Prompting, analytics, SQL text, editing and CRUD, routes, templates, browser code | rows edited by one request | - | input validation and presentation |

How they interact. A manual run, a replay or the scheduler inserts a run and its
job in one transaction; a worker of any process claims the job and drives the
run; the flow engine calls connectors through write safety, rate limits and
credentials; the outcome is written to the run, announced on the event bus, and
the job is closed. The reaper of any worker may end what another process began.
Stop marks the row in one process and cancels the task only where it runs.

The hard behaviours: two claims or two ticks whose transactions overlap; a
commit in the middle of what the caller thinks is one transaction; a task
cancelled at any await; a process that stops between two commits; a database
call that fails inside the code that records a failure; a heartbeat that goes
quiet while its worker lives; a cached flag; an edit computed from a row that a
tick has changed since. `PROJECT.json` lists each at its line.

## 2. The modules

| module | what it is |
|---|---|
| `RunLedger` | abstract specification: each run is absent, waiting, taken by one process, over; never taken twice |
| `RunQueue` | the two tables and every task that writes them |
| `RunQueueProofs` | one executor per run and the refinement of `RunLedger`, proved under every fault; rows that agree, the reaper and Stop, proved but for three raising calls |
| `MCRunQueue` | small instances |
| `Timetable` | abstract specification: a slot is entered once, one slot of a schedule at a time, as a run only where the policy has room |
| `Scheduler` | triggers, ticks, the transaction a tick builds, and the edits that race it |
| `SchedulerProofs` | types, one firing per slot, the overlap policies, the refinement of `Timetable`, no slot lost, rows an interval apart, proved |
| `MCScheduler` | small instances |
| `Mailbox` | abstract specification: what is owed, what relays have accepted, what the log says |
| `EmailQueue` | the message table, its workers and reaper, the SMTP answer, Retry and Cancel |
| `EmailQueueProofs` | the copies that go out, the tries, who is on a message and the refinement of `Mailbox`, proved |
| `MCEmailQueue` | small instances |
| `ExportQueue` | an export from its offer to its expiry: requests, job queue, graph with checkpoints, disk, reaper |
| `ExportQueueProofs` | types, one builder per export, nothing left behind by a success, the file a link leads to, job and export, proved but for steps that are named |
| `PagedRead` | the page walk and the supply that cuts batches out of pages |
| `RecordWrite` | one batch of writes: plan, groups, retries, lost answers, sync keys |
| `SyncRun` | composes the two: runs of a flow that reads from one vendor and writes to another |
| `SyncRunProofs` | types, order, completeness and accounting; copies and keys, proved |
| `TokenRefresh` | the lease around the renewal of one token |
| `RateLimit` | the bucket of one key |
| `VendorCallProofs` | the lease, the token in the row and the ways to a refused grant; the bound on every stretch of time, proved |
| `ChatFlow` | a visitor's turns through a drawn flow and the flows it calls, while operators edit them |
| `ChatFlowProofs` | types, one place, scopes apart, proved for one message at a time |
| `MCChatFlow` | three flows that call each other, saved twice |
| `MCServices` | one instance of each of the five parts above, side by side |
| `ServicesProofs` | each part does beside the others what it does alone, so the theorems of the parts hold of all of them; proved |

### RunQueue

`run`, `cancelReq` are columns of `integration_runs`; `job`, `attempts`,
`claimedBy` of `integration_run_jobs`; `quiet[r]` says that `heartbeat_at` is
older than `STALE_AFTER_SECONDS`. A worker task is a program counter `pc`, the
run it `holds`, the super-steps its graph has `left`, what its flow state has
accumulated (`acc`: some record was lost, a node failed, the run was stopped),
its entry in `_cancel_cache` (`seen`), whether its heartbeat task is writing
(`beat`), and the stale jobs its reaper has selected and not yet written
(`doomed`). A process is up, stopping or down; `stopping` holds Stop requests
that have committed `cancel_requested` and not yet cancelled the task.

| `pc` | in the code |
|---|---|
| idle, reaping, looking, claim | `drain_once`: before the reaper, between its SELECT and its COMMIT, before the claim, between the claim's SELECT and its COMMIT |
| claimed | `_execute` before `execute_run` |
| planning, driving, settling, announcing | `_plan_for`, `ainvoke`, `_settle`, `_announce_settled` |
| failing, unwinding | `_fail_by_id`, `_settle_cancelled` |
| closing | `_finish` |
| dead, down | the task has ended, its process has ended |

One action is the code between two awaits at which another task or process can
come between. A transaction that reads and then writes is two actions
(`ReapSelect`/`ReapWrite`, `ClaimSelect`/`ClaimCommit`), so overlapping
transactions are in the model; `SKIP LOCKED` is `LockedRow`. Cancellation is
`Interrupt`: depending on where the task is, `CancelledError` reaches
`_settle_cancelled` or ends the task at once. Failing calls are actions of their
own (`DrainFaults`, `RunFaults`, `FailFaults`, `CloseFaults`, `FlagFaults`,
`BeatFaults`), each doing what the `except` clause that catches it does.

Abstracted: a graph is a number of super-steps, each clean, lossy or failing
(the routing inside belongs to the flow engine); `available_at` is always
passed, because nothing in this repository sets it later; the claim of a run
whose workflow was deleted is the same early return as one whose version is gone
(`Refuse`). Left out: the step log, counters and progress stream, which read or
write rows no property mentions.

### Scheduler

`enabled`, `next`, `last` are `is_enabled`, `next_run_at` and `last_fired_at`;
`lock` is the session that holds the row; `status`, `slotOf` and `asked` are
`integration_runs` indexed by the key the unique index sees, so a second insert
of a key is refused. A tick is `pc`, the `moment` it
started, the triggers it still has `todo` with the slots it read for them
(`expire_on_commit=False`, so a commit does not refresh them), the trigger it is
firing (`cur`), and what its session has written and not committed (`clocks`,
`inserts`). `CommitSession` and `CommitRows` make all of it visible and release
every lock of the session; they are used at the end of a tick and, in `CancelPrevious`, in the middle
of it, because `request_stop` ends in `CRUDQueryBuilder.update`, which commits.
`Rollback` is what an exception or the end of the process does. `switch` holds
requests between what they read and what they commit, and so does `edit`: an
edit of a trigger reads the row without a lock (`EditReads`), computes the next
slot from it (`EditComputes`) and commits the columns that differ from what it
read (`EditWrites`), waiting for the row while a tick holds it and then served
before later ticks (`Free`). `EditSpan` bounds the time from the read to the
UPDATE. An edit that commits after a tick fired the trigger it had read writes a
slot counted from the firing before, so two rows can be closer than an interval;
`raced` is history and holds the triggers this has happened to.

`Plan` reads `Timetable` off this state: the fate of a slot is the status of the row
with its key. Where the code counts the runs in flight in `_fire` and commits the new
one at the end of the tick, with other ticks, Stops and the queue in between,
`Timetable` does both in one step (`Enter`).

Time is in units that make the intervals 1 or 2; the model keeps the arithmetic
of `next_slot_after`. A workflow has one trigger. Changing a trigger's interval
or policy, and deleting triggers, are left out.

### EmailQueue

`status`, `attempt`, `due` (`next_attempt_at` has passed), `server` and
`heartbeat` are columns of `email_messages`; `config` is `email_smtp_configs`. A
worker is a program counter `pc`, the message it `holds`, the attempt number it
has `seen`, the `verdict` it is about to write, whether its heartbeat task is
`beating`, and the rows its reaper has selected (`stale`). `asks`, `about` and
`named` are a request to the delivery log between its read and its commit.

| `pc` | in the code |
|---|---|
| idle, reap, claim, locked | `drain_once`: before the reaper, between its SELECT and COMMIT, before the claim, between the claim's SELECT and COMMIT |
| read, send | `_attempt_send` before it reads the message again, before the relay has accepted |
| taken | the relay has accepted and its answer is on the way |
| close | before `finish_email` or `requeue_email` |
| down | the process or the task has ended |

The writers of a message never look at the row they write: `finish_email`,
`requeue_email` and the heartbeat are UPDATEs by id, the reaper writes what it
selected, and Retry and Cancel read without a lock. Each of these is therefore a
read and a later write, and only a claim's row lock makes a writer wait
(`Locked`). SQLAlchemy leaves a column out of an UPDATE when its value does not
change, which matters for a Retry that finds `attempt` already 0 (`named`).

`owed` and `retried` are history: `owed[m]` is the number of copies somebody
asked for (the enqueue, each Retry, and each answer lost to a timeout, which
`send_message` says it resends knowingly) less those a relay has accepted.

`Mail` reads `Mailbox` off this state: queued and sending are an open message, and
a worker has a copy in `hand` from the relay's acceptance to the record of it.
`Mailbox` has no workers' stages and no locks. It says that a copy goes out only
when one is owed, that "sent" is written only of a copy in hand, and that what was
over is opened again by an asking or by a sender that is still owed a copy.

Left out: the order of the claim, the attempt log, idempotency keys, rendering,
triggers (so `DeleteServer` never meets the refusal to delete a server a trigger
sends through), and a relay that takes some recipients and refuses others.

### ExportQueue

`exports` and `jobs` are the two tables, `saved` the checkpoints of LangGraph,
`parts` and `files` the disk, `stale` the jobs a worker has read as stale and not
written yet. `asker` is the request that confirms. A worker is
what it is doing (`at`), the export it builds (`on`), the graph state it holds
(`mem`), the attempt at the batch, the name the merge settled on (`dest`), and
the open cursor it keeps (`cursor`). A part holds the number of the batch whose
rows are in it, or `Torn`; an artifact holds the export whose parts it is made
of, or `Fragment`.

| `at` | in the code |
|---|---|
| idle, claimed | `drain_once` before and after `claim_next_job` has committed |
| node | `_run_job`: the graph is at the node `mem.node` |
| writing | `_attempt_batch` has rows and has not closed the part |
| named, merging | `_merge_parts` after `available_artifact_name`, while the artifact is open |
| close | before `_finish`, after a graph that came to its end |
| raised, mark | `_run_job` has caught an exception with a text; `_finish` before its first and its second commit |
| hushed | `_run_job` has caught an exception without a text |
| down | the process has ended |

A node's effect and its checkpoint are two steps (`SaveCheckpoint`), so a worker
that dies in between makes the next one repeat the node. `requeue_stale_jobs` selects
without a lock, reads each export and writes both rows by id in one commit: the
SELECT and the commit are two steps (`RequeueSelect`, `RequeueWrite`), and another
worker can requeue and claim the same job in between. `_finish` decides by the
text it is given, which for a graph that raised is `str(exc)`: with a text it closes
the job as failed and then marks the export (`FinishRaised`, `MarkFailed`); an
exception without one (`FinishHushed`) passes for no failure, so the job is closed
as succeeded and the export stays as it is. `Merged` says what the CSV writer
makes of the parts it is given: the file appears when it is opened, parts are
appended in order, a missing one raises and leaves the fragment. Between two
attempts at a batch `run_batch_with_retries` keeps the open cursor, which may by
then have given the batch's rows already: `BatchReader.read` compares where the
cursor is with the batch it is asked for, and where they differ closes it, opens
the query again and skips forward (`_reopen_at`; `ReadsAt`). A raising read is a
failed attempt like any other, or the end of the tries when it is a
`ToolQueryError` (`QueryRefused`).

`history` is no state of the program: how often something died or raised,
which exports lost their worker between the two halves of their outcome
(`severed`), and which were closed by an exception without a text (`hushed`).

What is assumed: the heartbeat of a worker that lives does not lapse
(`JobLapses`), the time to live, 30 minutes at least, outlasts the stale
threshold (`TimeIsUp`), one request confirms an export, the result set does not
change while it is read, and one reaper sweeps. Left out: declining, deleting a
session's files, several workers in the checked instance, chained sources,
checksums and the progress page.

### PagedRead, RecordWrite, SyncRun

`walk` is `PageWalk`; a page's marker is a page number, an offset or a token,
which the vendor chooses. `first` is the marker of the vendor's first page and
`start` the one the walk begins with. A rule in a connector's code is taken as
declared, a row's goes through `load_page_rule`, whose `or 1` makes 1 of a start of
nought and of none at all (`StoredStart`): a walk over a vendor who counts from
nought then begins one record, or one page, late, and `Skipped` is what it passes
over. The vendor's records are numbered and do not change
during a walk; it may put fewer on a page than was asked for, hand out a token
for an empty last page, or repeat a token. `carry` and `handed` are what
`PagedSupply` has fetched and given out.

`plan`, `send` and `attempt` describe the batch that is being written, `wrote`
its keys that are not committed, `known` `integration_sync_keys`, `copies` and
`applied` what the vendor holds, `lost` how often it created something that the
code does not remember, and `tally` the counters of the run. A request that the
vendor carries out and one that it does not are different steps from the answer
the code gets: `Accepted`, `AcceptedWithoutId`, `NotReached`, `Unclear` and
`Unreadable` are the branches of `_send_one` and of `classifier_for`. `operation`
is what the operation declares about being repeated: nothing, that it is
idempotent, or the name of an idempotency header. `write_may_be_retried` takes
either of the last two for leave to send an unclear request again (`MayRetry`), but
the connector node builds its request without `extra_headers`, so a named header is
in no request: a vendor knows the repetition of an idempotent request, and creates
again at that of a merely named header (`Apply`).
`GiveUpBatch` is a death or a node's timeout anywhere in the batch: what the
vendor did stays, what was not committed goes.

`SyncRun` is the loop of a flow: the trigger node, `connector_read`, then batch
and write nodes until the supply is exhausted or `max_batches` is reached; a
Cancel is seen before each node and between two groups of requests; a second run
starts with the keys of the first. Left out: records without a natural key, dry
runs, chunks of several records in one request (a group stands for
parallelism times chunk size), deletes, and two workflows that share an
operation.

### TokenRefresh

Tokens are numbered in the order the provider issued them; a provider that
`rotates` accepts the last only. `credential` is the row: the refresh token, the
token its expiry belongs to, the lease and whether the lease still lives.
`object` is what a caller read (`expire_on_commit=False`, so it stays as it was
until `db.refresh`). A caller is idle, has read, waits, is at the exchange, has an answer,
or is about to release. A failure of the exchange, an answer without an expiry
or one that cannot be used, a refusal (`invalid_grant`), a death at any step and
a lease whose time to live passes while its holder is at work are each an
action. Tokens come due in the order of issue. The text of the access token is
not modelled, nor is the connection's status when a caller starts, because
`ensure_fresh_token` does not look at it. Nothing in `src/` but its tests calls
this service yet; the model is of its own contract.

### RateLimit

A tick refills one unit and a request costs `TokenUnits`, so fractions of a token
are whole numbers. `acquire` is `Acquires` when there is a token, else `Sleeps`
and `Wakes`: the sleeper holds the key's lock (`LockOpen`), `observe` takes no
lock, so `Corrects` may lower the bucket during the sleep. `GivesUp` is a task
cancelled while it sleeps. The bucket is per process, as the module's docstring
says. The daily counter is left out because no caller supplies one.

### ChatFlow

`session` is the row of `chatbot_flow_sessions`, `current` the save each flow is
at, `outdated` the comparison `_flow_edited_since_last_turn` makes together with
the twelve hours. A request has the row as it read it (`loaded`), its copy with
what it has changed (`working`), the drawing of each flow it has looked at
(`view`: a flow is read once and kept in the session's identity map), the reply
it carries, and its hops.

| `turn` | in the code |
|---|---|
| reply | `advance_flow_session` has read and perhaps restarted the row: `_deliver_reply_to_waiting_node`, `_answer_waiting_graph`, `_continue_dead_end_ai_fallback` |
| hop | the loop of `_hop_until_the_turn_ends`, before a block |
| filed | `_step_create_file` after `file_crud.create` has committed the session of the turn |
| raised | an exception nobody catches, before the log's commit writes what is there |
| saving | before `_persist_session` |

A block is one action, `Unwind` is the branch of the loop that turns the end of a
callee's path into a return, `FailedStep` is `_failed_step` and `_fail_call`,
`Push` and `Pop` are those of `subflow_service.py`. What an action leaves is a
value (`GoOn`, `Say`, `EndOfFlow`), so the error paths compose as the
functions do. A commit writes the columns the turn has changed against its own
reading (`Committed`), because that is what SQLAlchemy does.

A scope is the set of names that have a value; `told` is history, the names each
running flow may know of, kept independently of the stack. The answers of models,
mails and graphs are nondeterministic; a condition goes either way. What an
operator may save is `ChatAssumption`, read from `_validate_graph`.

Left out: two requests of one visitor at a time (each would write its own
columns, and TLC violates `RowIsOnePlace` within 14 steps of an instance with two
turns), the creation of the row, detaching and unpublishing the chatbot's own
flow, plain AI answers, knowledge bases, wording.

## 3. What the runs check

| run | what is checked | instance |
|---|---|---|
| `queue_life_of_a_run` | `TypeOK`; `NoOrphanRun` an open run has an open job; `JobMatchesRun` a closed job agrees with its run; `ReaperSparesLiving` the reaper never selects a job whose worker still answers for it; `StopBeforeStart` a run stopped while queued does no work; `NeverTurnsGreen` a failed or cancelled run is never rewritten as good or reopened; `EveryRunSettles` every queued run ends | 2 processes with a worker each, 2 runs of 2 workflows, one watched, 1 Stop, 1 crash or shutdown, fair |
| `queue_under_faults` | `SoleExecutor` no run is answered for by two workers; `NeverRestarted` no job is claimed twice; `Consistent` the inductive invariant of the proofs; `KeepsTheLedger` refinement of `RunLedger`; `EveryJobCloses` a claimed job is closed in the end | 2 workers of one process, 2 runs, 1 crash, 2 failing database calls, fair |
| `queue_overlapping_claims` | finding: `FlowSerialised` | 2 workers, 2 runs of one workflow |
| `queue_stop_kills_worker` | finding: `WorkerDiesOnlyAtShutdown` | 1 Stop |
| `scheduler_two_processes` | `TypeOK`; `SlotOnce` one row per slot; `FiredOnce` a slot that has its row is never fired again; `PolicyKept` skip has at most one scheduled run in flight, and under cancel_previous at most one per process goes on unasked; `DueSlotPasses` a due slot is dealt with | 2 schedulers, a cancel_previous trigger beside a skip trigger, interval 1, 1 failing call, no crash, workflows live or taken down, fair |
| `scheduler_queue_policy` | `SlotAccounted` a slot the clock passed has its row; `OneRunPerInterval` rows are an interval apart where no edit was late; `KeepsTheTimetable` refinement of `Timetable`: the limit holds at the commit, one slot of a schedule at a time | 2 schedulers, interval 2, limit 2, a clock of 6, two edits (of the trigger, or a publish, unpublish or switch of the workflow, live or taken down at first), a manual run, a crash |
| `scheduler_between` | finding: `SlotAccounted` under cancel_previous | 1 scheduler, 1 crash |
| `scheduler_stuck` | finding: `DueSlotPasses` with requests that race a tick | 1 scheduler, 2 editors, 3 edits, fair |
| `email_life_of_a_message` | `NoUnaskedCopy` no copy nobody asked for; `SoleSender` two workers on one message only after Retry; `TriesBounded` `max_attempts` holds without Retry; `KeepsTheMailbox` refinement of `Mailbox`; `EveryMessageSettles`; `TypeOK` | 2 workers, 2 messages, 1 server, 2 attempts, 1 request (Retry, Cancel, switch or delete), 1 crash or failing call, fair |
| `email_cancel_races_claim` | finding: `CancelIsTrue` | 2 workers, 2 messages, 1 request, no fault |
| `services_side_by_side`, part export | `ServedFileIsWhole` a link that works leads to every batch of its own result set, once and in order; `ExportFollowsJob` the rows of a job no worker is on and of its export tell one story, through deaths, requeues and raising calls, but for the exports of `severed` and `hushed`; `EveryExportJobEnds` | 1 worker, 2 exports of one name with 1 spare name, 2 batches, 2 attempts, 1 death, 1 failing call, fair |
| part sync | `ReadsInOrder` from where the walk begins the loop gets the records in order, once each; `CompleteIsAll` a walk that ended by itself has read all from there; `NoUnexplainedCopy` a creation leaves one copy, or one per attempt where a header is only named, and more only where an answer was lost; `KnownExists`; `RecordsAccounted` the counters add up | 5 records of 3 keys, pages of 2, batches of 3, groups of 2, 2 attempts, 2 mishaps, 2 runs, every kind of page rule, vendors who count from nought with rules of code and of rows, operations plain, idempotent and with a named header |
| part token | `OneExchange` two exchange at once only if a lease ran out; `StoredTokenWorks` a rotating provider's live token is in the row unless its answer was lost or is on its way | 2 callers, 2 renewals, 2 hitches, rotating or not |
| part rate | `WithinAllowance` no stretch of time has more requests than the burst and the rate | 2 tasks, burst 2, a request each 3 ticks, 7 ticks |
| part chat | `RowIsOnePlace` the visitor stands on a block of the flow on top of the stack, every frame leads back into the flow below it, no flow is entered twice, the depth limit holds; `ScopesApart` a flow knows what it collected, was given or got back | 3 flows, one of them calling in a circle, 2 saves of each, depth 3, 8 hops, 4 messages, 2 edits, 1 process that dies |
| `chat_completed_inside_call` | finding: `CompletedIsOutside` | the same instance |

Bounds. Two workers are enough for every race of this code, because each race is
between one task and one other writer of the same row; two runs are what
serialisation, ordering and the reaper's batch need. One crash already reaches
every place a process can stop, and the restarted process is an ordinary one.
One or two failing calls reach every `except` clause, and the second one the
failure of the code that records a failure. Two slots per trigger and one late
tick reach missed slots. With intervals of 2 a clock of 6 is what it takes for an
edit read before one tick and written after it to bring back a slot of the old
anchor, and for that slot's row to be fired: with a clock of 5 `OneRunPerInterval`
held without `raced`, and it was its proof that did not go through. The
scheduler runs split crash and failing call between them, as each ends a tick in
the same `Abandon`. Deadlock is not checked because a finished instance stops: all runs
have ended and the bounds are spent.

The five parts of `services_side_by_side` share no variable. The first state
chooses which one moves, so the run has the sum of their states and not the
product; a part that does not move stays in an initial state. In the export
part two exports want one name, so the numbered variant is taken, and a third
name does not exist, so names run out; one death and one failing call reach a
resume from each checkpoint and each `except` clause. In the sync part pages of
2 and batches of 3 never line up, the first record's key comes back in the same
batch's successor and twice in the last batch, and two mishaps are a lost answer
and a death, or a death in each run. Pages and offsets are counted from nought,
by a rule that says so and by one that was loaded as 1; a vendor who counts from one
is the first of these shifted. The rate part's 7 ticks see the burst, a
sleep, a correction during it and the refill after it. In the chat part the flows
call each other in a circle, so that what ends a chain of calls is the refusal to
enter a flow twice; the limit of 3 (the code's 5) is not reached by three flows and
is covered by the proof, which holds for any limit; 8 hops (the code's 25) are enough to
go two calls deep and back and for a circle of gotos to hit the limit; 4 messages
and 2 edits let a flow be deleted at each depth and saved again on either side of
a message, and the one loss is a process that dies in a turn, before or after a
file committed half of it.

Fairness. A worker task that is not dead takes its next step: the event loop
runs every ready task, and every await in these modules has a timeout or is a
database call. Time passes (`Lapse`). A Stop handler that has committed goes on
to `task.cancel()`. A process that is down comes back: `docker-compose.yml` says
`restart: unless-stopped`. Nothing is assumed of users, crashes, failing calls
or of the cache expiring. The scheduler's fairness is that of its loop.
A request that has read its trigger goes on to its commit. An email worker's
fairness is its loop's too: an SMTP conversation ends in an answer or a timeout
(`timeout_seconds`), a backoff runs out (`ComesDue`), and nothing is assumed of
the relay's answer, of the heartbeat or of requests. `ExportFair` assumes that a
worker takes its next step, that the saver writes, that a process comes back
(restart policy) and that the heartbeat of a dead worker grows old; nothing is
assumed of requests, so liveness starts at a queued job. In `MCServices` the same
actions are fair for the part that moves. Nothing is assumed of a turn: no
property of the chat part is a liveness property, because the hop limit already
ends every turn that takes its steps.

### Findings

* Two claims whose transactions overlap start two runs of one workflow: the
  `NOT EXISTS` of `claim_next_run_job` is evaluated on a snapshot, and the row
  lock it takes is on the job it picked, not on the workflow.
* A Stop handled by the process that drives the run cancels the queue worker's
  own task. The worker does not come back before a restart, the job stays
  `running` until the reaper closes it and overwrites the run's `cancelled` with
  `failed`; with as many Stops as workers no run is claimed any more.
* `cancel_previous` commits the scheduler's transaction in the middle of a tick.
  A crash there loses the slot, and the locks of the other triggers of the batch
  are released early (`SlotOnce` still holds, thanks to the unique index).
* A trigger switched off is switched on by two requests at once, and the second
  commits after a tick fired the slot both computed. The slot is due again, the
  unique index refuses its row, and the failed flush takes with it the `_advance`
  of the except clause: this and every later tick is rolled back, with all the
  other triggers of its batch, until somebody edits the trigger.
* A Cancel reads a queued message, a claim commits, and the Cancel writes over
  it. `_attempt_send` reads the message again and does not look at its status, so
  the log says "Cancelled before it was sent." of an email a relay accepts.

* With two calls open, a flow that is deleted, or a failing block without an error
  port whose caller has none either, ends the conversation inside the first call:
  `_fail_call` goes back one level, the caller has no error edge, and the loop
  returns its answer past the branch that would close the outer call. The row is
  `completed` with a frame on its stack, which `_continue_dead_end_ai_fallback`
  says only the hop limit can bring about.

Clocks set back, seen while proving. A `cancel_previous` trigger lets go of the other
rows of its batch. Two ticks of another process can pass over such a row, the first
while its workflow is switched off and so without a run, the second firing it; the
first tick then takes the row again and `_advance` counts from its own, older
moment, so `last_fired_at` goes back and the next slot is less than an interval
from the row just written. TLC reaches it with two processes, intervals of 2, a
clock of 5, one manual run and two edits, in a search led along that path: the
breadth-first search of such an instance is too large for a run.

Seen while modelling: a worker or a reaper that is late moves a message out of a
terminal status, which `models.py` leaves to Retry alone; a reaper that selected
a message just before its worker recorded `sent` makes it `failed`; two email
claims can overlap as two run claims can, and open two connections to one
server; the texts that say an email was not delivered can be wrong after an
earlier attempt timed out.

Exports, seen while modelling. The docs of `requeue_stale_jobs` say a requeued job
starts again from the confirmation; it goes on from the last checkpoint. A death
after the artifact was published leaves the export `building` while its next job
succeeds, and a death between `mark_queued` and the job's insert leaves it
`queued` with no job, although `enqueue_export` says both are one transaction. An exception whose text
is empty (`TimeoutError()`, `MemoryError()`) closes its job as succeeded beside an
export that stays `building`, its part files with it, because `_finish` asks `if
failure` of `str(exc)` (`job_queue.py:270`, `314`, `319`); nothing ever picks that
export up again. What was told by halves and what was closed without a text are
the two kinds of export `ExportFollowsJob` leaves out. With two workers a requeue can
write over a job that another worker has requeued and claimed since the SELECT
(`queries.py:126`-`152`): the running job is queued again and built twice, and
`RequeuesTaken` in the proofs is that step. With two worker processes
`available_artifact_name` and the opening of the file can interleave, so two
exports write one file: TLC violates `ServedFileIsWhole` with a second worker. A
reaper that dies between deleting and marking deletes by name again later
(`ReaperMayDie`), by then possibly another export's file. A merge that fails
leaves its fragment on the disk, though `_cleanup` says it goes, and a graph that
raises skips the cleanup; the reaper visits `ready` rows only. A living worker
requeued by mistake means two runs on one thread, and two answers "yes" at once
make two jobs; neither is in the instance.

Writes, seen while modelling. `idempotency.py` says that the natural key keeps the
next run from repeating a creation that timed out; a lost answer leaves no
sync key, so the next run does repeat it (this is `lost` in the model). A death or
a timeout in a batch loses the keys of every record of it. `spec.py:352` lets an
operation be retried that names "an `idempotency_header` the destination honours",
and `connection_schemas.py:221` offers the field; no request carries the header,
so a creation whose answer was a timeout is sent again bare and can exist once
per attempt. `spec.py:298` says "0 for an offset", which a stored rule cannot say:
`load_page_rule` (`spec.py:1058`) makes 1 of it, and what then happens is what
`brevo/connector.py:164` calls "the shape of paging bug that never gets noticed".
A walk that stopped at
a repeated marker is described as complete; the marker of the first page is not
among those compared.

Tokens, seen while modelling. A caller that read the row before another renewal
ended finds the lease free, exchanges the rotated token, is refused and marks
the connection `needs_reauth` although the row holds a good token; an exchange
slower than the lease lets a second one begin; a death between the exchange
and the commit loses the rotated token; callers wait the full 30 seconds behind
one that died or failed. A vendor's correction that arrives during a sleep is
not looked at again before that request goes out.

Chat, seen while modelling. A failure inside a callee that reaches a caller's Run
Flow block without an error edge ends that caller's path, so a call further out
goes on by its default port, although `_failed_step` says "Never the
default/done port at any level". Neither a restart nor `_fail_call` clears
`awaiting_graph_run`, so the next message can be taken for the answer to a
question that is gone. `file_crud.create` commits the turn's session, although
`flow_builder_runner.py:74` says that the turn stays atomic, and after an
exception nobody planned for the log's commit writes a turn that is half done. An
edit of the flow saved during a turn is not noticed by
`_flow_edited_since_last_turn` afterwards, because the turn dates the row later
than the save. `_answer_waiting_graph` stores no result for its block. A Send
Message ends the turn on the block it leads to; when that is a question, the next
message is taken as the answer to a question that was never shown. The bail-out says "Let's start over"
and completes the conversation.

Known and not covered by a property, beside those under `hazards`: a steady supply
of manual runs starves a scheduled one (`queries.py:589`); `_announce_settled`
reads `run.user_id`, a column the row does not have, and the error is swallowed
(`run_service.py:445`); `delete_flow` looks for live runs among 200 unordered
rows and then deletes (`flow_service.py:363`); a manual run started between the
overlap check and the commit (`scheduler.py:273`), a late tick's phase
(`scheduler.py:313`), a tick slower than its interval (`scheduler.py:225`); two
overlapping email claims (`email_dispatch/queries.py:90`).

Seen while modelling and noted under `hazards`: a failure that cannot be
recorded leaves the run `running` for ever; one failed heartbeat write lets the
reaper fail a living run; a process that stops between `mark_finished` and
`finish_run_job` has its recorded outcome overwritten; a late tick moves the
phase of its schedule; two ticks slower than an interval can hide a run from
`cancel_previous`.

## 4. What is proved

`RunQueueProofs`, for any number of runs, workers, processes, super-steps, Stops,
deaths and faults, from `QueueAssumption` alone; first what needs no more:

* `TypeCorrect`: `Spec => []TypeOK`
* `StaysConsistent`: `Spec => []Consistent`
* `ExecutedByOne`: `Spec => []SoleExecutor`
* `ClaimedAtMostOnce`: `Spec => []NeverRestarted`
* `ImplementsLedger`: `Spec => Ledger!Spec`

`SoleExecutor` alone is not inductive: a claim that commits makes its worker
answer for the run, so one must know that nobody else answered for it already.
`Consistent` says why: a row between SELECT and COMMIT is still queued and
selected by one worker; a run that is answered for, or that a reaper has
selected, is not queued any more; and `attempts` is 0 before and 1 after the
claim. The claim is the only step that makes a new holder (`ClaimStep`); every
other step of a worker creates no holder and only closes what was taken
(`WriteStep`). The refinement maps the job's status to the ledger's phase:
claims map to `Take`, the reaper and `_finish` to `Finish`, all else stutters.

Then what a raising call can spoil. `Unrecorded` is a step in which `_fail_by_id`
cannot write a failure or `_beat` cannot write the heartbeat, `StopUnread` one in
which `cancel_requested` cannot read its flag; every other fault, crash, shutdown
and restart is allowed:

* `StaysUndisturbed`: `Spec /\ [][~Unrecorded]_vars => []Undisturbed`
* under the same hypothesis `ReaperSpares`: `[]ReaperSparesLiving`;
  `NoRunOrphaned`: `[]NoOrphanRun`; `BadgeMatchesRun`: `[]JobMatchesRun`;
  `NeverGreenAgain`: `NeverTurnsGreen`, a property of steps
* `StoppedBeforeStart`:
  `Spec /\ [][~Unrecorded /\ ~StopUnread]_vars => []StopBeforeStart`

* `SoundWhileNothingRaises`: for `MaxFaults = 0`, `Spec` alone implies all five

The run of these properties has no failing call (`MaxFaults = 0`), which is one way to
meet the hypotheses, and `SoundWhileNothingRaises` is its statement for any number of
everything else; the theorems before it say which calls are the ones that matter. `Undisturbed` ties four writers together: a worker that
answers for a run has a fresh heartbeat and a running job (`HeartbeatKept`), so
that what a reaper has selected is nobody's (`DoomedAbandoned`) and its late write
closes a job no worker will close again; the job's status bounds the run's
(`RowsAgree`), and the place a worker is at bounds the status it will overwrite
(`StagesAgree`), which is what makes the unconditional `mark_finished` harmless.
For a Stop, `StopHeld` says that the mark stays on the row, that no cache entry
survives the end of a graph, and that a worker which drives a stopped run has not
cached a "no".

Two findings of section 3 are each pinned to one step, with every crash, Stop,
reaper and failing call still allowed:

* `SerialisedUnlessClaimsOverlap`: `Spec /\ [][~ClaimsOverlap]_vars => []FlowSerialised`,
  where `ClaimsOverlap` selects a run while a claim of the same workflow is selected
  and not committed. Between the two, `ClaimsApart` says that the open claims are of
  different workflows and none of a running one, which the commit then turns into
  `FlowSerialised`. `SerialisedForOneWorker` has no such step to exclude. A claim that
  locked the workflow, and not only the run, would close the gap.
* `OnlyStopCostsAWorker`: `Spec /\ [][~StopStrikes]_vars => []WorkerDiesOnlyAtShutdown`,
  where `StopStrikes` is the `task.cancel()` of `request_stop` reaching a worker.

`SchedulerProofs`, for any number of processes, triggers and editors, any
interval and policy, from `SchedulerAssumption` alone:

* `TypeCorrect`: `Spec => []TypeOK`; `NextSlotLater`: `next_slot_after` is later
  than the moment it is given
* `OneRowPerSlot`: `Spec => []SlotOnce`
* `NeverFiredAgain`: `Spec => FiredOnce`

These two do not need the row locks of the claim, which `cancel_previous` gives up
too early. Both rest on what an open session has inserted: a slot nobody has a row
for, in the table or in another session (`InsertsFresh`), because the unique
index and the sessions holding the key are looked at in the step that inserts;
and the row of a key is the row of the slot the key names (`KeyNamesSlot`). A
commit then only adds rows (`CommitAdds`).

* `OverlapKept`: `Spec => []OverlapBounded`. From the count of the runs in flight
  to the commit the session holds the row of a skip or queue trigger
  (`HoldsWhatItCounted`): `_advance` takes a row again whose lock was let go before
  the runs are counted, and a commit of `request_stop`, which comes only while a
  cancel_previous trigger is fired, makes the rows inserted so far visible as it
  releases their locks.
  `Room` is the arithmetic: what is in flight, with what an open session adds,
  fits the limit.
* `PolicyNeverBroken`: `Spec => []PolicyKept`, cancel_previous included. One run per
  process can go on unasked, and `Owned` gives each unasked run to the process that
  queued it: an injection into the processes, which is the bound.
* `ImplementsTimetable`: `Spec => Plan!Spec`. A commit is the only step that enters
  slots (`CommitIsEnter`): each was in nobody's table (`InsertsFresh`), a session has
  inserted one slot of a schedule at most (`DealtWithOnce`), and `Room` says that what
  it counted at the firing still leaves room as it commits. The timetable counts
  through its own copy of the cardinality operator (`SameCardinality`), and its
  entries are injected into the rows the scheduler counts (`PlanCounts`). Steps of
  the queue are `Moves`, a run started by hand is no entry, and all else stutters.
* `NoSlotLost`: `Spec /\ [][~TornTick]_vars => []SlotAccounted`, where a `TornTick`
  is a tick that ends (crash or raising call) while it fires a
  cancel_previous trigger or holds a row of one that is not committed. It is the
  step of the counterexample of `scheduler_between`; `ClocksMatched` and
  `RowWithClock` say that every other clock lands with its row.
* `NothingCaughtUp`: `Spec /\ [][~Retakes]_vars => []OneRunPerInterval`, where
  `Retakes` is a tick that takes a row again whose lock `request_stop`'s commit
  had let go. `Spacing` follows one slot from the row it was read from to the row
  it becomes: no time is to come (`TimesPast`), a session fires what is still
  `next_run_at` (`SlotsCurrent`), an edit under way is an interval past what it read
  (`EditsApart`), the slots gone past are an interval apart and before the next one
  (`SlotsApart`), and rows are of slots gone past (`RowsOfPassed`). The
  hypothesis is needed, as the note on clocks set back in section 3 shows.
* `NoSlotLostWithoutCancel`, `NothingCaughtUpWithoutCancel`: with no cancel_previous
  trigger both hold of `Spec` alone. This is the instance `scheduler_queue_policy`
  checks.

`EmailQueueProofs`, for any number of messages, servers, workers, requests and
faults and any `max_attempts` above 0, from `EmailAssumption` alone (its only
other content is that the workers are finitely many):

* `TypeCorrect`: `Spec => []TypeOK`
* `BooksBalance`: `Spec => []Accounted`, the inductive invariant, defined with the proofs
* `OneCopyPerAsking`: `Spec => []NoUnaskedCopy`
* `AloneUntilRetry`: `Spec => []SoleSender`
* `TriesStayBounded`: `Spec => []TriesBounded`
* `ImplementsMailbox`: `Spec => Mail!Spec`, from the same invariant: what `Covered`
  counts is what pays for a delivery and for a message that is put back, and a worker
  that writes "sent" is one whose copy is in hand
* `CancelTrueUnlessLate`: `Spec /\ [][~CancelsLate]_vars => []CancelIsTrue`, where
  `CancelsLate` is a Cancel that commits over a row no longer queued: the step of
  `email_cancel_races_claim`, and the only one that can make the log untrue. Until
  Retry, `Unsent` says what each place of a message and its worker means for the copy

`NoUnaskedCopy` counts, and a count is inductive only against what may still add
to it. `Covered` does that: the queued row (`Waiting`) and the workers that have
yet to send, or will put the message back (`Unspent`), are together at most what
is owed. A step then leaves both as they are, lets one worker more send what it
also adds to the account or takes from the row, or takes one worker away
(`Balances`); `BalancedIsCovered` turns each into the arithmetic of cardinalities
once. A reaper that requeued instead of failing would add a row with nothing to
pay for it, which is why `requeue_stale_emails` fails what it finds. The rest of
`Accounted` says who holds what (`WorkerHeld`, `OtherHeld`): locks are on queued
rows, one each; a queued row that a worker is on has been retried; before a Retry
a worker knows its attempt number, and only an attempt below the bound is queued.

`ExportQueueProofs`, for any number of exports, workers, batches, names, deaths
and failing calls, from the assumptions of the module alone:

* `ExportTypeCorrect`: `ExportSpec => []ExportTypeOK`
* `OneBuilder`: `ExportSpec /\ [][~ RequeuesTaken]_exportVars => []SoleBuilder`,
  where `RequeuesTaken` is the write of a requeue that reaches a job which is stale no
  longer: another worker has requeued it since the SELECT, and may be building it.
  The other thing needed is the heartbeat assumption of `JobLapses`: an export that
  is held does not lapse, so only a job whose worker is gone is selected
* `SuccessIsClean`: `SucceededIsClean` under the same hypothesis; the property
  leaves out a job that has succeeded by an exception without a text

With one worker the hypothesis is always met (`LoneWorkerRequeues`): what it has
selected nobody else writes. With two it need not be, and then one export can have
two builders, one of them still writing parts when the other has closed the job: the
race noted in section 3.

A job succeeds at the end of the graph, and the parts of an
export are written by its builder alone. `BuildInv` therefore says where each
builder and each checkpoint stands (`NodeFits`), that a thread whose state
or checkpoint has passed the cleanup has no part left, and that nobody else builds
it; the cleanup of a resumed graph repeats the deletion.

* `OfferedFileIsWhole`:
  `ExportSpec /\ [][~ Spoils]_exportVars => []ServedFileIsWhole`,
  for any number of workers, where `Spoils` is one of three steps. `RequeuesTaken` is
  the one above: two builders of one export share its parts and its checkpoint. `OpensTaken` opens an artifact under a name that was
  free when `available_artifact_name` looked and is taken now; `TornSweep` ends a
  sweep between the deletion of a file and the mark on its row. These three are all
  that can spoil a file a link leads to.
* `OneWorkerServesWhole`: `ExportSpec => []ServedFileIsWhole` for one worker and a
  reaper that is not killed, because then none of the steps exists. This is the instance
  `services_side_by_side` checks.
* `JobAndExportAgree`: `ExportSpec /\ [][~ RequeuesTaken]_exportVars => []ExportFollowsJob`;
  `OneWorkerJobAndExportAgree` says it of `ExportSpec` alone for one worker

`WholeInv` follows the rows of a batch to the link: the parts before the batch a
thread is at hold their own batches, for the worker and for whoever resumes from
its checkpoint (`PartsInPlace`); a file being written is its writer's alone
(`OpenFiles`); a whole artifact stays as it is from the merge to the sweep, also
through a death between the two, because the name in the checkpoint is taken
(`ArtifactsStay`); and what the reaper selected is finished and lapsed
(`SweptRows`). `FollowInv` speaks of each export that is neither severed nor
hushed: it is at one point of one story (`Story`), which the statuses of its two rows
and the place of its checkpoint tell together. A job that waits, or runs with no
worker, has an export without an outcome and a checkpoint before the node that
writes one (`Undecided`, `Early`), so that the graph that is resumed from it cannot
end without telling the export; the graph of a worker fits the row (`RowFits`). A
death after the outcome is what leaves a checkpoint behind the row, and that export
is severed.

`SyncRunProofs`, for any source, page and batch sizes, page
lengths and tokens, keys, groups, attempts, mishaps and runs:

* `SyncTypeCorrect`: `SyncSpec => []SyncTypeOK`
* `RecordsArriveInOrder`: `SyncSpec => []ReadsInOrder`
* `EndOfWalkIsEnd`: `SyncSpec => []CompleteIsAll`; both are about what comes after
  `Skipped`, whatever the rule and its start
* `WholeUnlessFromNought`: the records come from the first one on, and all of them,
  unless the vendor counts pages or offsets from nought and the walk begins with
  another marker. That is a stored rule, by `load_page_rule`; a rule in a
  connector's code that says `start_at=0` is not affected
* `EveryRecordIsCounted`: `SyncSpec => []RecordsAccounted`
* `CopiesAreExplained`: `SyncSpec => []NoUnexplainedCopy`, with `CopiesPerCreation`
  copies for each creation: 1, or `MaxSendAttempts` where a header is named
* `KeysAreOfRecords`: `SyncSpec => []KnownExists`

`SupplyInv` ties the three places a record can be: what was handed out, followed
by what is carried over, is `walk.seen` records from where the walk began, and the
marker asks for the next one (`Good`, `AdvanceGood`). `CountInv` is about cardinalities: the rows
of the batch are new to the run, and those of each progress add up to the batch. `CopyInv`
covers what one creation of each key comes to by a remembered key or by a record of the batch that
the vendor has made and the code may yet remember (`Orphans`), and the others by
`lost`; two records of one batch that plan a creation have different keys. A step answers one request
(`AnswerStep`), and the batch is remembered or given up as a whole.

`VendorCallProofs`, for any number of callers, renewals and hitches:

* `TokenTypeCorrect`: `TokenSpec => []TokenTypeOK`
* `LeaseIsExclusive`: `TokenSpec => []OneExchange`, because a caller at work holds
  the lease or has overrun it (`LeaseHeld`) and a release is conditional on the claim
* `NewestTokenIsStored`: `TokenSpec => []StoredTokenWorks` (`RowKeepsUp`)
* `RefusedOnlyIfExplained`:
  `TokenSpec => [][\A w : GrantRefused(w) => RefusalExplained(w)]_tokenVars`. A grant
  that is refused puts the connection on hold until its owner comes. It happens after
  a rotated token was lost, while a caller whose lease ran out is still at work, or
  to a caller that read the row before the last renewal was stored; there is no
  fourth way, and TLC reaches each of the three. The third needs nothing to go
  wrong at all

and for any number of tasks, any burst and rate:

* `BucketTypeCorrect`: `RateSpec => []RateTypeOK`
* `AllowanceKept`: `RateSpec => []WithinAllowance`. The invariant says that for
  every earlier request the units spent since, with those still in the bucket, are
  at most a full bucket and the ticks that passed (`HoldsNoMore`), that a
  sleeper wakes when the bucket covers it (`WakesInTime`), and that one sleeps
  (`OneSleeper`).

`ChatFlowProofs`, for any flows `_validate_graph` lets an operator save, any depth,
hop limit, messages, edits and deaths, from `ChatAssumption` and `OneAtATime`
(the visitor's widget waits for an answer before it sends again):

* `ChatTypeCorrect`: `ChatSpec => []ChatTypeOK`
* `ConversationIsOnePlace`: `ChatSpec => []RowIsOnePlace`
* `CallsKeepScopesApart`: `ChatSpec => []ScopesApart`

The two properties are proved together, as one predicate of a row (`GoodRow`):
that no flow is entered twice is what lets `told` be changed at one flow without
touching what a waiting flow knows. One lemma per operator says that it keeps the
predicate (`PushGood`, `PopGood`, `AdvanceStaysGood`, `ReturnGood`, `FailedGood`,
`UnwindGood`), for any drawing of the flows (`Picture`), also one that has been
saved over or is gone. `ChatInv` adds what actions rely on between awaits: the row
is as the turn read it or last wrote it (`loaded[t] = session`, so
a commit writes the whole copy), and a turn that is making a file, or answering
from a dead end, stands on a block of a drawing it has read (`Standing`), which no
edit takes away.

`ServicesProofs`, for the parts side by side:

* `PartsStandAlone`:
  `ServicesSpec => ExportSpec /\ SyncSpec /\ TokenSpec /\ RateSpec /\ ChatSpec`, because
  a step of one part leaves the variables of the others alone
* `ServicesTypeCorrect`: `ServicesSpec => []ServicesTypeOK`, with `OneAtATime`
* `PromisesSideBySide`: every safety invariant of `services_side_by_side`, with
  `OneAtATime`, one export worker and a reaper that is not killed in the middle of a
  sweep: the hypotheses of `OneWorkerServesWhole`

Only model-checked. The liveness properties, because the prover knows neither
fairness nor ENABLED: `EveryRunSettles`, `EveryJobCloses`, `DueSlotPasses`,
`EveryMessageSettles` and `EveryExportJobEnds`. What goes wrong when a step is taken
that a theorem excludes: the violation runs and the notes of section 3 show it. Of
the other two findings, `DueSlotPasses` is liveness, and for `CompletedIsOutside` no
one step is to blame: a call that fails two deep, as in the run, and an answer to a
graph that is the last block of a called flow each complete the row inside a call
(TLC reaches both). Every other property of a passing run is a theorem. `OverlapBounded`, `Accounted`
and `SucceededIsClean` are proved and are not invariants of a run, whose properties
ask more of the same steps; `RefusedOnlyIfExplained` is a theorem only.

## 5. Plan

1. `GraphRun`: park on a question, resume, a timer racing an answer, Stop.
2. Email triggers: idempotency keys of a redelivered event, and Retry, which
   clears them.
3. The flow engine's routing and reducers, joined to `SyncRun`; several workflows
   that write through one operation.
4. `ExportQueue` checked with two workers, a name that is reserved and a requeue
   that locks what it selects, and its abstract specification.
5. `partial_algebra` and the tool chain order as pure algorithms.
6. `ChatFlow` with overlapping requests: which columns two turns may mix, and what
   `_persist_session` would have to lock.

Each gets an instance of two or three actors, one crash and one fault, its
safety invariants under interleaving first, liveness where a loop promises it.

## 6. Not modelled

`PROJECT.json` lists every component with its reason. In short: text and data
conversion (rendering, SQL text, mapping, file formats), CRUD pages and browser
code have no ordering to get wrong; language-model calls and vendor services are
outside the repository and appear, where modelled, as nondeterministic answers.
