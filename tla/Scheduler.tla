----------------------------- MODULE Scheduler -----------------------------
(***************************************************************************)
(* Firing workflows on a schedule: the trigger rows, the scheduler every   *)
(* process ticks, the transaction a tick builds up and commits, and the    *)
(* run rows it writes.  One workflow has one trigger.  One action is the   *)
(* code up to the next await at which another session can commit.          *)
(***************************************************************************)
EXTENDS Integers, FiniteSets

CONSTANTS
  Trigger,
  Interval,    \* interval_seconds of each, already at least the minimum
  Policy,      \* overlap_policy of each
  FiredBefore, \* those that last fired as the model's clock starts
  Scheduler, NoScheduler,   \* the scheduler task of each process
  Editor,      \* requests that edit a trigger, each at most one at a time
  Never,       \* NULL in next_run_at and last_fired_at
  QueueLimit,  \* OVERLAP_QUEUE_LIMIT
  BatchLimit,  \* BATCH_LIMIT
  EditSpan,    \* bound: how long a request runs before its UPDATE is sent
  MaxClock,    \* bound: time
  MaxEdits,    \* bound: edits of triggers and of flows
  MaxManual,   \* bound: times somebody presses Run
  MaxDeaths,   \* bound: process crashes
  MaxFaults    \* bound: database calls that raise

ASSUME SchedulerAssumption ==
  /\ Interval \in [Trigger -> Nat \ {0}]
  /\ Policy \in [Trigger -> {"skip", "queue", "cancel_previous"}]
  /\ Trigger # {} /\ FiredBefore \subseteq Trigger
  /\ IsFiniteSet(Scheduler) /\ NoScheduler \notin Scheduler
  /\ Never \notin Nat
  /\ {QueueLimit, BatchLimit} \subseteq Nat \ {0}
  /\ {EditSpan, MaxClock, MaxEdits, MaxManual, MaxDeaths, MaxFaults} \subseteq Nat

VARIABLES
  clock,
  \* integration_triggers
  enabled,   \* is_enabled
  next,      \* next_run_at
  last,      \* last_fired_at
  lock,      \* the session holding the row
  \* integration_flows
  flow,      \* is_active, and whether it has a published version
  \* integration_runs: by the key the unique index sees
  status, slotOf, asked,  \* the row's, and whether it was asked to stop
  \* one tick
  pc, moment,
  todo,      \* claimed triggers still to fire, with the slots read for them
  cur,       \* the trigger being fired and its slot
  skip,      \* a skip has been decided for it
  victims,   \* runs _cancel_previous still has to stop
  clocks, inserts, \* what its session has written and not committed
  \* requests between their reads and their commit
  edit,      \* edits of a trigger: what they ask, and the row they read
  toward,    \* and the slot they have computed
  switch,    \* workflows about to be switched on
  \* history and bounds
  passed,    \* slots of live flows the committed clock has gone past
  raced,     \* triggers given a slot computed before their last firing
  used

trigVars == <<enabled, next, last, lock>>
runVars  == <<status, slotOf, asked>>
tickVars == <<pc, moment, todo, cur, skip, victims, clocks, inserts>>
vars == <<clock, enabled, next, last, lock, flow, status, slotOf, asked, pc, moment, todo,
          cur, skip, victims, clocks, inserts, edit, toward, switch, passed, raced, used>>
requests == <<edit, toward, switch, raced>>

Time     == 0..MaxClock
InFlight == {"queued", "running"}
Slot     == [trig : Trigger, slot : Time]
Key      == {"slot", "manual"} \X Trigger \X Time
Status   == InFlight \cup {"none", "over", "skipped"}
NoSlot   == [trig |-> CHOOSE t \in Trigger : TRUE, slot |-> 0]
Advance  == [trig : Trigger, slot : Time, owed : BOOLEAN]
NewRow   == [key : Key, slot : Time, status : {"queued", "skipped"}]
Edit     == [trig : Trigger, enable : BOOLEAN, at : Time, enabled : BOOLEAN,
             next : Nat \cup {Never}, last : Time \cup {Never}]

TypeOK ==
  /\ clock \in Time
  /\ enabled \in [Trigger -> BOOLEAN]
  /\ next \in [Trigger -> Nat \cup {Never}]
  /\ last \in [Trigger -> Time \cup {Never}]
  /\ lock \in [Trigger -> Scheduler \cup {NoScheduler}]
  /\ flow \in [Trigger -> [active : BOOLEAN, published : BOOLEAN]]
  /\ status \in [Key -> Status]
  /\ slotOf \in [Key -> Time]
  /\ asked \subseteq Key
  /\ pc \in [Scheduler -> {"idle", "picking", "listing", "cancelling", "inserting"}]
  /\ moment \in [Scheduler -> Time]
  /\ todo \in [Scheduler -> SUBSET Slot]
  /\ cur \in [Scheduler -> Slot]
  /\ skip \in [Scheduler -> BOOLEAN]
  /\ victims \in [Scheduler -> SUBSET Key]
  /\ clocks \in [Scheduler -> SUBSET Advance]
  /\ inserts \in [Scheduler -> SUBSET NewRow]
  /\ edit \in [Editor -> SUBSET Edit]
  /\ toward \in [Editor -> SUBSET (Nat \cup {Never})]
  /\ switch \subseteq Trigger
  /\ passed \subseteq Slot
  /\ raced \subseteq Trigger
  /\ used \in [{"edits", "manual", "deaths", "faults"} -> Nat]

-----------------------------------------------------------------------------
(* Slots.                                                                  *)

\* Mutations: the interval subtracted, and a slot due now taken for the next one.
SlotBackwards(at, interval, anchor) ==
  IF anchor = Never THEN at - interval
  ELSE anchor + ((at - anchor) \div interval + 1) * interval

SlotNotBefore(at, interval, anchor) ==
  IF anchor = Never THEN at + interval
  ELSE anchor + ((at - anchor) \div interval) * interval

\* The next slot after a moment, a whole number of intervals from the anchor.
NextSlotAfter(at, interval, anchor) ==
  IF anchor = Never THEN at + interval
  ELSE IF anchor > at THEN anchor
  ELSE anchor + ((at - anchor) \div interval + 1) * interval

\* Mutation: the moment of firing rather than the slot.
MomentKey(a, at) == <<"slot", a.trig, at>>

SlotKey(a, at) == <<"slot", a.trig, a.slot>>

\* Mutation: the queued ones forgotten.
RunsRunning(t) == {k \in Key : k[2] = t /\ status[k] = "running"}

RunsInFlight(t) == {k \in Key : k[2] = t /\ status[k] \in InFlight}

\* A workflow starts live or taken down, its trigger still enabled either way.
Init ==
  /\ clock = 0
  /\ enabled = [t \in Trigger |-> TRUE]
  /\ next = [t \in Trigger |-> NextSlotAfter(0, Interval[t], Never)]
  /\ last = [t \in Trigger |-> IF t \in FiredBefore THEN 0 ELSE Never]
  /\ lock = [t \in Trigger |-> NoScheduler]
  /\ flow \in [Trigger -> {[active |-> u, published |-> u] : u \in BOOLEAN}]
  /\ status = [k \in Key |-> "none"]
  /\ slotOf = [k \in Key |-> 0]
  /\ asked = {}
  /\ pc = [s \in Scheduler |-> "idle"]
  /\ moment = [s \in Scheduler |-> 0]
  /\ todo = [s \in Scheduler |-> {}]
  /\ cur = [s \in Scheduler |-> NoSlot]
  /\ skip = [s \in Scheduler |-> FALSE]
  /\ victims = [s \in Scheduler |-> {}]
  /\ clocks = [s \in Scheduler |-> {}]
  /\ inserts = [s \in Scheduler |-> {}]
  /\ edit = [e \in Editor |-> {}]
  /\ toward = [e \in Editor |-> {}]
  /\ switch = {}
  /\ passed = {}
  /\ raced = {}
  /\ used = [b \in {"edits", "manual", "deaths", "faults"} |-> 0]

-----------------------------------------------------------------------------
(* The session of a tick.                                                  *)

\* COMMIT: the advanced clocks land, with the new rows of CommitRows, and every
\* row lock of the session is released.
CommitSession(s) ==
  LET fired == {c.trig : c \in clocks[s]}
  IN  /\ next' = [t \in Trigger |->
                    IF t \in fired
                    THEN NextSlotAfter(moment[s], Interval[t], moment[s]) ELSE next[t]]
      /\ last' = [t \in Trigger |-> IF t \in fired THEN moment[s] ELSE last[t]]
      /\ passed' = passed \cup
           {[trig |-> c.trig, slot |-> c.slot] : c \in {c \in clocks[s] : c.owed}}
      /\ lock' = [t \in Trigger |-> IF lock[t] = s THEN NoScheduler ELSE lock[t]]
      /\ UNCHANGED enabled

\* The rows a COMMIT leaves: those of the session's inserts, any other as it was.
CommitRows(s) ==
  LET new(k) == {n \in inserts[s] : n.key = k}
  IN  /\ status' = [k \in Key |-> IF new(k) = {} THEN status[k]
                                  ELSE (CHOOSE n \in new(k) : TRUE).status]
      /\ slotOf' = [k \in Key |-> IF new(k) = {} THEN slotOf[k]
                                  ELSE (CHOOSE n \in new(k) : TRUE).slot]

\* Mutation: the row locks outlive the session.
RollbackKeepsLocks(s) == UNCHANGED <<enabled, next, last, passed, lock>>

\* ROLLBACK, by an exception in the session or the end of the process: nothing
\* since the last commit happened and the row locks are gone.
Rollback(s) ==
  /\ lock' = [t \in Trigger |-> IF lock[t] = s THEN NoScheduler ELSE lock[t]]
  /\ UNCHANGED <<enabled, next, last, passed>>

\* The tick is over, and what its session had not committed with it.
Abandon(s) ==
  /\ Rollback(s)
  /\ pc' = [pc EXCEPT ![s] = "idle"]
  /\ todo' = [todo EXCEPT ![s] = {}]
  /\ cur' = [cur EXCEPT ![s] = NoSlot]
  /\ skip' = [skip EXCEPT ![s] = FALSE]
  /\ victims' = [victims EXCEPT ![s] = {}]
  /\ clocks' = [clocks EXCEPT ![s] = {}]
  /\ inserts' = [inserts EXCEPT ![s] = {}]
  /\ moment' = [moment EXCEPT ![s] = 0]
  /\ UNCHANGED <<clock, flow, runVars, requests>>

-----------------------------------------------------------------------------
(* A tick.                                                                 *)

\* A request has sent its UPDATE by the end of its EditSpan, and from then on
\* waits for the row as long as a tick holds it, ahead of later ticks.
Late(e) == clock - e.at >= EditSpan

Free(t) ==
  /\ lock[t] = NoScheduler
  /\ \A r \in Editor : \A e \in edit[r] : ~(e.trig = t /\ Late(e) /\ toward[r] # {})

Due == {t \in Trigger :
          enabled[t] /\ next[t] # Never /\ next[t] <= clock /\ Free(t)}

\* claim_due_triggers: the earliest due rows nobody has locked, locked.
Claim(s) ==
  /\ pc[s] = "idle"
  /\ \E batch \in SUBSET Due \ {{}} :
       /\ Cardinality(batch) <= BatchLimit
       /\ batch = Due \/ Cardinality(batch) = BatchLimit
       /\ \A t \in batch, u \in Due \ batch : next[t] <= next[u]
       /\ lock' = [t \in Trigger |-> IF t \in batch THEN s ELSE lock[t]]
       /\ todo' = [todo EXCEPT ![s] = {[trig |-> t, slot |-> next[t]] : t \in batch}]
  /\ moment' = [moment EXCEPT ![s] = clock]
  /\ pc' = [pc EXCEPT ![s] = "picking"]
  /\ UNCHANGED <<clock, enabled, next, last, flow, runVars, cur, skip, victims,
                 clocks, inserts, requests, passed, used>>

\* Mutation: the limit reached is still let through.
SkipsPast(t, inFlight) ==
  \/ Policy[t] = "skip" /\ inFlight > 1
  \/ Policy[t] = "queue" /\ inFlight > QueueLimit

\* Whether this tick is recorded as skipped rather than run.
SkipsFor(t, inFlight) ==
  \/ Policy[t] = "skip" /\ inFlight > 0
  \/ Policy[t] = "queue" /\ inFlight >= QueueLimit

\* _fire up to its first write of a run: the clock is advanced first and
\* unconditionally, which waits for the row if another session has it.
Fire(s) ==
  /\ pc[s] = "picking"
  /\ \E a \in todo[s] :
       /\ \A b \in todo[s] : a.slot <= b.slot
       /\ lock[a.trig] = s \/ Free(a.trig)
       /\ lock' = [lock EXCEPT ![a.trig] = s]
       /\ todo' = [todo EXCEPT ![s] = @ \ {a}]
       /\ clocks' = [clocks EXCEPT ![s] = @ \cup
                     {[trig |-> a.trig, slot |-> a.slot, owed |-> flow[a.trig].active]}]
       /\ IF ~flow[a.trig].active
          THEN UNCHANGED <<pc, cur, skip>>
          ELSE LET inFlight == Cardinality(RunsInFlight(a.trig))
                   stops == Policy[a.trig] = "cancel_previous" /\ inFlight > 0
               IN  /\ cur' = [cur EXCEPT ![s] = a]
                   /\ skip' = [skip EXCEPT ![s] = SkipsFor(a.trig, inFlight)]
                   /\ pc' = [pc EXCEPT ![s] = IF stops THEN "listing" ELSE "inserting"]
  /\ UNCHANGED <<clock, enabled, next, last, flow, runVars, moment, victims,
                 inserts, requests, passed, used>>

\* _cancel_previous reads the runs of the workflow.
ListPrevious(s) ==
  /\ pc[s] = "listing"
  /\ victims' = [victims EXCEPT ![s] = RunsInFlight(cur[s].trig)]
  /\ pc' = [pc EXCEPT ![s] = IF victims'[s] = {} THEN "inserting" ELSE "cancelling"]
  /\ UNCHANGED <<clock, trigVars, flow, runVars, moment, todo, cur, skip,
                 clocks, inserts, requests, passed, used>>

\* _cancel_previous, one run: request_stop marks its row through the generic
\* update, which commits the session it is given.
CancelPrevious(s) ==
  /\ pc[s] = "cancelling"
  /\ \E v \in victims[s] :
       /\ asked' = asked \cup {v}
       /\ victims' = [victims EXCEPT ![s] = @ \ {v}]
       /\ pc' = [pc EXCEPT ![s] = IF victims[s] = {v} THEN "inserting" ELSE @]
  /\ CommitSession(s)
  /\ CommitRows(s)
  /\ clocks' = [clocks EXCEPT ![s] = {}]
  /\ inserts' = [inserts EXCEPT ![s] = {}]
  /\ UNCHANGED <<clock, flow, moment, todo, cur, skip, requests, used>>

\* Another session has inserted this key and not committed: the insert waits.
KeyHeld(k, s) == \E v \in Scheduler \ {s} : \E n \in inserts[v] : n.key = k

\* Mutation: no unique index.
InsertAnyway(s) ==
  /\ pc[s] = "inserting"
  /\ inserts' = [inserts EXCEPT ![s] = @ \cup
       {[key |-> SlotKey(cur[s], moment[s]), slot |-> cur[s].slot, status |-> "queued"]}]
  /\ pc' = [pc EXCEPT ![s] = "picking"]
  /\ cur' = [cur EXCEPT ![s] = NoSlot]
  /\ skip' = [skip EXCEPT ![s] = FALSE]
  /\ UNCHANGED <<clock, trigVars, flow, runVars, moment, todo, victims,
                 clocks, requests, passed, used>>

\* begin_run and enqueue, or _record_skip: the row is flushed, not committed.
InsertRow(s) ==
  LET k == SlotKey(cur[s], moment[s])
  IN  /\ pc[s] = "inserting"
      /\ status[k] = "none"
      /\ ~KeyHeld(k, s)
      /\ inserts' = [inserts EXCEPT ![s] = @ \cup
           {[key |-> k, slot |-> cur[s].slot,
             status |-> IF skip[s] \/ ~flow[cur[s].trig].published
                        THEN "skipped" ELSE "queued"]}]
      /\ pc' = [pc EXCEPT ![s] = "picking"]
      /\ cur' = [cur EXCEPT ![s] = NoSlot]
      /\ skip' = [skip EXCEPT ![s] = FALSE]
      /\ UNCHANGED <<clock, trigVars, flow, runVars, moment, todo, victims,
                 clocks, requests, passed, used>>

\* The unique index refuses the row.  The flush has failed, so the session can
\* do nothing more and the exception leaves tick.
InsertRefused(s) ==
  /\ pc[s] = "inserting"
  /\ status[SlotKey(cur[s], moment[s])] # "none"
  /\ Abandon(s)
  /\ UNCHANGED used

\* The end of tick: one commit.
Commit(s) ==
  /\ pc[s] = "picking"
  /\ todo[s] = {}
  /\ CommitSession(s)
  /\ CommitRows(s)
  /\ UNCHANGED asked
  /\ clocks' = [clocks EXCEPT ![s] = {}]
  /\ inserts' = [inserts EXCEPT ![s] = {}]
  /\ pc' = [pc EXCEPT ![s] = "idle"]
  /\ moment' = [moment EXCEPT ![s] = 0]
  /\ UNCHANGED <<clock, flow, todo, cur, skip, victims, requests, used>>

-----------------------------------------------------------------------------
(* Everything around a tick.                                               *)

Spend(b, limit) == used[b] < limit /\ used' = [used EXCEPT ![b] = @ + 1]

TimePasses ==
  /\ clock < MaxClock
  /\ \A r \in Editor : \A e \in edit[r] :
       Late(e) => toward[r] # {} /\ lock[e.trig] # NoScheduler
  /\ clock' = clock + 1
  /\ UNCHANGED <<trigVars, flow, runVars, tickVars, requests, passed, used>>

\* The run queue takes a run, and ends it.
QueueTakes(k) ==
  /\ status[k] = "queued"
  /\ status' = [status EXCEPT ![k] = "running"]
  /\ UNCHANGED <<clock, trigVars, flow, slotOf, asked, tickVars, requests, passed, used>>

QueueEnds(k) ==
  /\ status[k] = "running"
  /\ status' = [status EXCEPT ![k] = "over"]
  /\ UNCHANGED <<clock, trigVars, flow, slotOf, asked, tickVars, requests, passed, used>>

\* start_run, dry runs of a draft included: no idempotency key, so the unique
\* index does not see it.
StartRun(t) ==
  LET k == <<"manual", t, clock>>
  IN  /\ Spend("manual", MaxManual)
      /\ status[k] = "none"
      /\ status' = [status EXCEPT ![k] = "queued"]
      /\ slotOf' = [slotOf EXCEPT ![k] = clock]
      /\ UNCHANGED <<clock, trigVars, flow, asked, tickVars, requests, passed>>

\* save_trigger and set_trigger_enabled read the row without locking it; a
\* schedule is only enabled on a published workflow.
EditReads(r, t) ==
  /\ Spend("edits", MaxEdits)
  /\ edit[r] = {}
  /\ \E enable \in {FALSE, flow[t].published} :
       edit' = [edit EXCEPT ![r] =
                  {[trig |-> t, enable |-> enable, at |-> clock, enabled |-> enabled[t],
                    next |-> next[t], last |-> last[t]]}]
  /\ UNCHANGED <<clock, trigVars, flow, runVars, tickVars, toward, switch, passed, raced>>

\* backfill_next_run_at, from the row as it was read.
Backfill(e) ==
  IF e.enable THEN {NextSlotAfter(clock, Interval[e.trig], e.last)} ELSE {Never}

EditComputes(r) ==
  /\ toward[r] = {}
  /\ \E e \in edit[r] : toward' = [toward EXCEPT ![r] = Backfill(e)]
  /\ UNCHANGED <<clock, trigVars, flow, runVars, tickVars, edit, switch, passed, raced, used>>

\* The commit writes the columns that differ from what was read, once no tick
\* holds the row.
EditWrites(r) ==
  /\ \E e \in edit[r] : \E to \in toward[r] :
       /\ lock[e.trig] = NoScheduler \/ (to = e.next /\ e.enable = e.enabled)
       /\ next' = [next EXCEPT ![e.trig] = IF to = e.next THEN @ ELSE to]
       /\ enabled' = [enabled EXCEPT ![e.trig] = IF e.enable = e.enabled THEN @ ELSE e.enable]
       /\ raced' = IF to = e.next \/ last[e.trig] = e.last THEN raced ELSE raced \cup {e.trig}
  /\ edit' = [edit EXCEPT ![r] = {}]
  /\ toward' = [toward EXCEPT ![r] = {}]
  /\ UNCHANGED <<clock, last, lock, flow, runVars, tickVars, switch, passed, used>>

\* set_flow_active: switching on looks for a published version first.
SwitchReads(t) ==
  /\ Spend("edits", MaxEdits)
  /\ flow[t].published
  /\ switch' = switch \cup {t}
  /\ UNCHANGED <<clock, trigVars, flow, runVars, tickVars, edit, toward, passed, raced>>

SwitchOn(t) ==
  /\ t \in switch
  /\ switch' = switch \ {t}
  /\ flow' = [flow EXCEPT ![t] = [active |-> TRUE, published |-> flow[t].published]]
  /\ UNCHANGED <<clock, trigVars, runVars, tickVars, edit, toward, passed, raced, used>>

EditFlow(t, to) ==
  /\ Spend("edits", MaxEdits)
  /\ flow[t] # to
  /\ flow' = [flow EXCEPT ![t] = to]
  /\ UNCHANGED <<clock, trigVars, runVars, tickVars, requests, passed>>

SwitchOff(t) == EditFlow(t, [active |-> FALSE, published |-> flow[t].published])

PublishFlow(t) == EditFlow(t, [active |-> flow[t].active, published |-> TRUE])

\* The version is withdrawn and the workflow switched off, in one commit.
UnpublishFlow(t) == EditFlow(t, [active |-> FALSE, published |-> FALSE])

Crash(s) ==
  /\ Spend("deaths", MaxDeaths)
  /\ pc[s] # "idle"
  /\ Abandon(s)

\* A database call raises in tick or inside _fire.  tick catches the latter, but
\* the session is no longer usable, so what follows raises too and leaves tick.
FireFaults(s) ==
  /\ Spend("faults", MaxFaults)
  /\ pc[s] # "idle"
  /\ Abandon(s)

-----------------------------------------------------------------------------

TickStep(s) ==
  \/ Claim(s) \/ Fire(s) \/ ListPrevious(s) \/ CancelPrevious(s)
  \/ InsertRow(s) \/ InsertRefused(s) \/ Commit(s)

Next ==
  \/ TimePasses
  \/ \E s \in Scheduler : TickStep(s) \/ Crash(s) \/ FireFaults(s)
  \/ \E k \in Key : QueueTakes(k) \/ QueueEnds(k)
  \/ \E t \in Trigger : StartRun(t)
  \/ \E r \in Editor : (\E t \in Trigger : EditReads(r, t)) \/ EditComputes(r) \/ EditWrites(r)
  \/ \E t \in Trigger : SwitchReads(t) \/ SwitchOn(t) \/ SwitchOff(t)
  \/ \E t \in Trigger : PublishFlow(t) \/ UnpublishFlow(t)

Spec == Init /\ [][Next]_vars

\* run_scheduler loops for ever, on_startup starts it again after a crash, and a
\* request that has read its trigger goes on to its commit.
FairSpec ==
  /\ Spec
  /\ \A s \in Scheduler : WF_vars(TickStep(s))
  /\ \A r \in Editor : WF_vars(EditComputes(r) \/ EditWrites(r))

-----------------------------------------------------------------------------
(* What the schedule promises.                                             *)

Fired == {k \in Key : k[1] = "slot" /\ status[k] # "none"}

\* One slot of one schedule yields one row, a run or a skip and never both,
\* however many schedulers saw it due and whatever became of their locks
\* (claim_due_triggers, _slot_key, the unique index).
SlotOnce ==
  \A k, l \in Fired : k[2] = l[2] /\ slotOf[k] = slotOf[l] => k = l

\* A slot that was fired or skipped is never fired again, by a scheduler that
\* read it as due earlier or by an edit that brought it back (the unique index,
\* _slot_key: "the slot, not the moment of firing").
FiredOnce ==
  [][\A k \in Fired :
       /\ slotOf'[k] = slotOf[k]
       /\ status'[k] \in InFlight => status[k] \in InFlight
       /\ status'[k] = "queued" => status[k] = "queued"]_vars

\* Two rows of one schedule are an interval apart, through missed slots and
\* restarts: nothing is caught up (next_slot_after, backfill_next_run_at).  Not
\* so once an edit has written a slot it computed before the last firing.
OneRunPerInterval ==
  \A k, l \in Fired :
    k[2] = l[2] /\ k[2] \notin raced /\ slotOf[k] < slotOf[l] =>
      slotOf[l] - slotOf[k] >= Interval[k[2]]

\* A slot the clock went past has its run or its skip, or is still being fired:
\* "there is no 'between'" (scheduler.py's docstring, tick).
SlotAccounted ==
  \A a \in passed :
    \/ \E k \in Fired : k[2] = a.trig /\ slotOf[k] = a.slot
    \/ \E s \in Scheduler : pc[s] \in {"listing", "cancelling", "inserting"} /\ cur[s] = a
    \/ \E s \in Scheduler : \E n \in inserts[s] : n.key[2] = a.trig /\ n.slot = a.slot

\* Scheduled runs in flight never exceed what the overlap policy allows: one
\* under skip, OVERLAP_QUEUE_LIMIT under queue (_fire, runs_in_flight).
OverlapBounded ==
  \A t \in Trigger :
    LET mine == Cardinality({k \in RunsInFlight(t) : k[1] = "slot"})
    IN  /\ Policy[t] = "skip" => mine <= 1
        /\ Policy[t] = "queue" => mine <= QueueLimit

\* Under cancel_previous at most one scheduled run for each process is in
\* flight without having been asked to stop: a process asks all it can see
\* before it queues its own.  The commit in request_stop gives up the row's
\* lock, so it cannot see what another process is about to queue.
UnaskedPerProcess ==
  \A t \in Trigger :
    Policy[t] = "cancel_previous" =>
      Cardinality({k \in RunsInFlight(t) : k[1] = "slot" /\ k \notin asked})
        <= Cardinality(Scheduler)

\* Whatever its policy, a schedule keeps what the policy can promise of the runs
\* of its earlier slots (_fire, OVERLAP_QUEUE_LIMIT, _cancel_previous).
PolicyKept == OverlapBounded /\ UnaskedPerProcess

\* The scheduler keeps a timetable (Timetable): a slot is entered once, one slot of
\* a schedule at a time, and as a run only where its policy has room at the commit,
\* although tick counts the runs in flight long before it commits (_fire,
\* claim_due_triggers).
Plan == INSTANCE Timetable WITH
  fate <- [a \in Trigger \X Time |-> status[<<"slot", a[1], a[2]>>]]

KeepsTheTimetable == Plan!Spec

\* Every due slot is dealt with, by whichever scheduler survives (run_scheduler).
DueSlotPasses ==
  \A t \in Trigger, v \in Time :
    (enabled[t] /\ next[t] = v /\ v <= clock) ~> ~(enabled[t] /\ next[t] = v)
=============================================================================
