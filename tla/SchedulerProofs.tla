-------------------------- MODULE SchedulerProofs --------------------------
(***************************************************************************)
(* What holds of the scheduler for every number of processes, triggers and *)
(* editors, every interval and every policy: its type invariant, that a    *)
(* slot has one row and is never fired again, that the overlap policy is   *)
(* kept, and that it implements Timetable.  That no slot is lost, and that *)
(* two are an interval apart, holds as long as request_stop's commit in    *)
(* the middle of a tick is not followed by one certain step.               *)
(***************************************************************************)
EXTENDS Scheduler, FiniteSetTheorems, TLAPS

-----------------------------------------------------------------------------
(* Slots.                                                                  *)

\* The slot arithmetic of next_slot_after stays in the naturals.
LEMMA NextSlotType ==
  ASSUME NEW at \in Nat, NEW i \in Nat \ {0}, NEW anchor \in Nat \cup {Never}
  PROVE  NextSlotAfter(at, i, anchor) \in Nat
<1>1. CASE anchor = Never BY <1>1 DEF NextSlotAfter
<1>2. CASE anchor # Never
  <2>1. anchor \in Nat BY <1>2
  <2>2. CASE anchor > at BY <1>2, <2>1, <2>2 DEF NextSlotAfter
  <2>3. CASE ~(anchor > at)
    <3>1. at - anchor \in Nat BY <2>1, <2>3
    <3>2. ((at - anchor) \div i) \in Nat BY <3>1
    <3> DEFINE whole == (at - anchor) \div i + 1
    <3>3. whole \in Nat BY <3>2
    <3> HIDE DEF whole
    <3>4. whole * i \in Nat BY <3>3
    <3>5. NextSlotAfter(at, i, anchor) = anchor + whole * i
      BY <1>2, <2>3 DEF NextSlotAfter, whole
    <3> QED BY <2>1, <3>4, <3>5
  <2> QED BY <2>2, <2>3
<1> QED BY <1>1, <1>2

\* A slot after a moment is later than the moment: what was due is not its own
\* successor.
THEOREM NextSlotLater ==
  ASSUME NEW at \in Nat, NEW i \in Nat \ {0}, NEW anchor \in Nat \cup {Never}
  PROVE  NextSlotAfter(at, i, anchor) > at
<1>1. CASE anchor = Never BY <1>1 DEF NextSlotAfter
<1>2. CASE anchor # Never
  <2>1. anchor \in Nat BY <1>2
  <2>2. CASE anchor > at BY <1>2, <2>1, <2>2 DEF NextSlotAfter
  <2>3. CASE ~(anchor > at)
    <3> DEFINE d == at - anchor
               q == d \div i
    <3>1. d \in Nat BY <2>1, <2>3
    <3>2. q \in Nat /\ d < (q + 1) * i BY <3>1
    <3>3. NextSlotAfter(at, i, anchor) = anchor + (q + 1) * i
      BY <1>2, <2>3 DEF NextSlotAfter
    <3> HIDE DEF q
    <3>4. (q + 1) * i \in Nat BY <3>2
    <3> QED BY <2>1, <3>2, <3>3, <3>4
  <2> QED BY <2>2, <2>3
<1> QED BY <1>1, <1>2

-----------------------------------------------------------------------------
(* Types.                                                                  *)

PC == {"idle", "picking", "listing", "cancelling", "inserting"}

\* What the end of a session, by commit or by rollback, may change.
RowTypes ==
  /\ enabled' \in [Trigger -> BOOLEAN]
  /\ next' \in [Trigger -> Nat \cup {Never}]
  /\ last' \in [Trigger -> Time \cup {Never}]
  /\ lock' \in [Trigger -> Scheduler \cup {NoScheduler}]
  /\ passed' \subseteq Slot

LEMMA ZeroIsTime == 0 \in Time /\ Time \subseteq Nat
  BY SchedulerAssumption DEF SchedulerAssumption, Time

LEMMA NoSlotType == NoSlot \in Slot
  BY SchedulerAssumption, ZeroIsTime DEF SchedulerAssumption, NoSlot, Slot

LEMMA InitType == Init => TypeOK
<1> SUFFICES ASSUME Init PROVE TypeOK OBVIOUS
<1> USE SchedulerAssumption, ZeroIsTime DEF SchedulerAssumption, Init
<1>1. next \in [Trigger -> Nat \cup {Never}]
  <2>1. \A t \in Trigger : NextSlotAfter(0, Interval[t], Never) \in Nat BY NextSlotType
  <2> QED BY <2>1
<1>2. last \in [Trigger -> Time \cup {Never}] OBVIOUS
<1>3. flow \in [Trigger -> [active : BOOLEAN, published : BOOLEAN]] OBVIOUS
<1>4. status \in [Key -> Status] BY DEF Status
<1>5. cur \in [Scheduler -> Slot] BY NoSlotType
<1>6. used \in [{"edits", "manual", "deaths", "faults"} -> Nat] OBVIOUS
<1> QED BY <1>1, <1>2, <1>3, <1>4, <1>5, <1>6 DEF TypeOK

LEMMA CommitType ==
  ASSUME TypeOK, NEW s \in Scheduler, CommitSession(s)
  PROVE  RowTypes
<1> USE DEF TypeOK
<1>1. \A t \in Trigger : NextSlotAfter(moment[s], Interval[t], moment[s]) \in Nat
  BY NextSlotType, SchedulerAssumption, ZeroIsTime DEF SchedulerAssumption
<1>2. next' \in [Trigger -> Nat \cup {Never}] BY <1>1 DEF CommitSession
<1>3. last' \in [Trigger -> Time \cup {Never}] BY DEF CommitSession
<1>4. lock' \in [Trigger -> Scheduler \cup {NoScheduler}] BY DEF CommitSession
<1>5. clocks[s] \subseteq Advance OBVIOUS
<1>6. passed' \subseteq Slot BY <1>5 DEF CommitSession, Advance, Slot
<1> QED BY <1>2, <1>3, <1>4, <1>6 DEF RowTypes, CommitSession

LEMMA CommitRowsType ==
  ASSUME TypeOK, NEW s \in Scheduler, CommitRows(s)
  PROVE  status' \in [Key -> Status] /\ slotOf' \in [Key -> Time]
<1> DEFINE new(k) == {n \in inserts[s] : n.key = k}
           one(k) == CHOOSE n \in new(k) : TRUE
<1>1. \A k \in Key : new(k) # {} => one(k) \in inserts[s] OBVIOUS
<1>2. inserts[s] \subseteq NewRow BY DEF TypeOK
<1>3. \A k \in Key : new(k) # {} => one(k).status \in Status /\ one(k).slot \in Time
  BY <1>1, <1>2 DEF NewRow, Status, InFlight
<1>4. status' = [k \in Key |-> IF new(k) = {} THEN status[k] ELSE one(k).status]
  BY DEF CommitRows
<1>5. slotOf' = [k \in Key |-> IF new(k) = {} THEN slotOf[k] ELSE one(k).slot]
  BY DEF CommitRows
<1> HIDE DEF new, one
<1> QED BY <1>3, <1>4, <1>5 DEF TypeOK

LEMMA AbandonType ==
  ASSUME TypeOK, NEW s \in Scheduler, Abandon(s),
         used' \in [{"edits", "manual", "deaths", "faults"} -> Nat]
  PROVE  TypeOK'
  BY NoSlotType, ZeroIsTime DEF TypeOK, Abandon, Rollback, requests, runVars

LEMMA SpendType ==
  ASSUME TypeOK, NEW b, NEW limit, Spend(b, limit)
  PROVE  used' \in [{"edits", "manual", "deaths", "faults"} -> Nat]
<1> DEFINE B == {"edits", "manual", "deaths", "faults"}
<1>1. used \in [B -> Nat] BY DEF TypeOK
<1>2. CASE b \in B
  <2>1. used[b] + 1 \in Nat BY <1>1, <1>2
  <2> QED BY <1>1, <2>1 DEF Spend
<1>3. CASE b \notin B BY <1>1, <1>3 DEF Spend
<1> QED BY <1>2, <1>3

\* The steps of a tick keep the types.
LEMMA TickType ==
  ASSUME TypeOK, NEW s \in Scheduler, TickStep(s)
  PROVE  TypeOK'
<1> USE DEF trigVars, requests, runVars
<1>1. CASE Claim(s)
  <2>1. PICK batch \in SUBSET Due :
          /\ lock' = [t \in Trigger |-> IF t \in batch THEN s ELSE lock[t]]
          /\ todo' = [todo EXCEPT ![s] = {[trig |-> t, slot |-> next[t]] : t \in batch}]
    BY <1>1 DEF Claim
  <2>2. \A t \in Due : next[t] \in Time
    BY SchedulerAssumption DEF SchedulerAssumption, Due, TypeOK, Time
  <2>3. {[trig |-> t, slot |-> next[t]] : t \in batch} \in SUBSET Slot
    BY <2>2 DEF Slot, Due
  <2>4. (lock \in [Trigger -> Scheduler \cup {NoScheduler}])' BY <2>1 DEF TypeOK
  <2>5. (todo \in [Scheduler -> SUBSET Slot])' BY <2>1, <2>3 DEF TypeOK
  <2>6. (moment \in [Scheduler -> Time])' BY <1>1 DEF Claim, TypeOK
  <2>7. (pc \in [Scheduler -> PC])' BY <1>1 DEF Claim, TypeOK, PC
  <2> QED BY <1>1, <2>4, <2>5, <2>6, <2>7 DEF Claim, TypeOK, PC
<1>2. CASE Fire(s)
  <2>1. PICK a \in todo[s] :
          /\ lock' = [lock EXCEPT ![a.trig] = s]
          /\ todo' = [todo EXCEPT ![s] = @ \ {a}]
          /\ clocks' = [clocks EXCEPT ![s] = @ \cup
                          {[trig |-> a.trig, slot |-> a.slot, owed |-> flow[a.trig].active]}]
          /\ \/ UNCHANGED <<pc, cur, skip>>
             \/ /\ cur' = [cur EXCEPT ![s] = a]
                /\ skip' = [skip EXCEPT ![s] =
                              SkipsFor(a.trig, Cardinality(RunsInFlight(a.trig)))]
                /\ \E to \in {"listing", "inserting"} : pc' = [pc EXCEPT ![s] = to]
    BY <1>2 DEF Fire
  <2>2. a \in Slot /\ a.trig \in Trigger /\ a.slot \in Time BY DEF TypeOK, Slot
  <2>3. [trig |-> a.trig, slot |-> a.slot, owed |-> flow[a.trig].active] \in Advance
    BY <2>2 DEF Advance, TypeOK
  <2>4. (lock \in [Trigger -> Scheduler \cup {NoScheduler}])' BY <2>1, <2>2 DEF TypeOK
  <2>5. (todo \in [Scheduler -> SUBSET Slot])' BY <2>1 DEF TypeOK
  <2>6. (clocks \in [Scheduler -> SUBSET Advance])' BY <2>1, <2>3 DEF TypeOK
  <2>7. (cur \in [Scheduler -> Slot])' BY <2>1, <2>2 DEF TypeOK
  <2>8. (skip \in [Scheduler -> BOOLEAN])'
    <3>1. SkipsFor(a.trig, Cardinality(RunsInFlight(a.trig))) \in BOOLEAN BY DEF SkipsFor
    <3> QED BY <2>1, <3>1 DEF TypeOK
  <2>9. (pc \in [Scheduler -> PC])' BY <2>1 DEF TypeOK, PC
  <2> QED BY <1>2, <2>4, <2>5, <2>6, <2>7, <2>8, <2>9 DEF Fire, TypeOK, PC
<1>3. CASE ListPrevious(s)
  <2>1. RunsInFlight(cur[s].trig) \in SUBSET Key BY DEF RunsInFlight
  <2> QED BY <1>3, <2>1 DEF ListPrevious, TypeOK
<1>4. CASE CancelPrevious(s)
  <2>1. asked' \subseteq Key BY <1>4 DEF CancelPrevious, TypeOK
  <2>2. status' \in [Key -> Status] /\ slotOf' \in [Key -> Time]
    BY <1>4, CommitRowsType DEF CancelPrevious
  <2>3. RowTypes BY <1>4, CommitType DEF CancelPrevious
  <2>4. victims' \in [Scheduler -> SUBSET Key] BY <1>4 DEF CancelPrevious, TypeOK
  <2>5. pc' \in [Scheduler -> PC] BY <1>4 DEF CancelPrevious, TypeOK, PC
  <2> QED BY <1>4, <2>1, <2>2, <2>3, <2>4, <2>5 DEF CancelPrevious, TypeOK, RowTypes, PC
<1>5. CASE InsertRow(s)
  <2> DEFINE n == [key |-> SlotKey(cur[s], moment[s]), slot |-> cur[s].slot,
                   status |-> IF skip[s] \/ ~flow[cur[s].trig].published
                              THEN "skipped" ELSE "queued"]
  <2>1. n \in NewRow BY DEF NewRow, SlotKey, Key, TypeOK, Slot
  <2>2. inserts' = [inserts EXCEPT ![s] = @ \cup {n}] BY <1>5 DEF InsertRow
  <2> HIDE DEF n
  <2>3. inserts' \in [Scheduler -> SUBSET NewRow] BY <2>1, <2>2 DEF TypeOK
  <2> QED BY <1>5, <2>3, NoSlotType DEF InsertRow, TypeOK
<1>6. CASE InsertRefused(s)
  BY <1>6, AbandonType DEF InsertRefused, TypeOK
<1>7. CASE Commit(s)
  <2>1. status' \in [Key -> Status] /\ slotOf' \in [Key -> Time]
    BY <1>7, CommitRowsType DEF Commit
  <2>2. RowTypes BY <1>7, CommitType DEF Commit
  <2> QED BY <1>7, <2>1, <2>2, ZeroIsTime DEF Commit, TypeOK, RowTypes
<1> QED BY <1>1, <1>2, <1>3, <1>4, <1>5, <1>6, <1>7 DEF TickStep

\* The steps of the requests, the queue and the clock keep the types.
LEMMA AroundType ==
  ASSUME TypeOK, [Next]_vars,
         ~ \E s \in Scheduler : TickStep(s) \/ Crash(s) \/ FireFaults(s)
  PROVE  TypeOK'
<1> USE DEF tickVars
<1>1. CASE TimePasses
  BY <1>1, SchedulerAssumption
  DEF TimePasses, TypeOK, Time, trigVars, runVars, requests, SchedulerAssumption
<1>2. ASSUME NEW k \in Key, QueueTakes(k) \/ QueueEnds(k) PROVE TypeOK'
  BY <1>2 DEF QueueTakes, QueueEnds, TypeOK, Status, InFlight, trigVars, requests
<1>3. ASSUME NEW t \in Trigger, StartRun(t) PROVE TypeOK'
  <2>1. used' \in [{"edits", "manual", "deaths", "faults"} -> Nat]
    BY <1>3, SpendType DEF StartRun
  <2>2. <<"manual", t, clock>> \in Key BY DEF Key, TypeOK
  <2>3. status' \in [Key -> Status] /\ slotOf' \in [Key -> Time]
    BY <1>3, <2>2 DEF StartRun, TypeOK, Status, InFlight
  <2> QED BY <1>3, <2>1, <2>3 DEF StartRun, TypeOK, trigVars, requests
<1>4. ASSUME NEW r \in Editor, NEW t \in Trigger, EditReads(r, t) PROVE TypeOK'
  <2>1. used' \in [{"edits", "manual", "deaths", "faults"} -> Nat]
    BY <1>4, SpendType DEF EditReads
  <2>2. PICK enable \in {FALSE, flow[t].published} :
          edit' = [edit EXCEPT ![r] =
                    {[trig |-> t, enable |-> enable, at |-> clock, enabled |-> enabled[t],
                      next |-> next[t], last |-> last[t]]}]
    BY <1>4 DEF EditReads
  <2>3. [trig |-> t, enable |-> enable, at |-> clock, enabled |-> enabled[t],
         next |-> next[t], last |-> last[t]] \in Edit
    BY DEF Edit, TypeOK
  <2>4. edit' \in [Editor -> SUBSET Edit] BY <2>2, <2>3 DEF TypeOK
  <2> QED BY <1>4, <2>1, <2>4 DEF EditReads, TypeOK, trigVars, runVars
<1>5. ASSUME NEW r \in Editor, EditComputes(r) PROVE TypeOK'
  <2>1. PICK e \in edit[r] : toward' = [toward EXCEPT ![r] = Backfill(e)]
    BY <1>5 DEF EditComputes
  <2>2. e.trig \in Trigger /\ e.last \in Nat \cup {Never}
    <3>1. e \in Edit BY DEF TypeOK
    <3>2. e.trig \in Trigger /\ e.last \in Time \cup {Never} BY <3>1 DEF Edit
    <3> QED BY <3>2, ZeroIsTime
  <2>3. NextSlotAfter(clock, Interval[e.trig], e.last) \in Nat
    BY <2>2, NextSlotType, SchedulerAssumption, ZeroIsTime DEF SchedulerAssumption, TypeOK
  <2>4. Backfill(e) \in SUBSET (Nat \cup {Never}) BY <2>3 DEF Backfill
  <2>5. toward' \in [Editor -> SUBSET (Nat \cup {Never})] BY <2>1, <2>4 DEF TypeOK
  <2> QED BY <1>5, <2>5 DEF EditComputes, TypeOK, trigVars, runVars
<1>6. ASSUME NEW r \in Editor, EditWrites(r) PROVE TypeOK'
  <2>1. PICK e \in edit[r], to \in toward[r] :
          /\ next' = [next EXCEPT ![e.trig] = IF to = e.next THEN @ ELSE to]
          /\ enabled' = [enabled EXCEPT ![e.trig] = IF e.enable = e.enabled THEN @ ELSE e.enable]
    BY <1>6 DEF EditWrites
  <2>2. e.trig \in Trigger /\ e.enable \in BOOLEAN /\ to \in Nat \cup {Never}
    BY DEF TypeOK, Edit
  <2>3. next' \in [Trigger -> Nat \cup {Never}] BY <2>1, <2>2 DEF TypeOK
  <2>4. enabled' \in [Trigger -> BOOLEAN] BY <2>1, <2>2 DEF TypeOK
  <2> QED BY <1>6, <2>3, <2>4 DEF EditWrites, TypeOK, runVars
<1>7. ASSUME NEW t \in Trigger, SwitchReads(t) PROVE TypeOK'
  <2>1. used' \in [{"edits", "manual", "deaths", "faults"} -> Nat]
    BY <1>7, SpendType DEF SwitchReads
  <2> QED BY <1>7, <2>1 DEF SwitchReads, TypeOK, trigVars, runVars
<1>8. ASSUME NEW t \in Trigger, SwitchOn(t) PROVE TypeOK'
  BY <1>8 DEF SwitchOn, TypeOK, trigVars, runVars
<1>9. ASSUME NEW t \in Trigger, NEW to \in [active : BOOLEAN, published : BOOLEAN],
             EditFlow(t, to)
      PROVE  TypeOK'
  <2>1. used' \in [{"edits", "manual", "deaths", "faults"} -> Nat]
    BY <1>9, SpendType DEF EditFlow
  <2> QED BY <1>9, <2>1 DEF EditFlow, TypeOK, trigVars, runVars, requests
<1>10. ASSUME NEW t \in Trigger, SwitchOff(t) \/ PublishFlow(t) \/ UnpublishFlow(t)
       PROVE  TypeOK'
  <2>1. flow[t].active \in BOOLEAN /\ flow[t].published \in BOOLEAN BY DEF TypeOK
  <2> QED BY <1>9, <1>10, <2>1 DEF SwitchOff, PublishFlow, UnpublishFlow
<1>11. CASE UNCHANGED vars BY <1>11 DEF vars, TypeOK
<1> QED BY <1>1, <1>2, <1>3, <1>4, <1>5, <1>6, <1>7, <1>8, <1>10, <1>11 DEF Next

LEMMA NextType == TypeOK /\ [Next]_vars => TypeOK'
<1> SUFFICES ASSUME TypeOK, [Next]_vars PROVE TypeOK' OBVIOUS
<1>1. ASSUME NEW s \in Scheduler, Crash(s) \/ FireFaults(s) PROVE TypeOK'
  <2>1. used' \in [{"edits", "manual", "deaths", "faults"} -> Nat]
    BY <1>1, SpendType DEF Crash, FireFaults
  <2> QED BY <1>1, <2>1, AbandonType DEF Crash, FireFaults
<1> QED BY <1>1, TickType, AroundType

\* The type invariant of the scheduler.
THEOREM TypeCorrect == Spec => []TypeOK
<1>1. Init => TypeOK BY InitType
<1>2. TypeOK /\ [Next]_vars => TypeOK' BY NextType
<1> QED BY <1>1, <1>2, PTL DEF Spec

-----------------------------------------------------------------------------
(* A slot has one row.                                                     *)

\* What a session has inserted and not committed is a slot nobody has a row for,
\* in the table or in another session.
InsertsFresh ==
  \A s \in Scheduler : \A n \in inserts[s] :
    /\ n.key[1] = "slot" /\ n.key[3] = n.slot
    /\ status[n.key] = "none"
    /\ \A v \in Scheduler \ {s} : \A m \in inserts[v] : m.key # n.key

\* A row of a schedule is the row of the slot its key names.
KeyNamesSlot ==
  \A k \in Fired : slotOf[k] = k[3]

IInv == TypeOK /\ InsertsFresh /\ KeyNamesSlot

\* A commit adds the session's rows and touches no row that was there.
LEMMA CommitAdds ==
  ASSUME IInv, NEW s \in Scheduler, CommitRows(s), NEW k \in Key
  PROVE  /\ status[k] # "none" => status'[k] = status[k] /\ slotOf'[k] = slotOf[k]
         /\ status[k] = "none" /\ status'[k] # "none" =>
              /\ \E n \in inserts[s] : n.key = k
              /\ k[1] = "slot" /\ slotOf'[k] = k[3]
<1> DEFINE new == {n \in inserts[s] : n.key = k}
           one == CHOOSE n \in new : TRUE
<1>1. status'[k] = (IF new = {} THEN status[k] ELSE one.status)
  BY DEF CommitRows
<1>2. slotOf'[k] = (IF new = {} THEN slotOf[k] ELSE one.slot)
  BY DEF CommitRows
<1>3. CASE new = {}
  BY <1>1, <1>2, <1>3
<1>4. CASE new # {}
  <2>1. one \in inserts[s] /\ one.key = k BY <1>4
  <2>2. k[1] = "slot" /\ k[3] = one.slot /\ status[k] = "none"
    BY <2>1 DEF IInv, InsertsFresh
  <2> QED BY <1>2, <1>4, <2>1, <2>2
<1> QED BY <1>3, <1>4

LEMMA InitFresh == Init => InsertsFresh /\ KeyNamesSlot
  BY DEF Init, InsertsFresh, KeyNamesSlot, Fired

\* What a step that commits no session does to the rows: a run is started by
\* hand, or the queue moves one that is there.
RowStep ==
  \/ UNCHANGED runVars
  \/ \E k \in Key : QueueTakes(k) \/ QueueEnds(k)
  \/ \E t \in Trigger : StartRun(t)

\* What it does to what the sessions have not committed: nothing, or it drops
\* what one session has.
InsertStep ==
  \A s \in Scheduler : inserts'[s] = inserts[s] \/ inserts'[s] = {}

LEMMA AbandonKeeps ==
  ASSUME TypeOK, NEW s \in Scheduler, Abandon(s)
  PROVE  RowStep /\ InsertStep
  BY DEF Abandon, RowStep, InsertStep, TypeOK

\* A step that commits nothing and inserts nothing keeps the invariant.
LEMMA OtherKeeps ==
  ASSUME IInv, RowStep, InsertStep
  PROVE  InsertsFresh' /\ KeyNamesSlot'
<1> USE DEF IInv
<1>1. \A k \in Key : k[1] = "slot" =>
        /\ status[k] = "none" <=> status'[k] = "none"
        /\ slotOf'[k] = slotOf[k]
  <2>1. CASE UNCHANGED runVars BY <2>1 DEF runVars
  <2>2. ASSUME NEW j \in Key, QueueTakes(j) \/ QueueEnds(j)
        PROVE  \A k \in Key : /\ status[k] = "none" <=> status'[k] = "none"
                              /\ slotOf'[k] = slotOf[k]
    BY <2>2 DEF QueueTakes, QueueEnds, TypeOK
  <2>3. ASSUME NEW t \in Trigger, StartRun(t)
        PROVE  \A k \in Key : k[1] = "slot" =>
                 /\ status[k] = "none" <=> status'[k] = "none"
                 /\ slotOf'[k] = slotOf[k]
    <3> DEFINE j == <<"manual", t, clock>>
    <3>1. j[1] # "slot" OBVIOUS
    <3>2. /\ status' = [status EXCEPT ![j] = "queued"]
          /\ slotOf' = [slotOf EXCEPT ![j] = clock]
      BY <2>3 DEF StartRun
    <3> HIDE DEF j
    <3> QED BY <3>1, <3>2 DEF TypeOK
  <2> QED BY <2>1, <2>2, <2>3 DEF RowStep
<1>2. InsertsFresh'
  <2>1. \A s \in Scheduler : inserts'[s] \subseteq inserts[s] BY DEF InsertStep
  <2>2. \A s \in Scheduler : \A n \in inserts[s] : n.key \in Key BY DEF TypeOK, NewRow
  <2> QED BY <1>1, <2>1, <2>2 DEF InsertsFresh
<1>3. KeyNamesSlot' BY <1>1 DEF KeyNamesSlot, Fired
<1> QED BY <1>2, <1>3

\* A commit keeps the invariant: what it adds was fresh, and names its slot.
LEMMA CommitKeeps ==
  ASSUME IInv, NEW s \in Scheduler, CommitRows(s), inserts' = [inserts EXCEPT ![s] = {}]
  PROVE  InsertsFresh' /\ KeyNamesSlot'
<1>1. InsertsFresh'
  <2> SUFFICES ASSUME NEW u \in Scheduler, NEW n \in inserts'[u]
               PROVE  /\ n.key[1] = "slot" /\ n.key[3] = n.slot
                      /\ status'[n.key] = "none"
                      /\ \A v \in Scheduler \ {u} : \A m \in inserts'[v] : m.key # n.key
    BY DEF InsertsFresh
  <2>1. u # s /\ n \in inserts[u] BY DEF IInv, TypeOK
  <2>2. n.key \in Key BY <2>1 DEF IInv, TypeOK, NewRow
  <2>3. \A v \in Scheduler : inserts'[v] \subseteq inserts[v] BY DEF IInv, TypeOK
  <2>4. /\ n.key[1] = "slot" /\ n.key[3] = n.slot
        /\ status[n.key] = "none"
        /\ \A v \in Scheduler \ {u} : \A m \in inserts[v] : m.key # n.key
    BY <2>1 DEF IInv, InsertsFresh
  <2>5. ~\E m \in inserts[s] : m.key = n.key BY <2>1, <2>4
  <2>6. status'[n.key] = "none" BY <2>2, <2>4, <2>5, CommitAdds
  <2> QED BY <2>3, <2>4, <2>6
<1>2. KeyNamesSlot'
  <2> SUFFICES ASSUME NEW k \in Key, k[1] = "slot", status'[k] # "none"
               PROVE  slotOf'[k] = k[3]
    BY DEF KeyNamesSlot, Fired
  <2>1. CASE status[k] = "none" BY <2>1, CommitAdds
  <2>2. CASE status[k] # "none" BY <2>2, CommitAdds DEF IInv, KeyNamesSlot, Fired
  <2> QED BY <2>1, <2>2
<1> QED BY <1>1, <1>2

\* An insert keeps the invariant: the unique index and the sessions that hold
\* the key were looked at.
LEMMA InsertKeeps ==
  ASSUME IInv, NEW s \in Scheduler, InsertRow(s)
  PROVE  InsertsFresh' /\ KeyNamesSlot'
<1> DEFINE k == SlotKey(cur[s], moment[s])
           n == [key |-> k, slot |-> cur[s].slot,
                 status |-> IF skip[s] \/ ~flow[cur[s].trig].published
                            THEN "skipped" ELSE "queued"]
<1>1. /\ inserts' = [inserts EXCEPT ![s] = @ \cup {n}]
      /\ status[k] = "none" /\ ~KeyHeld(k, s)
      /\ UNCHANGED <<status, slotOf>>
  BY DEF InsertRow, runVars
<1>2. n.key = k /\ n.slot = cur[s].slot OBVIOUS
<1>3. k[1] = "slot" /\ k[3] = cur[s].slot BY DEF SlotKey
<1> HIDE DEF n, k
<1>4. \A v \in Scheduler \ {s} : inserts'[v] = inserts[v] /\ (\A m \in inserts[v] : m.key # k)
  BY <1>1 DEF IInv, TypeOK, KeyHeld
<1>5. inserts'[s] = inserts[s] \cup {n} BY <1>1 DEF IInv, TypeOK
<1>6. InsertsFresh'
  <2> SUFFICES ASSUME NEW u \in Scheduler, NEW x \in inserts'[u]
               PROVE  /\ x.key[1] = "slot" /\ x.key[3] = x.slot
                      /\ status[x.key] = "none"
                      /\ \A v \in Scheduler \ {u} : \A m \in inserts'[v] : m.key # x.key
    BY <1>1 DEF InsertsFresh
  <2>1. CASE u = s /\ x = n BY <1>1, <1>2, <1>3, <1>4, <2>1
  <2>2. CASE u = s /\ x \in inserts[s]
    BY <1>4, <2>2 DEF IInv, InsertsFresh
  <2>3. CASE u # s
    <3>1. x \in inserts[u] BY <1>4, <2>3
    <3>2. \A v \in Scheduler \ {u} : \A m \in inserts[v] : m.key # x.key
      BY <3>1 DEF IInv, InsertsFresh
    <3>3. n.key # x.key BY <1>2, <1>4, <2>3, <3>1
    <3>4. \A v \in Scheduler \ {u} : \A m \in inserts'[v] : m.key # x.key
      BY <1>4, <1>5, <3>2, <3>3
    <3> QED BY <3>1, <3>4 DEF IInv, InsertsFresh
  <2> QED BY <1>5, <2>1, <2>2, <2>3
<1>7. KeyNamesSlot' BY <1>1 DEF IInv, KeyNamesSlot, Fired
<1> QED BY <1>6, <1>7

\* Every step is one of these.
LEMMA StepCases ==
  ASSUME TypeOK, [Next]_vars
  PROVE  \/ RowStep /\ InsertStep
         \/ \E s \in Scheduler : InsertRow(s)
         \/ \E s \in Scheduler : CommitRows(s) /\ inserts' = [inserts EXCEPT ![s] = {}]
<1> USE DEF trigVars, tickVars, requests
<1>1. CASE TimePasses BY <1>1 DEF TimePasses, RowStep, InsertStep
<1>2. ASSUME NEW s \in Scheduler, Claim(s) \/ Fire(s) \/ ListPrevious(s)
      PROVE  RowStep /\ InsertStep
  BY <1>2 DEF Claim, Fire, ListPrevious, RowStep, InsertStep
<1>3. ASSUME NEW s \in Scheduler, CancelPrevious(s) \/ Commit(s)
      PROVE  CommitRows(s) /\ inserts' = [inserts EXCEPT ![s] = {}]
  BY <1>3 DEF CancelPrevious, Commit
<1>4. ASSUME NEW s \in Scheduler, InsertRefused(s) \/ Crash(s) \/ FireFaults(s)
      PROVE  RowStep /\ InsertStep
  BY <1>4, AbandonKeeps DEF InsertRefused, Crash, FireFaults
<1>5. ASSUME NEW k \in Key, QueueTakes(k) \/ QueueEnds(k) PROVE RowStep /\ InsertStep
  BY <1>5 DEF QueueTakes, QueueEnds, RowStep, InsertStep
<1>6. ASSUME NEW t \in Trigger, StartRun(t) PROVE RowStep /\ InsertStep
  BY <1>6 DEF StartRun, RowStep, InsertStep
<1>7. ASSUME NEW r \in Editor, (\E t \in Trigger : EditReads(r, t)) \/ EditComputes(r) \/ EditWrites(r)
      PROVE  RowStep /\ InsertStep
  BY <1>7 DEF EditReads, EditComputes, EditWrites, RowStep, InsertStep
<1>8. ASSUME NEW t \in Trigger,
             SwitchReads(t) \/ SwitchOn(t) \/ SwitchOff(t) \/ PublishFlow(t) \/ UnpublishFlow(t)
      PROVE  RowStep /\ InsertStep
  BY <1>8 DEF SwitchReads, SwitchOn, SwitchOff, PublishFlow, UnpublishFlow, EditFlow,
              RowStep, InsertStep
<1>9. CASE UNCHANGED vars BY <1>9 DEF vars, runVars, RowStep, InsertStep
<1> QED BY <1>1, <1>2, <1>3, <1>4, <1>5, <1>6, <1>7, <1>8, <1>9 DEF Next, TickStep

LEMMA NextIInv == IInv /\ [Next]_vars => IInv'
<1> SUFFICES ASSUME IInv, [Next]_vars PROVE IInv' OBVIOUS
<1>1. TypeOK' BY NextType DEF IInv
<1>2. InsertsFresh' /\ KeyNamesSlot'
  BY StepCases, OtherKeeps, InsertKeeps, CommitKeeps DEF IInv
<1> QED BY <1>1, <1>2 DEF IInv

LEMMA StaysFresh == Spec => []IInv
<1>1. Init => IInv BY InitType, InitFresh DEF IInv
<1> QED BY <1>1, NextIInv, PTL DEF Spec

\* One slot of one schedule yields one row, whatever the number of processes.
THEOREM OneRowPerSlot == Spec => []SlotOnce
<1>1. IInv => SlotOnce
  <2> SUFFICES ASSUME IInv, NEW k \in Fired, NEW l \in Fired,
                      k[2] = l[2], slotOf[k] = slotOf[l]
               PROVE  k = l
    BY DEF SlotOnce
  <2>1. k \in Key /\ l \in Key /\ k[1] = l[1] BY DEF Fired
  <2>2. k[3] = l[3] BY DEF IInv, KeyNamesSlot
  <2>3. k = <<k[1], k[2], k[3]>> /\ l = <<l[1], l[2], l[3]>> BY <2>1 DEF Key
  <2> QED BY <2>1, <2>2, <2>3
<1> QED BY <1>1, StaysFresh, PTL

\* A row of a schedule moves towards its end and is never written by a second
\* firing of its slot.
THEOREM NeverFiredAgain == Spec => FiredOnce
<1> DEFINE Once == \A k \in Fired :
      /\ slotOf'[k] = slotOf[k]
      /\ status'[k] \in InFlight => status[k] \in InFlight
      /\ status'[k] = "queued" => status[k] = "queued"
<1>1. IInv /\ [Next]_vars => Once
  <2> SUFFICES ASSUME IInv, [Next]_vars, NEW k \in Key, k[1] = "slot", status[k] # "none"
               PROVE  /\ slotOf'[k] = slotOf[k]
                      /\ status'[k] \in InFlight => status[k] \in InFlight
                      /\ status'[k] = "queued" => status[k] = "queued"
    BY DEF Fired
  <2>1. CASE RowStep
    <3>1. CASE UNCHANGED runVars BY <3>1 DEF runVars
    <3>2. ASSUME NEW j \in Key, QueueTakes(j) \/ QueueEnds(j)
          PROVE  /\ slotOf'[k] = slotOf[k]
                 /\ status'[k] \in InFlight => status[k] \in InFlight
                 /\ status'[k] = "queued" => status[k] = "queued"
      BY <3>2 DEF QueueTakes, QueueEnds, IInv, TypeOK, InFlight
    <3>3. ASSUME NEW t \in Trigger, StartRun(t)
          PROVE  status'[k] = status[k] /\ slotOf'[k] = slotOf[k]
      <4>1. <<"manual", t, clock>> # k OBVIOUS
      <4> QED BY <3>3, <4>1 DEF StartRun, IInv, TypeOK
    <3> QED BY <2>1, <3>1, <3>2, <3>3 DEF RowStep
  <2>2. CASE \E s \in Scheduler : InsertRow(s)
    BY <2>2 DEF InsertRow, runVars
  <2>3. CASE \E s \in Scheduler : CommitRows(s)
    BY <2>3, CommitAdds
  <2> QED BY <2>1, <2>2, <2>3, StepCases DEF IInv
<1>2. IInv /\ [Next]_vars => [Once]_vars BY <1>1
<1> QED BY <1>2, StaysFresh, PTL DEF Spec, FiredOnce

-----------------------------------------------------------------------------
(* What one session is doing, and the row locks it holds.                  *)

Cancels(t) == Policy[t] = "cancel_previous"

Busy(s) == pc[s] \in {"listing", "cancelling", "inserting"}

\* A scheduler between two ticks has nothing to fire and nothing to commit.
IdleIsEmpty ==
  \A s \in Scheduler : pc[s] = "idle" => todo[s] = {} /\ clocks[s] = {} /\ inserts[s] = {}

\* A session deals with a trigger once: it is still to fire, being fired or
\* inserted, and only one of these.
DealtWithOnce ==
  \A s \in Scheduler :
    /\ \A a, b \in todo[s] : a.trig = b.trig => a = b
    /\ \A n, m \in inserts[s] : n.key[2] = m.key[2] => n = m
    /\ \A a \in todo[s], n \in inserts[s] : a.trig # n.key[2]
    /\ Busy(s) => \A a \in todo[s] : a.trig # cur[s].trig
    /\ Busy(s) => \A n \in inserts[s] : n.key[2] # cur[s].trig

\* Only cancel_previous looks for runs to stop.
OnlyCancelsStop ==
  \A s \in Scheduler : pc[s] \in {"listing", "cancelling"} => Cancels(cur[s].trig)

\* From the count of the runs in flight to the commit, a session holds the row
\* of a trigger that skips or queues, whatever else is in its batch.
HoldsWhatItCounted ==
  \A s \in Scheduler :
    /\ pc[s] = "inserting" /\ ~Cancels(cur[s].trig) => lock[cur[s].trig] = s
    /\ \A n \in inserts[s] : ~Cancels(n.key[2]) => lock[n.key[2]] = s

Sessions == IdleIsEmpty /\ DealtWithOnce /\ OnlyCancelsStop /\ HoldsWhatItCounted

\* Every step, by what it does to the sessions.
LEMMA SessionCases ==
  ASSUME [Next]_vars
  PROVE  \/ RowStep /\ UNCHANGED <<tickVars, lock, passed>>
         \/ \E s \in Scheduler :
              \/ Claim(s) \/ Fire(s) \/ ListPrevious(s) \/ CancelPrevious(s)
              \/ InsertRow(s) \/ Commit(s) \/ Abandon(s)
<1> USE DEF trigVars, RowStep
<1>1. CASE TimePasses BY <1>1 DEF TimePasses
<1>2. ASSUME NEW s \in Scheduler, TickStep(s) \/ Crash(s) \/ FireFaults(s)
      PROVE  \/ Claim(s) \/ Fire(s) \/ ListPrevious(s) \/ CancelPrevious(s)
             \/ InsertRow(s) \/ Commit(s) \/ Abandon(s)
  BY <1>2 DEF TickStep, InsertRefused, Crash, FireFaults
<1>3. ASSUME NEW k \in Key, QueueTakes(k) \/ QueueEnds(k) PROVE RowStep /\ UNCHANGED <<tickVars, lock, passed>>
  BY <1>3 DEF QueueTakes, QueueEnds
<1>4. ASSUME NEW t \in Trigger, StartRun(t) PROVE RowStep /\ UNCHANGED <<tickVars, lock, passed>>
  BY <1>4 DEF StartRun
<1>5. ASSUME NEW r \in Editor, (\E t \in Trigger : EditReads(r, t)) \/ EditComputes(r) \/ EditWrites(r)
      PROVE  RowStep /\ UNCHANGED <<tickVars, lock, passed>>
  BY <1>5 DEF EditReads, EditComputes, EditWrites
<1>6. ASSUME NEW t \in Trigger,
             SwitchReads(t) \/ SwitchOn(t) \/ SwitchOff(t) \/ PublishFlow(t) \/ UnpublishFlow(t)
      PROVE  RowStep /\ UNCHANGED <<tickVars, lock, passed>>
  BY <1>6 DEF SwitchReads, SwitchOn, SwitchOff, PublishFlow, UnpublishFlow, EditFlow
<1>7. CASE UNCHANGED vars BY <1>7 DEF vars, tickVars, runVars
<1> QED BY <1>1, <1>2, <1>3, <1>4, <1>5, <1>6, <1>7 DEF Next

LEMMA InitSessions == Init => Sessions
  BY DEF Init, Sessions, IdleIsEmpty, DealtWithOnce, OnlyCancelsStop, HoldsWhatItCounted, Busy

LEMMA NextSessions == TypeOK /\ Sessions /\ [Next]_vars => Sessions'
<1> SUFFICES ASSUME TypeOK, Sessions, [Next]_vars PROVE Sessions' OBVIOUS
<1> USE DEF TypeOK, Sessions, Busy, trigVars
<1>1. CASE UNCHANGED <<tickVars, lock>>
  BY <1>1 DEF tickVars, IdleIsEmpty, DealtWithOnce, OnlyCancelsStop, HoldsWhatItCounted
<1>2. ASSUME NEW s \in Scheduler, Claim(s) PROVE Sessions'
  <2>1. PICK batch \in SUBSET Due :
          /\ lock' = [t \in Trigger |-> IF t \in batch THEN s ELSE lock[t]]
          /\ todo' = [todo EXCEPT ![s] = {[trig |-> t, slot |-> next[t]] : t \in batch}]
    BY <1>2 DEF Claim
  <2>2. /\ pc[s] = "idle" /\ pc' = [pc EXCEPT ![s] = "picking"]
        /\ UNCHANGED <<cur, clocks, inserts>>
    BY <1>2 DEF Claim
  <2>3. \A t \in batch : lock[t] = NoScheduler BY DEF Due, Free
  <2>4. IdleIsEmpty' BY <2>1, <2>2 DEF IdleIsEmpty
  <2>5. DealtWithOnce' BY <2>1, <2>2 DEF DealtWithOnce, IdleIsEmpty
  <2>6. OnlyCancelsStop' BY <2>2 DEF OnlyCancelsStop
  <2>7. HoldsWhatItCounted'
    <3>1. \A v \in Scheduler : \A n \in inserts[v] : n.key[2] \in Trigger
      BY DEF NewRow, Key
    <3>2. \A v \in Scheduler : cur[v].trig \in Trigger BY DEF Slot
    <3> QED BY <2>1, <2>2, <2>3, <3>1, <3>2, SchedulerAssumption
            DEF HoldsWhatItCounted, IdleIsEmpty, SchedulerAssumption
  <2> QED BY <2>4, <2>5, <2>6, <2>7
<1>3. ASSUME NEW s \in Scheduler, Fire(s) PROVE Sessions'
  <2>1. PICK a \in todo[s] :
          /\ lock[a.trig] = s \/ Free(a.trig)
          /\ lock' = [lock EXCEPT ![a.trig] = s]
          /\ todo' = [todo EXCEPT ![s] = @ \ {a}]
          /\ \/ UNCHANGED <<pc, cur, skip>>
             \/ /\ cur' = [cur EXCEPT ![s] = a]
                /\ \/ pc' = [pc EXCEPT ![s] = "inserting"]
                   \/ Cancels(a.trig) /\ pc' = [pc EXCEPT ![s] = "listing"]
    BY <1>3 DEF Fire, Cancels
  <2>2. pc[s] = "picking" /\ UNCHANGED inserts /\ \A v \in Scheduler \ {s} : clocks'[v] = clocks[v]
    BY <1>3 DEF Fire
  <2>3. a.trig \in Trigger BY DEF Slot
  <2>4. IdleIsEmpty' BY <2>1, <2>2 DEF IdleIsEmpty
  <2>5. DealtWithOnce' BY <2>1, <2>2 DEF DealtWithOnce
  <2>6. OnlyCancelsStop' BY <2>1, <2>2 DEF OnlyCancelsStop
  <2>7. HoldsWhatItCounted'
    <3>1. \A t \in Trigger : lock'[t] = lock[t] \/ (lock'[t] = s /\ lock[t] = NoScheduler)
      BY <2>1, <2>3 DEF Free
    <3>2. \A v \in Scheduler : \A n \in inserts[v] : n.key[2] \in Trigger
      BY DEF NewRow, Key
    <3>3. \A v \in Scheduler : cur[v].trig \in Trigger BY DEF Slot
    <3> QED BY <2>1, <2>2, <2>3, <3>1, <3>2, <3>3, SchedulerAssumption
            DEF HoldsWhatItCounted, SchedulerAssumption
  <2> QED BY <2>4, <2>5, <2>6, <2>7
<1>4. ASSUME NEW s \in Scheduler, ListPrevious(s) PROVE Sessions'
  BY <1>4 DEF ListPrevious, IdleIsEmpty, DealtWithOnce, OnlyCancelsStop, HoldsWhatItCounted
\* A commit releases the rows and the inserts together.
<1>5. ASSUME NEW s \in Scheduler, CommitSession(s) \/ Rollback(s),
             clocks' = [clocks EXCEPT ![s] = {}],
             inserts' = [inserts EXCEPT ![s] = {}], UNCHANGED cur,
             \/ todo' = [todo EXCEPT ![s] = {}] /\ pc' = [pc EXCEPT ![s] = "idle"]
             \/ /\ UNCHANGED todo /\ pc[s] = "cancelling"
                /\ \E to \in {"cancelling", "inserting"} : pc' = [pc EXCEPT ![s] = to]
      PROVE  Sessions'
  <2>1. lock' = [t \in Trigger |-> IF lock[t] = s THEN NoScheduler ELSE lock[t]]
    BY <1>5 DEF CommitSession, Rollback
  <2>2. IdleIsEmpty' BY <1>5 DEF IdleIsEmpty
  <2>3. DealtWithOnce' BY <1>5 DEF DealtWithOnce
  <2>4. OnlyCancelsStop' BY <1>5 DEF OnlyCancelsStop
  <2>5. HoldsWhatItCounted'
    <3>1. \A v \in Scheduler : \A n \in inserts[v] : n.key[2] \in Trigger
      BY DEF NewRow, Key
    <3>2. \A v \in Scheduler : cur[v].trig \in Trigger BY DEF Slot
    <3> QED BY <1>5, <2>1, <3>1, <3>2 DEF HoldsWhatItCounted, OnlyCancelsStop
  <2> QED BY <2>2, <2>3, <2>4, <2>5
<1>6. ASSUME NEW s \in Scheduler, CancelPrevious(s) PROVE Sessions'
  <2>1. \E to \in {"cancelling", "inserting"} : pc' = [pc EXCEPT ![s] = to]
    BY <1>6 DEF CancelPrevious
  <2> QED BY <1>5, <1>6, <2>1 DEF CancelPrevious
<1>7. ASSUME NEW s \in Scheduler, Commit(s) PROVE Sessions'
  <2>1. todo' = [todo EXCEPT ![s] = {}] BY <1>7 DEF Commit
  <2>2. /\ CommitSession(s) /\ UNCHANGED cur
        /\ clocks' = [clocks EXCEPT ![s] = {}] /\ inserts' = [inserts EXCEPT ![s] = {}]
        /\ pc' = [pc EXCEPT ![s] = "idle"]
    BY <1>7 DEF Commit
  <2> QED BY <1>5, <2>1, <2>2
<1>8. ASSUME NEW s \in Scheduler, Abandon(s) PROVE Sessions'
  <2>1. lock' = [t \in Trigger |-> IF lock[t] = s THEN NoScheduler ELSE lock[t]]
    BY <1>8 DEF Abandon, Rollback
  <2>2. /\ pc' = [pc EXCEPT ![s] = "idle"] /\ todo' = [todo EXCEPT ![s] = {}]
        /\ cur' = [cur EXCEPT ![s] = NoSlot] /\ clocks' = [clocks EXCEPT ![s] = {}]
        /\ inserts' = [inserts EXCEPT ![s] = {}]
    BY <1>8 DEF Abandon
  <2>3. IdleIsEmpty' BY <2>2 DEF IdleIsEmpty
  <2>4. DealtWithOnce' BY <2>2 DEF DealtWithOnce
  <2>5. OnlyCancelsStop' BY <2>2 DEF OnlyCancelsStop
  <2>6. HoldsWhatItCounted'
    <3>1. \A v \in Scheduler : \A n \in inserts[v] : n.key[2] \in Trigger
      BY DEF NewRow, Key
    <3>2. \A v \in Scheduler : cur[v].trig \in Trigger BY DEF Slot
    <3> QED BY <2>1, <2>2, <3>1, <3>2 DEF HoldsWhatItCounted
  <2> QED BY <2>3, <2>4, <2>5, <2>6
<1>9. ASSUME NEW s \in Scheduler, InsertRow(s) PROVE Sessions'
  <2> DEFINE n == [key |-> SlotKey(cur[s], moment[s]), slot |-> cur[s].slot,
                   status |-> IF skip[s] \/ ~flow[cur[s].trig].published
                              THEN "skipped" ELSE "queued"]
  <2>1. n.key[2] = cur[s].trig BY DEF SlotKey
  <2>2. /\ pc[s] = "inserting" /\ inserts' = [inserts EXCEPT ![s] = @ \cup {n}]
        /\ pc' = [pc EXCEPT ![s] = "picking"] /\ cur' = [cur EXCEPT ![s] = NoSlot]
        /\ UNCHANGED <<lock, todo, clocks>>
    BY <1>9 DEF InsertRow
  <2> HIDE DEF n
  <2>3. IdleIsEmpty' BY <2>2 DEF IdleIsEmpty
  <2>4. DealtWithOnce' BY <2>1, <2>2 DEF DealtWithOnce
  <2>5. OnlyCancelsStop' BY <2>2 DEF OnlyCancelsStop
  <2>6. HoldsWhatItCounted' BY <2>1, <2>2 DEF HoldsWhatItCounted
  <2> QED BY <2>3, <2>4, <2>5, <2>6
<1> QED BY <1>1, <1>2, <1>3, <1>4, <1>6, <1>7, <1>8, <1>9, SessionCases

-----------------------------------------------------------------------------
(* The overlap policies.                                                   *)

\* The scheduled runs of a workflow that are in flight.
Mine(t) == {k \in Key : k[1] = "slot" /\ k[2] = t /\ status[k] \in InFlight}

Limit(t) == IF Policy[t] = "skip" THEN 1 ELSE QueueLimit

\* The limit is kept, and a session that has decided to run a slot has room for
\* it until its commit.
Room ==
  /\ \A t \in Trigger : ~Cancels(t) => Cardinality(Mine(t)) <= Limit(t)
  /\ \A s \in Scheduler :
       pc[s] = "inserting" /\ ~Cancels(cur[s].trig) /\ ~skip[s] =>
         Cardinality(Mine(cur[s].trig)) < Limit(cur[s].trig)
  /\ \A s \in Scheduler : \A n \in inserts[s] :
       n.status = "queued" /\ ~Cancels(n.key[2]) =>
         Cardinality(Mine(n.key[2])) < Limit(n.key[2])

LEMMA KeysFinite == ASSUME NEW t \in Trigger PROVE IsFiniteSet({k \in Key : k[2] = t})
<1> DEFINE S == {k \in Key : k[2] = t}
           T == {"slot", "manual"} \X Time
           f == [k \in S |-> <<k[1], k[3]>>]
<1>1. IsFiniteSet(Time) BY FS_Interval, SchedulerAssumption DEF Time, SchedulerAssumption
<1>2. IsFiniteSet({"slot", "manual"})
  <2>1. IsFiniteSet({"slot"}) BY FS_Singleton
  <2>2. IsFiniteSet({"slot"} \cup {"manual"}) BY <2>1, FS_AddElement
  <2>3. {"slot", "manual"} = {"slot"} \cup {"manual"} OBVIOUS
  <2> QED BY <2>2, <2>3
<1>3. IsFiniteSet(T) BY <1>1, <1>2, FS_Product
<1>4. f \in Injection(S, T)
  <2>1. f \in [S -> T] BY DEF Key
  <2>2. \A k, l \in S : f[k] = f[l] => k = l
    <3> SUFFICES ASSUME NEW k \in S, NEW l \in S, f[k] = f[l] PROVE k = l OBVIOUS
    <3>1. k[1] = l[1] /\ k[3] = l[3] /\ k[2] = l[2] OBVIOUS
    <3>2. k = <<k[1], k[2], k[3]>> /\ l = <<l[1], l[2], l[3]>> BY DEF Key
    <3> QED BY <3>1, <3>2
  <2> QED BY <2>1, <2>2 DEF Injection, IsInjective
<1> QED BY <1>3, <1>4, FS_Injection

\* The runs of a workflow are finitely many, and fewer when some are left out.
LEMMA MineFinite ==
  ASSUME NEW t \in Trigger
  PROVE  /\ IsFiniteSet(Mine(t)) /\ Cardinality(Mine(t)) \in Nat
         /\ IsFiniteSet(Mine(t)') /\ Cardinality(Mine(t)') \in Nat
         /\ IsFiniteSet(RunsInFlight(t)) /\ Cardinality(RunsInFlight(t)) \in Nat
         /\ Cardinality(Mine(t)) <= Cardinality(RunsInFlight(t))
<1> DEFINE S == {k \in Key : k[2] = t}
<1>1. IsFiniteSet(S) BY KeysFinite
<1>2. Mine(t) \in SUBSET S /\ Mine(t)' \in SUBSET S /\ RunsInFlight(t) \in SUBSET S
  BY DEF Mine, RunsInFlight
<1>3. Mine(t) \in SUBSET RunsInFlight(t) BY DEF Mine, RunsInFlight
<1> HIDE DEF S
<1>4. IsFiniteSet(Mine(t)) /\ IsFiniteSet(Mine(t)') /\ IsFiniteSet(RunsInFlight(t))
  BY <1>1, <1>2, FS_Subset
<1> QED BY <1>3, <1>4, FS_Subset, FS_CardinalityType

LEMMA FewerMine ==
  ASSUME NEW t \in Trigger, Mine(t)' \subseteq Mine(t)
  PROVE  Cardinality(Mine(t)') <= Cardinality(Mine(t))
<1>1. Mine(t)' \in SUBSET Mine(t) OBVIOUS
<1> QED BY <1>1, MineFinite, FS_Subset

LEMMA OneMore ==
  ASSUME NEW S, IsFiniteSet(S), NEW x
  PROVE  /\ IsFiniteSet(S \cup {x}) /\ Cardinality(S \cup {x}) \in Nat
         /\ Cardinality(S \cup {x}) <= Cardinality(S) + 1
<1>1. Cardinality(S) \in Nat BY FS_CardinalityType
<1>2. /\ IsFiniteSet(S \cup {x})
      /\ Cardinality(S \cup {x}) = IF x \in S THEN Cardinality(S) ELSE Cardinality(S) + 1
  BY FS_AddElement
<1> QED BY <1>1, <1>2

LEMMA LimitType == \A t \in Trigger : Limit(t) \in Nat \ {0}
  BY SchedulerAssumption DEF SchedulerAssumption, Limit

\* A step that commits nothing puts no scheduled run in flight.
LEMMA RowsFewer ==
  ASSUME TypeOK, RowStep, NEW t \in Trigger
  PROVE  Mine(t)' \subseteq Mine(t)
<1> SUFFICES ASSUME NEW k \in Key, k[1] = "slot", status'[k] \in InFlight
             PROVE  status[k] \in InFlight
  BY DEF Mine
<1>1. CASE UNCHANGED runVars BY <1>1 DEF runVars
<1>2. ASSUME NEW j \in Key, QueueTakes(j) \/ QueueEnds(j) PROVE status[k] \in InFlight
  BY <1>2 DEF QueueTakes, QueueEnds, TypeOK, InFlight
<1>3. ASSUME NEW u \in Trigger, StartRun(u) PROVE status[k] \in InFlight
  <2>1. <<"manual", u, clock>> # k OBVIOUS
  <2> QED BY <1>3, <2>1 DEF StartRun, TypeOK
<1> QED BY <1>1, <1>2, <1>3 DEF RowStep

\* A commit puts in flight what its session has queued.
LEMMA CommitQueues ==
  ASSUME IInv, NEW s \in Scheduler, CommitRows(s), NEW k \in Key,
         status'[k] \in InFlight, status[k] \notin InFlight
  PROVE  \E n \in inserts[s] : n.key = k /\ n.status = "queued"
<1> DEFINE new == {n \in inserts[s] : n.key = k}
           one == CHOOSE n \in new : TRUE
<1>1. status'[k] = (IF new = {} THEN status[k] ELSE one.status)
  BY DEF CommitRows
<1>2. new # {} BY <1>1
<1>3. one \in inserts[s] /\ one.key = k BY <1>2
<1>4. one.status \in {"queued", "skipped"} BY <1>3 DEF IInv, TypeOK, NewRow
<1> QED BY <1>1, <1>2, <1>3, <1>4 DEF InFlight

\* At most one run of a workflow that does not stop its earlier ones.
LEMMA CommitMine ==
  ASSUME IInv, Sessions, Room, NEW s \in Scheduler, CommitRows(s), NEW t \in Trigger, ~Cancels(t)
  PROVE  /\ Cardinality(Mine(t)') <= Limit(t)
         /\ (\A n \in inserts[s] : n.key[2] # t) => Cardinality(Mine(t)') <= Cardinality(Mine(t))
<1>1. CASE \A n \in inserts[s] : n.key[2] # t \/ n.status # "queued"
  <2>1. Mine(t)' \subseteq Mine(t) BY <1>1, CommitQueues DEF Mine
  <2> QED BY <2>1, FewerMine, MineFinite, LimitType DEF Room
<1>2. ASSUME NEW n \in inserts[s], n.key[2] = t, n.status = "queued"
      PROVE  Cardinality(Mine(t)') <= Limit(t)
  <2>1. \A m \in inserts[s] : m.key[2] = t => m = n BY <1>2 DEF Sessions, DealtWithOnce
  <2>2. Mine(t)' \in SUBSET (Mine(t) \cup {n.key}) BY <2>1, CommitQueues DEF Mine
  <2>4. Cardinality(Mine(t)) < Limit(t) BY <1>2 DEF Room
  <2>3. /\ IsFiniteSet(Mine(t) \cup {n.key})
        /\ Cardinality(Mine(t) \cup {n.key}) \in Nat
        /\ Cardinality(Mine(t) \cup {n.key}) <= Cardinality(Mine(t)) + 1
    BY MineFinite, OneMore
  <2>5. Cardinality(Mine(t)') <= Cardinality(Mine(t) \cup {n.key}) BY <2>2, <2>3, FS_Subset
  <2> QED BY <2>3, <2>4, <2>5, MineFinite, LimitType
<1> QED BY <1>1, <1>2

LEMMA CountTypes ==
  \A t \in Trigger : /\ Cardinality(Mine(t)) \in Nat /\ Cardinality(Mine(t)') \in Nat
                     /\ Limit(t) \in Nat \ {0}
  BY MineFinite, LimitType

\* Room for a slot is left alone by a step that puts no run in flight, decides
\* on no slot and inserts nothing.
LEMMA RoomLeft ==
  ASSUME TypeOK, Room, \A t \in Trigger : Mine(t)' \subseteq Mine(t),
         \A s \in Scheduler :
           /\ inserts'[s] \subseteq inserts[s]
           /\ pc'[s] = "inserting" =>
                \/ Cancels(cur'[s].trig)
                \/ pc[s] = "inserting" /\ cur'[s] = cur[s] /\ skip'[s] = skip[s]
  PROVE  Room'
<1>1. \A t \in Trigger : Cardinality(Mine(t)') <= Cardinality(Mine(t)) BY FewerMine
<1>2. \A s \in Scheduler : \A n \in inserts[s] : n.key[2] \in Trigger BY DEF TypeOK, NewRow, Key
<1>3. \A s \in Scheduler : cur[s].trig \in Trigger BY DEF TypeOK, Slot
<1>4. \A t \in Trigger : Limit(t)' = Limit(t) /\ Cancels(t)' = Cancels(t) BY DEF Limit, Cancels
<1>5. (\A t \in Trigger : ~Cancels(t) => Cardinality(Mine(t)) <= Limit(t))'
  BY <1>1, <1>4, CountTypes DEF Room
<1>6. (\A s \in Scheduler :
         pc[s] = "inserting" /\ ~Cancels(cur[s].trig) /\ ~skip[s] =>
           Cardinality(Mine(cur[s].trig)) < Limit(cur[s].trig))'
  <2> SUFFICES ASSUME NEW s \in Scheduler, pc'[s] = "inserting", ~Cancels(cur'[s].trig), ~skip'[s]
               PROVE  Cardinality(Mine(cur[s].trig)') < Limit(cur[s].trig) /\ cur'[s] = cur[s]
    OBVIOUS
  <2>1. cur'[s] = cur[s] /\ Cardinality(Mine(cur[s].trig)) < Limit(cur[s].trig) BY DEF Room
  <2> QED BY <1>1, <1>3, <2>1, CountTypes
<1>7. (\A s \in Scheduler : \A n \in inserts[s] :
         n.status = "queued" /\ ~Cancels(n.key[2]) =>
           Cardinality(Mine(n.key[2])) < Limit(n.key[2]))'
  <2> SUFFICES ASSUME NEW s \in Scheduler, NEW n \in inserts'[s], n.status = "queued", ~Cancels(n.key[2])
               PROVE  Cardinality(Mine(n.key[2])') < Limit(n.key[2])
    BY <1>4
  <2>1. n \in inserts[s] OBVIOUS
  <2>2. Cardinality(Mine(n.key[2])) < Limit(n.key[2]) BY <2>1 DEF Room
  <2> QED BY <1>1, <1>2, <2>1, <2>2, CountTypes
<1> QED BY <1>5, <1>6, <1>7 DEF Room

\* A commit uses the room its session was keeping; nobody else was keeping any,
\* for the session held the row.
LEMMA CommitRoom ==
  ASSUME IInv, Sessions, Room, NEW s \in Scheduler, CommitRows(s),
         inserts' = [inserts EXCEPT ![s] = {}], UNCHANGED <<cur, skip>>,
         \A v \in Scheduler \ {s} : pc'[v] = pc[v],
         pc'[s] = "inserting" => Cancels(cur[s].trig)
  PROVE  Room'
<1> USE DEF IInv
<1>1. \A v \in Scheduler : \A n \in inserts[v] : n.key[2] \in Trigger BY DEF TypeOK, NewRow, Key
<1>2. \A v \in Scheduler : cur[v].trig \in Trigger BY DEF TypeOK, Slot
<1>3. \A t \in Trigger : Limit(t)' = Limit(t) /\ Cancels(t)' = Cancels(t) BY DEF Limit, Cancels
\* What s has inserted a row for is locked by s, and what it has not keeps its count.
<1>4. ASSUME NEW t \in Trigger, ~Cancels(t), lock[t] # s
      PROVE  Cardinality(Mine(t)') <= Cardinality(Mine(t))
  BY <1>4, CommitMine DEF Sessions, HoldsWhatItCounted
<1>5. (\A t \in Trigger : ~Cancels(t) => Cardinality(Mine(t)) <= Limit(t))'
  BY <1>3, CommitMine
<1>6. (\A v \in Scheduler :
         pc[v] = "inserting" /\ ~Cancels(cur[v].trig) /\ ~skip[v] =>
           Cardinality(Mine(cur[v].trig)) < Limit(cur[v].trig))'
  <2> SUFFICES ASSUME NEW v \in Scheduler, pc'[v] = "inserting", ~Cancels(cur[v].trig), ~skip[v]
               PROVE  Cardinality(Mine(cur[v].trig)') < Limit(cur[v].trig)
    BY <1>3
  <2>1. v # s /\ pc[v] = "inserting" OBVIOUS
  <2>2. lock[cur[v].trig] # s BY <2>1 DEF Sessions, HoldsWhatItCounted
  <2>3. Cardinality(Mine(cur[v].trig)) < Limit(cur[v].trig) BY <2>1 DEF Room
  <2> QED BY <1>2, <1>4, <2>2, <2>3, CountTypes
<1>7. (\A v \in Scheduler : \A n \in inserts[v] :
         n.status = "queued" /\ ~Cancels(n.key[2]) =>
           Cardinality(Mine(n.key[2])) < Limit(n.key[2]))'
  <2> SUFFICES ASSUME NEW v \in Scheduler, NEW n \in inserts'[v], n.status = "queued", ~Cancels(n.key[2])
               PROVE  Cardinality(Mine(n.key[2])') < Limit(n.key[2])
    BY <1>3
  <2>1. v # s /\ n \in inserts[v] BY DEF TypeOK
  <2>2. lock[n.key[2]] # s BY <2>1 DEF Sessions, HoldsWhatItCounted
  <2>3. Cardinality(Mine(n.key[2])) < Limit(n.key[2]) BY <2>1 DEF Room
  <2> QED BY <1>1, <1>4, <2>1, <2>2, <2>3, CountTypes
<1> QED BY <1>5, <1>6, <1>7 DEF Room

\* A decision to run a slot is taken where there is room for it.
LEMMA FireRoom ==
  ASSUME TypeOK, Room, NEW s \in Scheduler, Fire(s)
  PROVE  Room'
<1>1. PICK a \in todo[s] :
        \/ UNCHANGED <<pc, cur, skip>>
        \/ /\ cur' = [cur EXCEPT ![s] = a]
           /\ skip' = [skip EXCEPT ![s] = SkipsFor(a.trig, Cardinality(RunsInFlight(a.trig)))]
           /\ \E to \in {"listing", "inserting"} : pc' = [pc EXCEPT ![s] = to]
  BY DEF Fire
<1>2. UNCHANGED <<runVars, inserts>> BY DEF Fire
<1>3. a.trig \in Trigger BY DEF TypeOK, Slot
<1>4. \A t \in Trigger : Mine(t)' = Mine(t) BY <1>2 DEF Mine, runVars
<1>5. CASE UNCHANGED <<pc, cur, skip>>
  BY <1>2, <1>4, <1>5, RoomLeft
<1>6. CASE /\ cur' = [cur EXCEPT ![s] = a]
           /\ skip' = [skip EXCEPT ![s] = SkipsFor(a.trig, Cardinality(RunsInFlight(a.trig)))]
           /\ \E to \in {"listing", "inserting"} : pc' = [pc EXCEPT ![s] = to]
  <2>1. ~Cancels(a.trig) /\ ~skip'[s] => Cardinality(Mine(a.trig)) < Limit(a.trig)
    <3>1. skip'[s] = SkipsFor(a.trig, Cardinality(RunsInFlight(a.trig))) BY <1>6 DEF TypeOK
    <3>2. /\ Cardinality(RunsInFlight(a.trig)) \in Nat /\ Cardinality(Mine(a.trig)) \in Nat
          /\ Cardinality(Mine(a.trig)) <= Cardinality(RunsInFlight(a.trig))
      BY <1>3, MineFinite
    <3>3. Policy[a.trig] \in {"skip", "queue", "cancel_previous"} /\ QueueLimit \in Nat
      BY <1>3, SchedulerAssumption DEF SchedulerAssumption
    <3> QED BY <3>1, <3>2, <3>3 DEF Cancels, SkipsFor, Limit
  <2>2. \A v \in Scheduler : pc'[v] = "inserting" =>
          \/ v = s /\ cur'[v] = a
          \/ pc[v] = "inserting" /\ cur'[v] = cur[v] /\ skip'[v] = skip[v]
    BY <1>6 DEF TypeOK
  <2>3. \A t \in Trigger : Limit(t)' = Limit(t) /\ Cancels(t)' = Cancels(t) BY DEF Limit, Cancels
  <2>4. \A v \in Scheduler : \A n \in inserts[v] : n.key[2] \in Trigger BY DEF TypeOK, NewRow, Key
  <2>5. \A v \in Scheduler : cur[v].trig \in Trigger BY DEF TypeOK, Slot
  <2>6. (\A v \in Scheduler :
           pc[v] = "inserting" /\ ~Cancels(cur[v].trig) /\ ~skip[v] =>
             Cardinality(Mine(cur[v].trig)) < Limit(cur[v].trig))'
    BY <1>3, <1>4, <2>1, <2>2, <2>3, <2>5 DEF Room
  <2>7. (\A v \in Scheduler : \A n \in inserts[v] :
           n.status = "queued" /\ ~Cancels(n.key[2]) =>
             Cardinality(Mine(n.key[2])) < Limit(n.key[2]))'
    BY <1>2, <1>4, <2>3, <2>4 DEF Room
  <2> QED BY <1>4, <2>3, <2>6, <2>7 DEF Room
<1> QED BY <1>1, <1>5, <1>6

LEMMA InsertRoom ==
  ASSUME TypeOK, Room, NEW s \in Scheduler, InsertRow(s)
  PROVE  Room'
<1> DEFINE n == [key |-> SlotKey(cur[s], moment[s]), slot |-> cur[s].slot,
                 status |-> IF skip[s] \/ ~flow[cur[s].trig].published
                            THEN "skipped" ELSE "queued"]
<1>1. /\ pc[s] = "inserting" /\ inserts' = [inserts EXCEPT ![s] = @ \cup {n}]
      /\ pc' = [pc EXCEPT ![s] = "picking"]
      /\ cur' = [cur EXCEPT ![s] = NoSlot] /\ skip' = [skip EXCEPT ![s] = FALSE]
      /\ UNCHANGED runVars
  BY DEF InsertRow
<1>2. n.key[2] = cur[s].trig /\ (n.status = "queued" => ~skip[s]) BY DEF SlotKey
<1> HIDE DEF n
<1>3. \A t \in Trigger : Mine(t)' = Mine(t) BY <1>1 DEF Mine, runVars
<1>4. \A t \in Trigger : Limit(t)' = Limit(t) /\ Cancels(t)' = Cancels(t) BY DEF Limit, Cancels
<1>5. \A v \in Scheduler : \A m \in inserts[v] : m.key[2] \in Trigger BY DEF TypeOK, NewRow, Key
<1>6. \A v \in Scheduler : cur[v].trig \in Trigger BY DEF TypeOK, Slot
<1>7. (\A v \in Scheduler :
         pc[v] = "inserting" /\ ~Cancels(cur[v].trig) /\ ~skip[v] =>
           Cardinality(Mine(cur[v].trig)) < Limit(cur[v].trig))'
  <2>1. \A v \in Scheduler : pc'[v] = "inserting" =>
          pc[v] = "inserting" /\ cur'[v] = cur[v] /\ skip'[v] = skip[v]
    BY <1>1 DEF TypeOK
  <2> QED BY <1>3, <1>4, <1>6, <2>1 DEF Room
<1>8. (\A v \in Scheduler : \A m \in inserts[v] :
         m.status = "queued" /\ ~Cancels(m.key[2]) =>
           Cardinality(Mine(m.key[2])) < Limit(m.key[2]))'
  <2> SUFFICES ASSUME NEW v \in Scheduler, NEW m \in inserts'[v], m.status = "queued", ~Cancels(m.key[2])
               PROVE  m.key[2] \in Trigger /\ Cardinality(Mine(m.key[2])) < Limit(m.key[2])
    BY <1>3, <1>4
  <2>1. m \in inserts[v] \/ (v = s /\ m = n) BY <1>1 DEF TypeOK
  <2>2. CASE m \in inserts[v] BY <1>5, <2>2 DEF Room
  <2>3. CASE v = s /\ m = n BY <1>1, <1>2, <1>6, <2>3 DEF Room
  <2> QED BY <2>1, <2>2, <2>3
<1> QED BY <1>3, <1>4, <1>7, <1>8 DEF Room

LEMMA InitRoom == Init => Room
<1> SUFFICES ASSUME Init PROVE Room OBVIOUS
<1>1. \A t \in Trigger : Mine(t) = {} BY DEF Init, Mine, InFlight
<1>2. \A t \in Trigger : Cardinality(Mine(t)) = 0 BY <1>1, FS_EmptySet
<1> QED BY <1>2, CountTypes DEF Room, Init

LEMMA NextRoom == IInv /\ Sessions /\ Room /\ [Next]_vars => Room'
<1> SUFFICES ASSUME IInv, Sessions, Room, [Next]_vars PROVE Room' OBVIOUS
<1> USE DEF IInv
<1>1. CASE RowStep /\ UNCHANGED <<tickVars, lock>>
  BY <1>1, RowsFewer, RoomLeft DEF tickVars
<1>2. ASSUME NEW s \in Scheduler, Claim(s) PROVE Room'
  <2>1. \A t \in Trigger : Mine(t)' = Mine(t) BY <1>2 DEF Claim, Mine, runVars
  <2> QED BY <1>2, <2>1, RoomLeft DEF Claim, TypeOK
<1>3. ASSUME NEW s \in Scheduler, ListPrevious(s) PROVE Room'
  <2>1. \A t \in Trigger : Mine(t)' = Mine(t) BY <1>3 DEF ListPrevious, Mine, runVars
  <2>2. Cancels(cur[s].trig) BY <1>3 DEF ListPrevious, Sessions, OnlyCancelsStop
  <2> QED BY <1>3, <2>1, <2>2, RoomLeft DEF ListPrevious, TypeOK
<1>4. ASSUME NEW s \in Scheduler, CancelPrevious(s) PROVE Room'
  <2>1. Cancels(cur[s].trig) BY <1>4 DEF CancelPrevious, Sessions, OnlyCancelsStop
  <2>2. \A v \in Scheduler \ {s} : pc'[v] = pc[v] BY <1>4 DEF CancelPrevious, TypeOK
  <2> QED BY <1>4, <2>1, <2>2, CommitRoom DEF CancelPrevious
<1>5. ASSUME NEW s \in Scheduler, Commit(s) PROVE Room'
  <2>1. pc'[s] # "inserting" /\ \A v \in Scheduler \ {s} : pc'[v] = pc[v]
    BY <1>5 DEF Commit, TypeOK
  <2> QED BY <1>5, <2>1, CommitRoom DEF Commit
<1>6. ASSUME NEW s \in Scheduler, Abandon(s) PROVE Room'
  <2>1. RowStep BY <1>6, AbandonKeeps
  <2> QED BY <1>6, <2>1, RowsFewer, RoomLeft DEF Abandon, TypeOK
<1> QED BY <1>1, <1>2, <1>3, <1>4, <1>5, <1>6, FireRoom, InsertRoom, SessionCases

SInv == IInv /\ Sessions /\ Room

LEMMA StaysRoomy == Spec => []SInv
<1>1. Init => SInv BY InitType, InitFresh, InitSessions, InitRoom DEF SInv, IInv
<1>2. SInv /\ [Next]_vars => SInv'
  BY NextIInv, NextSessions, NextRoom DEF SInv, IInv
<1> QED BY <1>1, <1>2, PTL DEF Spec

\* Scheduled runs in flight never exceed what the overlap policy allows, for any
\* number of processes, whatever else their batches hold and whichever calls
\* raise: the row lock taken with the clock is kept to the commit.
THEOREM OverlapKept == Spec => []OverlapBounded
<1>1. SInv => OverlapBounded
  <2> SUFFICES ASSUME SInv, NEW t \in Trigger
               PROVE  LET mine == Cardinality({k \in RunsInFlight(t) : k[1] = "slot"})
                      IN  /\ Policy[t] = "skip" => mine <= 1
                          /\ Policy[t] = "queue" => mine <= QueueLimit
    BY DEF OverlapBounded
  <2>1. {k \in RunsInFlight(t) : k[1] = "slot"} = Mine(t) BY DEF RunsInFlight, Mine
  <2> QED BY <2>1 DEF SInv, Room, Limit, Cancels
<1> QED BY <1>1, StaysRoomy, PTL

-----------------------------------------------------------------------------
(* The scheduler keeps its timetable.                                      *)

\* The key of the row of an entry, and the entries as the timetable sees them.
KeyOf(a) == <<"slot", a[1], a[2]>>

Fate == [a \in Trigger \X Time |-> status[<<"slot", a[1], a[2]>>]]

LEMMA EntryKeys ==
  /\ \A a \in Trigger \X Time : KeyOf(a) \in Key /\ KeyOf(a)[1] = "slot" /\ KeyOf(a)[2] = a[1]
  /\ \A a, b \in Trigger \X Time : KeyOf(a) = KeyOf(b) => a = b
<1>1. \A a \in Trigger \X Time : a[1] \in Trigger /\ a[2] \in Time /\ a = <<a[1], a[2]>>
  OBVIOUS
<1>2. ASSUME NEW a \in Trigger \X Time, NEW b \in Trigger \X Time, KeyOf(a) = KeyOf(b)
      PROVE  a = b
  <2>1. a[1] = b[1] /\ a[2] = b[2] BY <1>2 DEF KeyOf
  <2> QED BY <1>1, <2>1
<1> QED BY <1>1, <1>2 DEF KeyOf, Key

\* The timetable counts no run of a workflow the scheduler does not count.
LEMMA PlanCounts ==
  ASSUME NEW t \in Trigger
  PROVE  /\ IsFiniteSet(Plan!InFlight(t)) /\ Cardinality(Plan!InFlight(t)) \in Nat
         /\ Cardinality(Plan!InFlight(t)) <= Cardinality(Mine(t))
<1> DEFINE S == Plan!InFlight(t)
           f == [a \in S |-> KeyOf(a)]
<1>1. \A a \in S : a \in Trigger \X Time /\ a[1] = t /\ status[KeyOf(a)] \in InFlight
  BY DEF Plan!InFlight, Plan!Entry, KeyOf, InFlight
<1>2. \A a \in S : KeyOf(a) \in Mine(t) BY <1>1, EntryKeys DEF Mine
<1>3. \A a, b \in S : KeyOf(a) = KeyOf(b) => a = b BY <1>1, EntryKeys
<1> HIDE DEF S
<1>4. f \in Injection(S, Mine(t)) BY <1>2, <1>3 DEF Injection, IsInjective
<1>5. IsFiniteSet(Mine(t)) BY MineFinite
<1>6. IsFiniteSet(S) /\ Cardinality(S) <= Cardinality(Mine(t)) BY <1>4, <1>5, FS_Injection
<1>7. Cardinality(S) \in Nat BY <1>6, FS_CardinalityType
<1> QED BY <1>6, <1>7 DEF S

\* The timetable counts with the same operator.
LEMMA SameCardinality == \A S : Plan!Cardinality(S) = Cardinality(S)
  BY DEF Plan!Cardinality, Cardinality

\* Room as a session keeps it is room in the timetable.
LEMMA RoomIsRoom ==
  ASSUME NEW t \in Trigger, ~Cancels(t) => Cardinality(Mine(t)) < Limit(t)
  PROVE  Plan!MayRun(t)
<1>1. /\ IsFiniteSet(Plan!InFlight(t)) /\ Cardinality(Plan!InFlight(t)) \in Nat
      /\ Cardinality(Plan!InFlight(t)) <= Cardinality(Mine(t))
  BY PlanCounts
<1>2. Cardinality(Mine(t)) \in Nat /\ Limit(t) \in Nat \ {0} BY CountTypes
<1>3. ASSUME Policy[t] = "skip" PROVE Plan!InFlight(t) = {}
  <2>1. ~Cancels(t) /\ Limit(t) = 1 BY <1>3 DEF Cancels, Limit
  <2>2. Cardinality(Plan!InFlight(t)) = 0 BY <1>1, <1>2, <2>1
  <2> QED BY <1>1, <2>2, FS_EmptySet
<1>4. ASSUME Policy[t] = "queue" PROVE Cardinality(Plan!InFlight(t)) < QueueLimit
  <2>1. ~Cancels(t) /\ Limit(t) = QueueLimit BY <1>4 DEF Cancels, Limit
  <2> QED BY <1>1, <1>2, <2>1
<1> QED BY <1>3, <1>4, SameCardinality DEF Plan!MayRun

\* A commit writes rows that were not there, as its session inserted them.
LEMMA CommitEnters ==
  ASSUME IInv, NEW s \in Scheduler, CommitRows(s), NEW k \in Key, status'[k] # status[k]
  PROVE  /\ status[k] = "none"
         /\ \E n \in inserts[s] : n.key = k /\ n.status = status'[k]
         /\ status'[k] \in {"queued", "skipped"}
<1> DEFINE new == {n \in inserts[s] : n.key = k}
           one == CHOOSE n \in new : TRUE
<1>1. status'[k] = (IF new = {} THEN status[k] ELSE one.status) BY DEF CommitRows
<1>2. new # {} BY <1>1
<1>3. one \in inserts[s] /\ one.key = k BY <1>2
<1>4. status[k] = "none" BY <1>3 DEF IInv, InsertsFresh
<1>5. one.status \in {"queued", "skipped"} BY <1>3 DEF IInv, TypeOK, NewRow
<1> QED BY <1>1, <1>2, <1>3, <1>4, <1>5

\* A commit enters slots in the timetable.
LEMMA CommitIsEnter ==
  ASSUME SInv, NEW s \in Scheduler, CommitRows(s)
  PROVE  Plan!Enter
<1> DEFINE entered == {a \in Trigger \X Time : Fate'[a] # Fate[a]}
<1>1. \A a \in Trigger \X Time : Fate[a] = status[KeyOf(a)] /\ Fate'[a] = status'[KeyOf(a)]
  BY DEF Fate, KeyOf
<1>2. ASSUME NEW a \in entered
      PROVE  /\ a \in Trigger \X Time /\ a[1] \in Trigger
             /\ Fate[a] = "none" /\ Fate'[a] \in {"queued", "skipped"}
             /\ \E n \in inserts[s] : n.key = KeyOf(a) /\ n.key[2] = a[1] /\ n.status = Fate'[a]
  <2>1. KeyOf(a) \in Key /\ KeyOf(a)[2] = a[1] BY EntryKeys
  <2>2. status'[KeyOf(a)] # status[KeyOf(a)] BY <1>1
  <2>3. /\ status[KeyOf(a)] = "none"
        /\ \E n \in inserts[s] : n.key = KeyOf(a) /\ n.status = status'[KeyOf(a)]
        /\ status'[KeyOf(a)] \in {"queued", "skipped"}
    BY <2>1, <2>2, CommitEnters DEF SInv
  <2> QED BY <1>1, <2>1, <2>3
<1>3. ASSUME NEW a \in entered, Fate'[a] = "queued" PROVE Plan!MayRun(a[1])
  <2>1. PICK n \in inserts[s] : n.key[2] = a[1] /\ n.status = "queued" BY <1>2, <1>3
  <2>2. ~Cancels(a[1]) => Cardinality(Mine(a[1])) < Limit(a[1]) BY <2>1 DEF SInv, Room
  <2> QED BY <1>2, <2>2, RoomIsRoom
<1>4. ASSUME NEW a \in entered, NEW b \in entered, a[1] = b[1] PROVE a = b
  <2>1. PICK n \in inserts[s] : n.key = KeyOf(a) /\ n.key[2] = a[1] BY <1>2
  <2>2. PICK m \in inserts[s] : m.key = KeyOf(b) /\ m.key[2] = b[1] BY <1>2
  <2>3. n = m BY <1>4, <2>1, <2>2 DEF SInv, Sessions, DealtWithOnce
  <2> QED BY <2>1, <2>2, <2>3, EntryKeys
<1>5. Fate' = [a \in Trigger \X Time |-> Fate'[a]] BY DEF Fate
<1>6. \A a \in entered : Fate'[a] = "skipped" \/ (Fate'[a] = "queued" /\ Plan!MayRun(a[1]))
  BY <1>2, <1>3
<1>7. \A a \in entered : Fate[a] = "none" BY <1>2
<1>8. \A a, b \in entered : a[1] = b[1] => a = b BY <1>4
<1> QED BY <1>5, <1>6, <1>7, <1>8 DEF Plan!Enter, Plan!Entry, Fate

\* A run the queue moves is an entry that moves, or no entry.
LEMMA QueueMoves ==
  ASSUME TypeOK, NEW k \in Key, NEW from, NEW to, status[k] = from,
         status' = [status EXCEPT ![k] = to]
  PROVE  (\E a \in Trigger \X Time : Plan!Moves(a, from, to)) \/ UNCHANGED Fate
<1>1. CASE k[1] = "slot"
  <2> DEFINE a == <<k[2], k[3]>>
  <2>1. a \in Trigger \X Time /\ KeyOf(a) = k BY <1>1 DEF Key, KeyOf
  <2> HIDE DEF a
  <2>2. Fate[a] = from BY <2>1 DEF Fate, KeyOf
  <2>3. ASSUME NEW b \in Trigger \X Time PROVE Fate'[b] = (IF b = a THEN to ELSE Fate[b])
    <3>1. KeyOf(b) \in Key /\ (KeyOf(b) = k => b = a) BY <2>1, EntryKeys
    <3>2. Fate'[b] = status'[KeyOf(b)] /\ Fate[b] = status[KeyOf(b)] BY DEF Fate, KeyOf
    <3> QED BY <2>1, <3>1, <3>2 DEF TypeOK
  <2>4. Fate' = [Fate EXCEPT ![a] = to] BY <2>1, <2>3 DEF Fate
  <2>5. Plan!Moves(a, from, to) BY <2>2, <2>4 DEF Plan!Moves, Fate
  <2> QED BY <2>1, <2>5
<1>2. CASE k[1] # "slot"
  <2>1. \A b \in Trigger \X Time : KeyOf(b) \in Key /\ KeyOf(b) # k BY <1>2, EntryKeys
  <2>2. \A b \in Trigger \X Time : status'[KeyOf(b)] = status[KeyOf(b)] BY <2>1 DEF TypeOK
  <2> QED BY <2>2 DEF Fate, KeyOf
<1> QED BY <1>1, <1>2

\* A step that commits nothing moves one entry or none.
LEMMA RowStepMoves ==
  ASSUME TypeOK, RowStep
  PROVE  Plan!Next \/ UNCHANGED Fate
<1>1. CASE UNCHANGED runVars BY <1>1 DEF runVars, Fate
<1>2. ASSUME NEW k \in Key, QueueTakes(k) PROVE Plan!Next \/ UNCHANGED Fate
  <2>1. status[k] = "queued" /\ status' = [status EXCEPT ![k] = "running"]
    BY <1>2 DEF QueueTakes
  <2> QED BY <2>1, QueueMoves DEF Plan!Next, Plan!Entry
<1>3. ASSUME NEW k \in Key, QueueEnds(k) PROVE Plan!Next \/ UNCHANGED Fate
  <2>1. status[k] = "running" /\ status' = [status EXCEPT ![k] = "over"]
    BY <1>3 DEF QueueEnds
  <2> QED BY <2>1, QueueMoves DEF Plan!Next, Plan!Entry
<1>4. ASSUME NEW t \in Trigger, StartRun(t) PROVE UNCHANGED Fate
  <2> DEFINE j == <<"manual", t, clock>>
  <2>1. \A b \in Trigger \X Time : KeyOf(b) \in Key /\ KeyOf(b) # j BY EntryKeys
  <2>2. status' = [status EXCEPT ![j] = "queued"] BY <1>4 DEF StartRun
  <2> HIDE DEF j
  <2>3. \A b \in Trigger \X Time : status'[KeyOf(b)] = status[KeyOf(b)] BY <2>1, <2>2 DEF TypeOK
  <2> QED BY <2>3 DEF Fate, KeyOf
<1> QED BY <1>1, <1>2, <1>3, <1>4 DEF RowStep

\* The scheduler implements the timetable: for any processes, policies, edits,
\* crashes and raised calls, a slot is entered once, one slot of a schedule in a
\* commit, and as a run only where the policy has room in the state the commit
\* lands in, although the runs in flight were counted at the firing: the row lock
\* taken with the clock keeps every other session out until then.
THEOREM ImplementsTimetable == Spec => KeepsTheTimetable
<1>1. Init => Plan!Init BY EntryKeys DEF Init, Plan!Init, Plan!Entry, KeyOf
<1>2. SInv /\ [Next]_vars => Plan!Next \/ UNCHANGED Fate
  <2> SUFFICES ASSUME SInv, [Next]_vars PROVE Plan!Next \/ UNCHANGED Fate OBVIOUS
  <2>1. TypeOK BY DEF SInv, IInv
  <2>2. CASE RowStep BY <2>1, <2>2, RowStepMoves
  <2>3. CASE \E s \in Scheduler : InsertRow(s) BY <2>3 DEF InsertRow, runVars, Fate
  <2>4. CASE \E s \in Scheduler : CommitRows(s) BY <2>4, CommitIsEnter DEF Plan!Next
  <2> QED BY <2>1, <2>2, <2>3, <2>4, StepCases
<1>3. SInv /\ [Next]_vars => [Plan!Next]_Fate BY <1>2
<1> QED BY <1>1, <1>3, StaysRoomy, PTL DEF Spec, KeepsTheTimetable, Plan!Spec, Fate

-----------------------------------------------------------------------------
(* cancel_previous.                                                        *)

\* The scheduled runs in flight that nobody has asked to stop.
Unasked(t) == Mine(t) \ asked

\* Each was queued by one process, and each process accounts for one at most: it
\* has asked the one it queued before to stop when it queues another.
OwnedBy(own) ==
  /\ own \in [Key -> Scheduler \cup {NoScheduler}]
  /\ \A t \in Trigger : Cancels(t) =>
       /\ \A k \in Unasked(t) : own[k] \in Scheduler
       /\ \A k, l \in Unasked(t) : own[k] = own[l] => k = l
       /\ \A k \in Unasked(t), s \in Scheduler : own[k] = s =>
            /\ cur[s].trig = t => pc[s] # "inserting"
            /\ cur[s].trig = t /\ pc[s] = "cancelling" => k \in victims[s]
            /\ \A n \in inserts[s] : n.key[2] = t => n.status # "queued"

Owned == \E own : OwnedBy(own)

LEMMA InitOwned == Init => Owned
<1> SUFFICES ASSUME Init PROVE Owned OBVIOUS
<1> DEFINE own == [k \in Key |-> NoScheduler]
<1>1. \A t \in Trigger : Unasked(t) = {} BY DEF Init, Unasked, Mine, InFlight
<1>2. OwnedBy(own) BY <1>1 DEF OwnedBy
<1> QED BY <1>2 DEF Owned

\* A step that puts no run in flight, and after which a session that inserts did
\* so before or sees none of its own, leaves the runs their owners.
LEMMA OwnersLeft ==
  ASSUME TypeOK, NEW own, OwnedBy(own), \A t \in Trigger : Unasked(t)' \subseteq Unasked(t),
         \A s \in Scheduler :
           /\ inserts'[s] \subseteq inserts[s]
           /\ \/ cur'[s] = cur[s] /\ pc'[s] = pc[s] /\ victims'[s] = victims[s]
              \/ pc'[s] \notin {"inserting", "cancelling"}
              \/ Unasked(cur[s].trig)' = {}
              \/ pc'[s] = "cancelling" /\ Unasked(cur[s].trig)' \subseteq victims'[s]
              \/ ~Cancels(cur'[s].trig)
  PROVE  OwnedBy(own)'
<1>1. \A t \in Trigger : Cancels(t)' = Cancels(t) BY DEF Cancels
<1>2. ASSUME NEW t \in Trigger, Cancels(t)
      PROVE  /\ \A k \in Unasked(t)' : own[k] \in Scheduler
             /\ \A k, l \in Unasked(t)' : own[k] = own[l] => k = l
  BY <1>2 DEF OwnedBy
<1>3. ASSUME NEW t \in Trigger, Cancels(t), NEW k \in Unasked(t)', NEW s \in Scheduler, own[k] = s
      PROVE  /\ cur'[s].trig = t => pc'[s] # "inserting"
             /\ cur'[s].trig = t /\ pc'[s] = "cancelling" => k \in victims'[s]
             /\ \A n \in inserts'[s] : n.key[2] = t => n.status # "queued"
  <2>1. k \in Unasked(t) BY <1>3
  <2>2. /\ cur[s].trig = t => pc[s] # "inserting"
        /\ cur[s].trig = t /\ pc[s] = "cancelling" => k \in victims[s]
        /\ \A n \in inserts[s] : n.key[2] = t => n.status # "queued"
    BY <1>3, <2>1 DEF OwnedBy
  <2> QED BY <1>3, <2>2
<1>4. own \in [Key -> Scheduler \cup {NoScheduler}] BY DEF OwnedBy
<1> QED BY <1>1, <1>2, <1>3, <1>4 DEF OwnedBy

\* A commit gives its session the runs it queues; it accounted for no run of
\* their workflows before, for it was about to queue one.
LEMMA OwnersCommit ==
  ASSUME IInv, Sessions, NEW own, OwnedBy(own), NEW s \in Scheduler, CommitRows(s),
         inserts' = [inserts EXCEPT ![s] = {}], UNCHANGED cur, asked \subseteq asked',
         \A v \in Scheduler \ {s} : pc'[v] = pc[v] /\ victims'[v] = victims[v],
         \/ pc'[s] \notin {"inserting", "cancelling"}
         \/ /\ pc[s] = "cancelling"
            /\ \E v \in victims[s] :
                 /\ v \in asked' /\ victims'[s] = victims[s] \ {v}
                 /\ pc'[s] = "inserting" => victims[s] = {v}
  PROVE  Owned'
<1> USE DEF IInv
<1>1. PICK o : o = [k \in Key |-> IF \E n \in inserts[s] : n.key = k THEN s ELSE own[k]]
  OBVIOUS
<1>2. \A t \in Trigger : Cancels(t)' = Cancels(t) BY DEF Cancels
<1>3. o \in [Key -> Scheduler \cup {NoScheduler}] BY <1>1 DEF OwnedBy
\* A run without an answer yet was so before, or has just been queued.
<1>4. ASSUME NEW t \in Trigger, NEW k \in Unasked(t)'
      PROVE  /\ k \in Key /\ k[2] = t
             /\ \/ k \in Unasked(t) /\ o[k] = own[k]
                \/ o[k] = s /\ \E n \in inserts[s] : n.key = k /\ n.status = "queued"
  <2>1. k \in Key /\ k[1] = "slot" /\ k[2] = t /\ status'[k] \in InFlight /\ k \notin asked
    BY <1>4 DEF Unasked, Mine
  <2>2. CASE status[k] \in InFlight
    <3>1. k \in Unasked(t) BY <2>1, <2>2 DEF Unasked, Mine
    <3>2. \A n \in inserts[s] : n.key # k BY <2>2 DEF InsertsFresh, InFlight
    <3> QED BY <1>1, <2>1, <3>1, <3>2
  <2>3. CASE status[k] \notin InFlight
    <3>1. \E n \in inserts[s] : n.key = k /\ n.status = "queued" BY <2>1, <2>3, CommitQueues
    <3> QED BY <1>1, <2>1, <3>1
  <2> QED BY <2>2, <2>3
<1>5. ASSUME NEW t \in Trigger, Cancels(t), NEW k \in Unasked(t)' PROVE o[k] \in Scheduler
  BY <1>4, <1>5 DEF OwnedBy
<1>6. ASSUME NEW t \in Trigger, Cancels(t), NEW k \in Unasked(t)', NEW l \in Unasked(t)', o[k] = o[l]
      PROVE  k = l
  <2>1. ASSUME NEW i \in Unasked(t), own[i] = s, NEW n \in inserts[s], n.key[2] = t, n.status = "queued"
        PROVE  FALSE
    BY <1>6, <2>1 DEF OwnedBy
  <2>2. \A n, m \in inserts[s] : n.key[2] = m.key[2] => n = m BY DEF Sessions, DealtWithOnce
  <2>3. CASE k \in Unasked(t) /\ o[k] = own[k] /\ l \in Unasked(t) /\ o[l] = own[l]
    BY <1>6, <2>3 DEF OwnedBy
  <2>4. CASE o[k] = s /\ o[l] = s
    <3>1. \/ k \in Unasked(t) /\ own[k] = s
          \/ \E n \in inserts[s] : n.key = k /\ n.status = "queued"
      BY <1>4, <2>4
    <3>2. \/ l \in Unasked(t) /\ own[l] = s
          \/ \E n \in inserts[s] : n.key = l /\ n.status = "queued"
      BY <1>4, <2>4
    <3>3. k[2] = t /\ l[2] = t BY <1>4
    <3>4. CASE k \in Unasked(t) /\ own[k] = s /\ l \in Unasked(t) /\ own[l] = s
      BY <1>6, <3>4 DEF OwnedBy
    <3>5. CASE /\ \E n \in inserts[s] : n.key = k /\ n.status = "queued"
               /\ \E n \in inserts[s] : n.key = l /\ n.status = "queued"
      BY <2>2, <3>3, <3>5
    <3> QED BY <2>1, <3>1, <3>2, <3>3, <3>4, <3>5
  <2> QED BY <1>4, <1>6, <2>3, <2>4
<1>7. ASSUME NEW t \in Trigger, Cancels(t), NEW k \in Unasked(t)', NEW v \in Scheduler, o[k] = v
      PROVE  /\ cur'[v].trig = t => pc'[v] # "inserting"
             /\ cur'[v].trig = t /\ pc'[v] = "cancelling" => k \in victims'[v]
             /\ \A n \in inserts'[v] : n.key[2] = t => n.status # "queued"
  <2>1. CASE v # s
    <3>1. k \in Unasked(t) /\ own[k] = v BY <1>4, <1>7, <2>1
    <3>2. pc'[v] = pc[v] /\ victims'[v] = victims[v] /\ inserts'[v] = inserts[v] BY <2>1 DEF TypeOK
    <3> QED BY <1>7, <3>1, <3>2 DEF OwnedBy
  <2>2. CASE v = s /\ pc'[s] \notin {"inserting", "cancelling"}
    BY <2>2 DEF TypeOK
  <2>3. CASE v = s /\ pc[s] = "cancelling" /\
             \E u \in victims[s] :
               /\ u \in asked' /\ victims'[s] = victims[s] \ {u}
               /\ pc'[s] = "inserting" => victims[s] = {u}
    <3>1. PICK u \in victims[s] :
            /\ u \in asked' /\ victims'[s] = victims[s] \ {u}
            /\ pc'[s] = "inserting" => victims[s] = {u}
      BY <2>3
    <3>2. k # u BY <3>1 DEF Unasked
    <3>3. cur[s].trig = t => k \in Unasked(t) /\ own[k] = s
      <4>1. \A n \in inserts[s] : n.key[2] # cur[s].trig
        BY <2>3 DEF Sessions, DealtWithOnce, Busy
      <4> QED BY <1>4, <1>7, <2>3, <4>1
    <3>4. cur[s].trig = t => k \in victims[s] BY <1>7, <2>3, <3>3 DEF OwnedBy
    <3>5. inserts'[s] = {} BY DEF TypeOK
    <3> QED BY <2>3, <3>1, <3>2, <3>4, <3>5
  <2> QED BY <2>1, <2>2, <2>3
<1>8. OwnedBy(o)' BY <1>2, <1>3, <1>5, <1>6, <1>7 DEF OwnedBy
<1> QED BY <1>8 DEF Owned

\* What a session inserts it accounts for no run of.
LEMMA OwnersInsert ==
  ASSUME TypeOK, NEW own, OwnedBy(own), NEW s \in Scheduler, InsertRow(s)
  PROVE  OwnedBy(own)'
<1> DEFINE n == [key |-> SlotKey(cur[s], moment[s]), slot |-> cur[s].slot,
                 status |-> IF skip[s] \/ ~flow[cur[s].trig].published
                            THEN "skipped" ELSE "queued"]
<1>1. /\ pc[s] = "inserting" /\ inserts' = [inserts EXCEPT ![s] = @ \cup {n}]
      /\ pc' = [pc EXCEPT ![s] = "picking"] /\ cur' = [cur EXCEPT ![s] = NoSlot]
      /\ UNCHANGED <<runVars, victims>>
  BY DEF InsertRow
<1>2. n.key[2] = cur[s].trig BY DEF SlotKey
<1> HIDE DEF n
<1>3. \A t \in Trigger : Unasked(t)' = Unasked(t) /\ Cancels(t)' = Cancels(t)
  BY <1>1 DEF Unasked, Mine, runVars, Cancels
<1>4. ASSUME NEW t \in Trigger, Cancels(t), NEW k \in Unasked(t), NEW v \in Scheduler, own[k] = v
      PROVE  /\ cur'[v].trig = t => pc'[v] # "inserting"
             /\ cur'[v].trig = t /\ pc'[v] = "cancelling" => k \in victims'[v]
             /\ \A m \in inserts'[v] : m.key[2] = t => m.status # "queued"
  <2>1. /\ cur[v].trig = t => pc[v] # "inserting"
        /\ cur[v].trig = t /\ pc[v] = "cancelling" => k \in victims[v]
        /\ \A m \in inserts[v] : m.key[2] = t => m.status # "queued"
    BY <1>4 DEF OwnedBy
  <2>2. CASE v = s BY <1>1, <1>2, <2>1, <2>2 DEF TypeOK
  <2>3. CASE v # s BY <1>1, <2>1, <2>3 DEF TypeOK
  <2> QED BY <2>2, <2>3
<1> QED BY <1>3, <1>4 DEF OwnedBy

LEMMA UnaskedFewer ==
  ASSUME TypeOK, RowStep, NEW t \in Trigger
  PROVE  Unasked(t)' \subseteq Unasked(t)
<1>1. Mine(t)' \subseteq Mine(t) BY RowsFewer
<1>2. asked' = asked BY DEF RowStep, runVars, QueueTakes, QueueEnds, StartRun
<1> QED BY <1>1, <1>2 DEF Unasked

LEMMA NextOwned == IInv /\ Sessions /\ Owned /\ [Next]_vars => Owned'
<1> SUFFICES ASSUME IInv, Sessions, Owned, [Next]_vars PROVE Owned' OBVIOUS
<1> USE DEF IInv
<1>0. PICK own : OwnedBy(own) BY DEF Owned
<1>1. CASE RowStep /\ UNCHANGED <<tickVars, lock>>
  <2>1. OwnedBy(own)' BY <1>0, <1>1, UnaskedFewer, OwnersLeft DEF tickVars
  <2> QED BY <2>1 DEF Owned
<1>2. ASSUME NEW s \in Scheduler, Claim(s) PROVE Owned'
  <2>1. \A t \in Trigger : Unasked(t)' = Unasked(t) BY <1>2 DEF Claim, Unasked, Mine, runVars
  <2>2. pc'[s] = "picking" /\ \A v \in Scheduler \ {s} : pc'[v] = pc[v]
    BY <1>2 DEF Claim, TypeOK
  <2>3. UNCHANGED <<cur, victims, inserts>> BY <1>2 DEF Claim
  <2>4. OwnedBy(own)' BY <1>0, <2>1, <2>2, <2>3, OwnersLeft
  <2> QED BY <2>4 DEF Owned
<1>3. ASSUME NEW s \in Scheduler, Fire(s) PROVE Owned'
  <2>1. PICK a \in todo[s] :
          \/ UNCHANGED <<pc, cur>>
          \/ /\ cur' = [cur EXCEPT ![s] = a]
             /\ pc' = [pc EXCEPT ![s] =
                  IF Policy[a.trig] = "cancel_previous" /\ Cardinality(RunsInFlight(a.trig)) > 0
                  THEN "listing" ELSE "inserting"]
    BY <1>3 DEF Fire
  <2>2. a.trig \in Trigger BY DEF TypeOK, Slot
  <2>3. UNCHANGED <<runVars, victims, inserts>> BY <1>3 DEF Fire
  <2>4. \A t \in Trigger : Unasked(t)' = Unasked(t) BY <2>3 DEF Unasked, Mine, runVars
  <2>5. CASE UNCHANGED <<pc, cur>>
    BY <1>0, <2>3, <2>4, <2>5, OwnersLeft DEF Owned
  <2>6. CASE /\ cur' = [cur EXCEPT ![s] = a]
             /\ pc' = [pc EXCEPT ![s] =
                  IF Policy[a.trig] = "cancel_previous" /\ Cardinality(RunsInFlight(a.trig)) > 0
                  THEN "listing" ELSE "inserting"]
    <3>1. cur'[s] = a /\ pc'[s] = (IF Policy[a.trig] = "cancel_previous" /\ Cardinality(RunsInFlight(a.trig)) > 0
                  THEN "listing" ELSE "inserting")
      BY <2>6 DEF TypeOK
    <3>2. Cancels(a.trig) /\ pc'[s] = "inserting" => Unasked(a.trig) = {}
      <4>1. SUFFICES ASSUME Cardinality(RunsInFlight(a.trig)) = 0 PROVE Unasked(a.trig) = {}
        BY <2>2, <3>1, MineFinite DEF Cancels
      <4>2. RunsInFlight(a.trig) = {} BY <2>2, <4>1, MineFinite, FS_EmptySet
      <4> QED BY <4>2 DEF Unasked, Mine, RunsInFlight
    <3>3. pc'[s] # "cancelling" BY <3>1
    <3>4. \A v \in Scheduler \ {s} : pc'[v] = pc[v] /\ cur'[v] = cur[v] BY <2>6 DEF TypeOK
    <3>5. Unasked(cur[s].trig)' = Unasked(a.trig)
      <4>1. Unasked(cur[s].trig)' = Unasked(a.trig)' BY <3>1 DEF Unasked, Mine
      <4> QED BY <2>2, <2>4, <4>1
    <3>6. OwnedBy(own)' BY <1>0, <2>3, <2>4, <3>1, <3>2, <3>3, <3>4, <3>5, OwnersLeft
    <3> QED BY <3>6 DEF Owned
  <2> QED BY <2>1, <2>5, <2>6
<1>4. ASSUME NEW s \in Scheduler, ListPrevious(s) PROVE Owned'
  <2>1. \A t \in Trigger : Unasked(t)' = Unasked(t) BY <1>4 DEF ListPrevious, Unasked, Mine, runVars
  <2>2. /\ victims' = [victims EXCEPT ![s] = RunsInFlight(cur[s].trig)]
        /\ pc' = [pc EXCEPT ![s] = IF victims'[s] = {} THEN "inserting" ELSE "cancelling"]
        /\ UNCHANGED <<cur, inserts>>
    BY <1>4 DEF ListPrevious
  <2>3. cur[s].trig \in Trigger BY DEF TypeOK, Slot
  <2>4. Unasked(cur[s].trig)' = Unasked(cur[s].trig) BY <2>2 , <2>3, <2>1 DEF Unasked, Mine
  <2>5. Unasked(cur[s].trig) \subseteq RunsInFlight(cur[s].trig) BY DEF Unasked, Mine, RunsInFlight
  <2>6. victims'[s] = RunsInFlight(cur[s].trig) BY <2>2 DEF TypeOK
  <2>7. pc'[s] = IF victims'[s] = {} THEN "inserting" ELSE "cancelling" BY <2>2 DEF TypeOK
  <2>8. \A v \in Scheduler \ {s} : pc'[v] = pc[v] /\ victims'[v] = victims[v] BY <2>2 DEF TypeOK
  <2>9. OwnedBy(own)' BY <1>0, <2>1, <2>2, <2>4, <2>5, <2>6, <2>7, <2>8, OwnersLeft
  <2> QED BY <2>9 DEF Owned
<1>5. ASSUME NEW s \in Scheduler, CancelPrevious(s) PROVE Owned'
  <2>1. PICK v \in victims[s] :
          /\ asked' = asked \cup {v}
          /\ victims' = [victims EXCEPT ![s] = @ \ {v}]
          /\ pc' = [pc EXCEPT ![s] = IF victims[s] = {v} THEN "inserting" ELSE @]
    BY <1>5 DEF CancelPrevious
  <2>2. pc[s] = "cancelling" /\ CommitRows(s) /\ UNCHANGED cur /\ inserts' = [inserts EXCEPT ![s] = {}]
    BY <1>5 DEF CancelPrevious
  <2>3. /\ v \in asked' /\ asked \subseteq asked' /\ victims'[s] = victims[s] \ {v}
        /\ pc'[s] = "inserting" => victims[s] = {v}
        /\ \A u \in Scheduler \ {s} : pc'[u] = pc[u] /\ victims'[u] = victims[u]
    BY <2>1, <2>2 DEF TypeOK
  <2> QED BY <1>0, <2>2, <2>3, OwnersCommit
<1>6. ASSUME NEW s \in Scheduler, InsertRow(s) PROVE Owned'
  <2>1. OwnedBy(own)' BY <1>0, <1>6, OwnersInsert
  <2> QED BY <2>1 DEF Owned
<1>7. ASSUME NEW s \in Scheduler, Commit(s) PROVE Owned'
  <2>1. /\ CommitRows(s) /\ UNCHANGED <<cur, asked, victims>>
        /\ inserts' = [inserts EXCEPT ![s] = {}]
        /\ pc'[s] = "idle" /\ \A u \in Scheduler \ {s} : pc'[u] = pc[u]
    BY <1>7 DEF Commit, TypeOK
  <2> QED BY <1>0, <2>1, OwnersCommit
<1>8. ASSUME NEW s \in Scheduler, Abandon(s) PROVE Owned'
  <2>1. \A t \in Trigger : Unasked(t)' = Unasked(t) BY <1>8 DEF Abandon, Unasked, Mine, runVars
  <2>2. pc'[s] = "idle" /\ \A v \in Scheduler \ {s} : pc'[v] = pc[v] /\ cur'[v] = cur[v] /\ victims'[v] = victims[v]
    BY <1>8 DEF Abandon, TypeOK
  <2>3. \A v \in Scheduler : inserts'[v] \subseteq inserts[v] BY <1>8 DEF Abandon, TypeOK
  <2>4. OwnedBy(own)' BY <1>0, <2>1, <2>2, <2>3, OwnersLeft
  <2> QED BY <2>4 DEF Owned
<1> QED BY <1>1, <1>2, <1>3, <1>4, <1>5, <1>6, <1>7, <1>8, SessionCases

\* Under cancel_previous no more scheduled runs go on unasked than there are
\* processes, and under every policy the policy is kept.
THEOREM PolicyNeverBroken == Spec => []PolicyKept
<1>1. Init => Owned BY InitOwned
<1>2. SInv /\ Owned /\ [Next]_vars => Owned' BY NextOwned DEF SInv
<1>3. Owned => UnaskedPerProcess
  <2> SUFFICES ASSUME Owned, NEW t \in Trigger, Cancels(t)
               PROVE  Cardinality({k \in RunsInFlight(t) : k[1] = "slot" /\ k \notin asked})
                        <= Cardinality(Scheduler)
    BY DEF UnaskedPerProcess, Cancels
  <2>1. {k \in RunsInFlight(t) : k[1] = "slot" /\ k \notin asked} = Unasked(t)
    BY DEF RunsInFlight, Unasked, Mine
  <2>2. PICK own : OwnedBy(own) BY DEF Owned
  <2> DEFINE f == [k \in Unasked(t) |-> own[k]]
  <2>3. f \in Injection(Unasked(t), Scheduler) BY <2>2 DEF OwnedBy, Injection, IsInjective
  <2> QED BY <2>1, <2>3, FS_Injection, SchedulerAssumption DEF SchedulerAssumption
<1>4. UnaskedPerProcess /\ OverlapBounded => PolicyKept BY DEF PolicyKept
<1> QED BY <1>1, <1>2, <1>3, <1>4, StaysRoomy, OverlapKept, PTL DEF Spec

-----------------------------------------------------------------------------
(* No slot between its clock and its row.                                  *)

\* The slot has its run or its skip in the table; it is being fired; or a
\* session has inserted its row.
HasRow(a) == \E k \in Fired : k[2] = a.trig /\ slotOf[k] = a.slot
InFire(s, a) == Busy(s) /\ cur[s] = a
Written(s, a) == \E n \in inserts[s] : n.key[2] = a.trig /\ n.slot = a.slot

\* A clock a session has advanced and not committed goes with the slot it is
\* firing or with a row it has inserted.
ClocksMatched ==
  \A s \in Scheduler : \A c \in clocks[s] :
    c.owed => LET a == [trig |-> c.trig, slot |-> c.slot] IN InFire(s, a) \/ Written(s, a)

\* Unless its policy is to stop earlier runs, the clock of a slot has landed
\* with its row.
RowWithClock ==
  \A a \in passed : ~Cancels(a.trig) => HasRow(a)

\* A tick ends without its commit while it fires a slot of a trigger that stops
\* earlier runs, or has inserted one.
TornTick ==
  \E s \in Scheduler :
    /\ Abandon(s)
    /\ \/ Busy(s) /\ Cancels(cur[s].trig)
       \/ \E n \in inserts[s] : Cancels(n.key[2])

\* A row stays, with its slot.
LEMMA FiredStays ==
  ASSUME IInv, [Next]_vars, NEW k \in Fired
  PROVE  k \in Fired' /\ slotOf'[k] = slotOf[k]
<1>1. k \in Key /\ k[1] = "slot" /\ status[k] # "none" BY DEF Fired
<1>2. CASE RowStep
  <2>1. CASE UNCHANGED runVars BY <1>1, <2>1 DEF runVars, Fired
  <2>2. ASSUME NEW j \in Key, QueueTakes(j) \/ QueueEnds(j)
        PROVE  k \in Fired' /\ slotOf'[k] = slotOf[k]
    BY <1>1, <2>2 DEF QueueTakes, QueueEnds, IInv, TypeOK, Fired
  <2>3. ASSUME NEW t \in Trigger, StartRun(t) PROVE k \in Fired' /\ slotOf'[k] = slotOf[k]
    <3>1. <<"manual", t, clock>> # k BY <1>1
    <3> QED BY <1>1, <2>3, <3>1 DEF StartRun, IInv, TypeOK, Fired
  <2> QED BY <1>2, <2>1, <2>2, <2>3 DEF RowStep
<1>3. CASE \E s \in Scheduler : InsertRow(s) BY <1>1, <1>3 DEF InsertRow, runVars, Fired
<1>4. CASE \E s \in Scheduler : CommitRows(s) BY <1>1, <1>4, CommitAdds DEF Fired
<1> QED BY <1>2, <1>3, <1>4, StepCases DEF IInv

LEMMA RowStays ==
  ASSUME IInv, [Next]_vars, NEW a, HasRow(a)
  PROVE  HasRow(a)'
<1>1. PICK k \in Fired : k[2] = a.trig /\ slotOf[k] = a.slot BY DEF HasRow
<1>2. k \in Fired' /\ slotOf'[k] = slotOf[k] BY FiredStays
<1> QED BY <1>1, <1>2 DEF HasRow

\* What a session has inserted its commit puts in the table.
LEMMA WrittenLands ==
  ASSUME IInv, NEW s \in Scheduler, CommitRows(s), NEW a, Written(s, a)
  PROVE  HasRow(a)'
<1>1. PICK n \in inserts[s] : n.key[2] = a.trig /\ n.slot = a.slot BY DEF Written
<1> DEFINE new == {m \in inserts[s] : m.key = n.key}
           one == CHOOSE m \in new : TRUE
<1>2. n.key \in Key /\ n.key[1] = "slot" /\ n.key[3] = n.slot /\ status[n.key] = "none"
  BY DEF IInv, InsertsFresh, TypeOK, NewRow
<1>3. status'[n.key] = (IF new = {} THEN status[n.key] ELSE one.status)
  BY <1>2 DEF CommitRows
<1>4. new # {} /\ one \in inserts[s] OBVIOUS
<1>5. one.status \in {"queued", "skipped"} BY <1>4 DEF IInv, TypeOK, NewRow
<1>6. status'[n.key] # "none" BY <1>3, <1>4, <1>5
<1>7. slotOf'[n.key] = n.slot BY <1>2, <1>6, CommitAdds
<1> QED BY <1>1, <1>2, <1>6, <1>7 DEF HasRow, Fired

\* A session that deals with a slot goes on dealing with it, commits its row, or
\* ends without its commit.
LEMMA SlotKept ==
  ASSUME IInv, Sessions, [Next]_vars, NEW s \in Scheduler, NEW a, InFire(s, a) \/ Written(s, a)
  PROVE  InFire(s, a)' \/ Written(s, a)' \/ (HasRow(a)' /\ clocks'[s] = {}) \/ Abandon(s)
<1> USE DEF IInv
<1>1. CASE RowStep /\ UNCHANGED <<tickVars, lock, passed>>
  BY <1>1 DEF tickVars, InFire, Written, Busy
<1>2. ASSUME NEW v \in Scheduler, v # s,
             Claim(v) \/ Fire(v) \/ ListPrevious(v) \/ CancelPrevious(v) \/ InsertRow(v)
             \/ Commit(v) \/ Abandon(v)
      PROVE  InFire(s, a)' \/ Written(s, a)'
  <2>1. pc'[s] = pc[s] /\ cur'[s] = cur[s] /\ inserts'[s] = inserts[s]
    BY <1>2 DEF Claim, Fire, ListPrevious, CancelPrevious, InsertRow, Commit, Abandon, TypeOK
  <2> QED BY <2>1 DEF InFire, Written, Busy
<1>3. CASE Claim(s)
  BY <1>3 DEF Claim, InFire, Written, Busy
<1>4. CASE Fire(s)
  BY <1>4 DEF Fire, InFire, Written, Busy
<1>5. CASE ListPrevious(s)
  <2>1. UNCHANGED <<cur, inserts>> /\ pc'[s] \in {"inserting", "cancelling"}
    BY <1>5 DEF ListPrevious, TypeOK
  <2> QED BY <2>1 DEF InFire, Written, Busy
<1>6. CASE CancelPrevious(s)
  <2>1. UNCHANGED cur /\ pc'[s] \in {"inserting", "cancelling"} /\ CommitRows(s)
        /\ clocks'[s] = {}
    BY <1>6 DEF CancelPrevious, TypeOK
  <2> QED BY <2>1, WrittenLands DEF InFire, Busy
<1>7. CASE InsertRow(s)
  <2> DEFINE n == [key |-> SlotKey(cur[s], moment[s]), slot |-> cur[s].slot,
                   status |-> IF skip[s] \/ ~flow[cur[s].trig].published
                              THEN "skipped" ELSE "queued"]
  <2>1. inserts' = [inserts EXCEPT ![s] = @ \cup {n}] BY <1>7 DEF InsertRow
  <2>2. n.key[2] = cur[s].trig /\ n.slot = cur[s].slot BY DEF SlotKey
  <2> HIDE DEF n
  <2>3. inserts'[s] = inserts[s] \cup {n} BY <2>1 DEF TypeOK
  <2> QED BY <2>2, <2>3 DEF InFire, Written
<1>8. CASE Commit(s)
  <2>1. CommitRows(s) /\ pc[s] = "picking" /\ clocks'[s] = {} BY <1>8 DEF Commit, TypeOK
  <2> QED BY <2>1, WrittenLands DEF InFire, Busy
<1> QED BY <1>1, <1>2, <1>3, <1>4, <1>5, <1>6, <1>7, <1>8, SessionCases

LEMMA NextMatched ==
  IInv /\ Sessions /\ ClocksMatched /\ [Next]_vars => ClocksMatched'
<1> SUFFICES ASSUME IInv, Sessions, ClocksMatched, [Next]_vars,
                    NEW s \in Scheduler, NEW c \in clocks'[s], c.owed
             PROVE  LET a == [trig |-> c.trig, slot |-> c.slot]
                    IN InFire(s, a)' \/ Written(s, a)'
  BY DEF ClocksMatched
<1> DEFINE a == [trig |-> c.trig, slot |-> c.slot]
<1> USE DEF IInv
<1>1. CASE c \in clocks[s]
  <2>1. InFire(s, a) \/ Written(s, a) BY <1>1 DEF ClocksMatched
  <2>2. ~Abandon(s) BY DEF Abandon, TypeOK
  <2> QED BY <2>1, <2>2, SlotKept
<1>2. CASE c \notin clocks[s]
  <2>1. Fire(s)
    <3>1. ASSUME NEW v \in Scheduler,
                 \/ Claim(v) \/ ListPrevious(v) \/ InsertRow(v) \/ CancelPrevious(v)
                 \/ Commit(v) \/ Abandon(v) \/ (v # s /\ Fire(v))
          PROVE  clocks'[s] \subseteq clocks[s]
      BY <3>1 DEF Claim, ListPrevious, InsertRow, CancelPrevious, Commit, Abandon, Fire, TypeOK
    <3>2. ~ UNCHANGED tickVars BY <1>2 DEF tickVars
    <3> QED BY <1>2, <3>1, <3>2, SessionCases
  <2>2. PICK b \in todo[s] :
          /\ clocks' = [clocks EXCEPT ![s] = @ \cup
                          {[trig |-> b.trig, slot |-> b.slot, owed |-> flow[b.trig].active]}]
          /\ flow[b.trig].active =>
               /\ cur' = [cur EXCEPT ![s] = b]
               /\ \E to \in {"listing", "inserting"} : pc' = [pc EXCEPT ![s] = to]
    BY <2>1 DEF Fire
  <2>3. b \in Slot BY DEF TypeOK
  <2>4. c = [trig |-> b.trig, slot |-> b.slot, owed |-> flow[b.trig].active]
    BY <1>2, <2>2 DEF TypeOK
  <2>5. a = b BY <2>3, <2>4 DEF Slot
  <2>6. cur'[s] = b /\ pc'[s] \in {"listing", "inserting"} BY <2>2, <2>4 DEF TypeOK
  <2> QED BY <2>5, <2>6 DEF InFire, Busy
<1> QED BY <1>1, <1>2

\* The slots a commit goes past are those its session fires or has written.
LEMMA PassedCases ==
  ASSUME IInv, Sessions, ClocksMatched, [Next]_vars, NEW a \in passed', a \notin passed
  PROVE  \E s \in Scheduler :
           /\ CommitRows(s)
           /\ \/ Written(s, a)
              \/ InFire(s, a) /\ InFire(s, a)' /\ Cancels(a.trig)
<1>1. PICK s \in Scheduler : CancelPrevious(s) \/ Commit(s)
  <2>1. ASSUME NEW s \in Scheduler,
               Claim(s) \/ Fire(s) \/ ListPrevious(s) \/ InsertRow(s) \/ Abandon(s)
        PROVE  passed' = passed
    BY <2>1 DEF Claim, Fire, ListPrevious, InsertRow, Abandon, Rollback
  <2> QED BY <2>1, SessionCases
<1>2. CommitSession(s) /\ CommitRows(s) BY <1>1 DEF CancelPrevious, Commit
<1>3. PICK c \in clocks[s] : c.owed /\ a = [trig |-> c.trig, slot |-> c.slot]
  BY <1>2 DEF CommitSession
<1>4. InFire(s, a) \/ Written(s, a) BY <1>3 DEF ClocksMatched
<1>5. CASE InFire(s, a)
  <2>1. pc[s] = "cancelling" /\ CancelPrevious(s)
    BY <1>1, <1>5 DEF CancelPrevious, Commit, InFire, Busy
  <2>2. Cancels(a.trig) BY <1>5, <2>1 DEF InFire, Sessions, OnlyCancelsStop
  <2>3. UNCHANGED cur /\ pc'[s] \in {"cancelling", "inserting"}
    BY <2>1 DEF CancelPrevious, IInv, TypeOK
  <2>4. InFire(s, a)' BY <1>5, <2>3 DEF InFire, Busy
  <2> QED BY <1>2, <1>5, <2>2, <2>4
<1> QED BY <1>2, <1>4, <1>5

LEMMA NextRowWithClock ==
  IInv /\ Sessions /\ ClocksMatched /\ RowWithClock /\ [Next]_vars => RowWithClock'
<1> SUFFICES ASSUME IInv, Sessions, ClocksMatched, RowWithClock, [Next]_vars,
                    NEW a \in passed', ~Cancels(a.trig)
             PROVE  HasRow(a)'
  BY DEF RowWithClock, Cancels
<1>1. CASE a \in passed BY <1>1, RowStays DEF RowWithClock
<1>2. CASE a \notin passed BY <1>2, PassedCases, WrittenLands
<1> QED BY <1>1, <1>2

LEMMA NextAccounted ==
  IInv /\ Sessions /\ ClocksMatched /\ RowWithClock /\ SlotAccounted /\ [Next]_vars /\ ~TornTick
    => SlotAccounted'
<1> SUFFICES ASSUME IInv, Sessions, ClocksMatched, RowWithClock, SlotAccounted, [Next]_vars,
                    ~TornTick, NEW a \in passed'
             PROVE  HasRow(a)' \/ \E s \in Scheduler : InFire(s, a)' \/ Written(s, a)'
  BY DEF SlotAccounted, HasRow, InFire, Written, Busy
<1>1. CASE a \notin passed BY <1>1, PassedCases, WrittenLands
<1>2. CASE a \in passed /\ HasRow(a) BY <1>2, RowStays
<1>3. ASSUME NEW s \in Scheduler, a \in passed, InFire(s, a) \/ Written(s, a)
      PROVE  HasRow(a)' \/ InFire(s, a)' \/ Written(s, a)'
  <2>1. CASE Abandon(s)
    <3>1. ~Cancels(a.trig) BY <1>3, <2>1 DEF TornTick, InFire, Written
    <3> QED BY <1>3, <3>1, RowStays DEF RowWithClock
  <2>2. CASE ~Abandon(s) BY <1>3, <2>2, SlotKept
  <2> QED BY <2>1, <2>2
<1>4. a \in passed => HasRow(a) \/ \E s \in Scheduler : InFire(s, a) \/ Written(s, a)
  BY DEF SlotAccounted, HasRow, InFire, Written, Busy
<1> QED BY <1>1, <1>2, <1>3, <1>4

LEMMA StaysMatched == Spec => [](SInv /\ ClocksMatched /\ RowWithClock)
<1>1. Init => ClocksMatched /\ RowWithClock BY DEF Init, ClocksMatched, RowWithClock
<1>2. SInv /\ ClocksMatched /\ RowWithClock /\ [Next]_vars => ClocksMatched' /\ RowWithClock'
  BY NextMatched, NextRowWithClock DEF SInv
<1> QED BY <1>1, <1>2, StaysRoomy, PTL DEF Spec

\* A slot the clock went past has its run or its skip, or is still being fired,
\* unless a tick ended between the commit of a request_stop and its own: for a
\* trigger that skips or queues the clock and the row land in one commit.
THEOREM NoSlotLost == Spec /\ [][~TornTick]_vars => []SlotAccounted
<1>1. Init => SlotAccounted BY DEF Init, SlotAccounted
<1>2. SInv /\ ClocksMatched /\ RowWithClock /\ SlotAccounted /\ [Next]_vars /\ [~TornTick]_vars
        => SlotAccounted'
  <2>1. CASE UNCHANGED vars
    BY <2>1 DEF vars, SlotAccounted, Fired
  <2>2. CASE ~TornTick BY <2>2, NextAccounted DEF SInv
  <2> QED BY <2>1, <2>2
<1> QED BY <1>1, <1>2, StaysMatched, PTL DEF Spec

\* So with no trigger that stops its earlier runs no slot is lost at all, by a
\* crash, by a call that raises or by the unique index.
THEOREM NoSlotLostWithoutCancel ==
  ASSUME \A t \in Trigger : ~Cancels(t)
  PROVE  Spec => []SlotAccounted
<1>1. TypeOK => ~TornTick BY DEF TornTick, TypeOK, Slot, NewRow, Key
<1>2. TypeOK /\ [Next]_vars => [~TornTick]_vars BY <1>1
<1> QED BY <1>2, TypeCorrect, NoSlotLost, PTL DEF Spec

-----------------------------------------------------------------------------
(* An interval between the rows of a schedule.                             *)

\* A tick goes on to a trigger whose row a commit of request_stop has let go.
Retakes == \E s \in Scheduler, t \in Trigger : Fire(s) /\ lock[t] # s /\ lock'[t] = s

\* No time a session or a row has is to come.
TimesPast ==
  /\ \A s \in Scheduler : moment[s] <= clock
  /\ \A t \in Trigger : last[t] # Never => last[t] <= clock
  /\ \A r \in Editor : \A e \in edit[r] : e.last # Never => e.last <= clock

\* The row a session holds was last fired before the session began.
LocksLive ==
  \A t \in Trigger, s \in Scheduler :
    lock[t] = s => pc[s] # "idle" /\ (last[t] # Never => last[t] <= moment[s])

\* What a session is to fire, or has advanced the clock of, is due; nobody else
\* changes next_run_at while it holds the row.
SlotsCurrent ==
  \A s \in Scheduler :
    /\ \A a \in todo[s] :
         lock[a.trig] = s => next[a.trig] = a.slot /\ a.slot <= moment[s]
    /\ \A c \in clocks[s] :
         lock[c.trig] = s /\ next[c.trig] = c.slot /\ c.slot <= moment[s]

\* An edit under way has read one row, and computes from it.
EditsApart ==
  \A r \in Editor :
    /\ \A e, f \in edit[r] : e = f
    /\ edit[r] = {} => toward[r] = {}
    /\ \A e \in edit[r], to \in toward[r] :
         to # Never /\ e.last # Never => to >= e.last + Interval[e.trig]

\* The slots gone past are no later than the last firing, an interval apart, and
\* an interval before the next one.
SlotsApart ==
  /\ \A a \in passed : last[a.trig] # Never /\ a.slot <= last[a.trig]
  /\ \A a, b \in passed :
       a.trig = b.trig /\ a.trig \notin raced /\ a.slot < b.slot =>
         b.slot - a.slot >= Interval[a.trig]
  /\ \A t \in Trigger \ raced :
       last[t] # Never /\ next[t] # Never => next[t] >= last[t] + Interval[t]

\* A row, and what is to become one, is of a slot the clock has gone past or of
\* one whose clock its session advances.
RowsOfPassed ==
  /\ \A k \in Fired : [trig |-> k[2], slot |-> k[3]] \in passed
  /\ \A s \in Scheduler, a \in Slot :
       InFire(s, a) \/ Written(s, a) =>
         \/ a \in passed
         \/ \E c \in clocks[s] : c.owed /\ c.trig = a.trig /\ c.slot = a.slot

Spacing ==
  TimesPast /\ LocksLive /\ SlotsCurrent /\ EditsApart /\ SlotsApart /\ RowsOfPassed

LEMMA NextSlotApart ==
  ASSUME NEW at \in Nat, NEW i \in Nat \ {0}, NEW anchor \in Nat, anchor <= at
  PROVE  NextSlotAfter(at, i, anchor) >= anchor + i
<1> DEFINE q == (at - anchor) \div i
<1>1. q \in Nat BY DEF q
<1>2. anchor # Never /\ ~(anchor > at) BY SchedulerAssumption DEF SchedulerAssumption
<1>3. NextSlotAfter(at, i, anchor) = anchor + (q + 1) * i BY <1>2 DEF NextSlotAfter
<1> HIDE DEF q
<1>4. (q + 1) * i = q * i + i /\ q * i \in Nat BY <1>1
<1> QED BY <1>3, <1>4

LEMMA TimeNat == Time \subseteq Nat /\ Never \notin Time /\ \A t \in Trigger : Interval[t] \in Nat \ {0}
  BY SchedulerAssumption, ZeroIsTime DEF SchedulerAssumption

LEMMA InitSpacing == Init => Spacing
<1> SUFFICES ASSUME Init PROVE Spacing OBVIOUS
<1> USE SchedulerAssumption DEF SchedulerAssumption, Init
<1>1. TimesPast BY ZeroIsTime DEF TimesPast
<1>2. LocksLive BY DEF LocksLive
<1>3. SlotsCurrent BY DEF SlotsCurrent
<1>4. EditsApart BY DEF EditsApart
<1>5. SlotsApart
  <2>1. \A t \in Trigger : next[t] = Interval[t] /\ last[t] \in {0, Never}
    BY DEF NextSlotAfter
  <2> QED BY <2>1 DEF SlotsApart
<1>6. RowsOfPassed BY DEF RowsOfPassed, Fired, InFire, Busy, Written
<1> QED BY <1>1, <1>2, <1>3, <1>4, <1>5, <1>6 DEF Spacing

\* A step that only moves rows of runs on, lets time pass, or looks for runs to
\* stop.
Quiet ==
  /\ RowStep
  /\ clock' \in {clock, clock + 1}
  /\ UNCHANGED <<next, last, lock, cur, moment, todo, clocks, inserts, edit, toward, passed, raced>>
  /\ \A s \in Scheduler : (pc'[s] = "idle" <=> pc[s] = "idle") /\ (Busy(s)' <=> Busy(s))

LEMMA SpacingCases ==
  ASSUME TypeOK, [Next]_vars
  PROVE  \/ Quiet
         \/ \E s \in Scheduler : \/ Claim(s) \/ Fire(s) \/ InsertRow(s) \/ Abandon(s)
                                 \/ CancelPrevious(s) \/ Commit(s)
         \/ \E r \in Editor : (\E t \in Trigger : EditReads(r, t)) \/ EditComputes(r) \/ EditWrites(r)
<1> USE DEF trigVars, tickVars, requests, RowStep
<1>1. CASE TimePasses BY <1>1 DEF TimePasses, Quiet, Busy
<1>2. ASSUME NEW s \in Scheduler, TickStep(s) \/ Crash(s) \/ FireFaults(s)
      PROVE  \/ Quiet
             \/ Claim(s) \/ Fire(s) \/ InsertRow(s) \/ Abandon(s) \/ CancelPrevious(s) \/ Commit(s)
  <2>1. CASE ListPrevious(s)
    <3>1. /\ pc[s] = "listing" /\ pc'[s] \in {"inserting", "cancelling"}
          /\ \A v \in Scheduler \ {s} : pc'[v] = pc[v]
      BY <2>1 DEF ListPrevious, TypeOK
    <3> QED BY <2>1, <3>1 DEF ListPrevious, Quiet, Busy
  <2> QED BY <1>2, <2>1 DEF TickStep, InsertRefused, Crash, FireFaults
<1>3. ASSUME NEW k \in Key, QueueTakes(k) \/ QueueEnds(k) PROVE Quiet
  BY <1>3 DEF QueueTakes, QueueEnds, Quiet, Busy
<1>4. ASSUME NEW t \in Trigger, StartRun(t) PROVE Quiet
  BY <1>4 DEF StartRun, Quiet, Busy
<1>5. ASSUME NEW t \in Trigger,
             SwitchReads(t) \/ SwitchOn(t) \/ SwitchOff(t) \/ PublishFlow(t) \/ UnpublishFlow(t)
      PROVE  Quiet
  BY <1>5 DEF SwitchReads, SwitchOn, SwitchOff, PublishFlow, UnpublishFlow, EditFlow, Quiet, Busy
<1>6. CASE UNCHANGED vars BY <1>6 DEF vars, runVars, Quiet, Busy
<1> QED BY <1>1, <1>2, <1>3, <1>4, <1>5, <1>6 DEF Next

LEMMA SameFired ==
  ASSUME TypeOK, RowStep
  PROVE  Fired' = Fired
<1> SUFFICES ASSUME NEW k \in Key, k[1] = "slot" PROVE status'[k] = "none" <=> status[k] = "none"
  BY DEF Fired
<1>1. CASE UNCHANGED runVars BY <1>1 DEF runVars
<1>2. ASSUME NEW j \in Key, QueueTakes(j) \/ QueueEnds(j)
      PROVE  status'[k] = "none" <=> status[k] = "none"
  BY <1>2 DEF QueueTakes, QueueEnds, TypeOK
<1>3. ASSUME NEW t \in Trigger, StartRun(t) PROVE status'[k] = status[k]
  <2>1. <<"manual", t, clock>> # k OBVIOUS
  <2> QED BY <1>3, <2>1 DEF StartRun, TypeOK
<1> QED BY <1>1, <1>2, <1>3 DEF RowStep

LEMMA EditTimes ==
  ASSUME TypeOK, NEW r \in Editor, NEW e \in edit[r]
  PROVE  e.trig \in Trigger /\ (e.last # Never => e.last \in Nat)
<1>1. e \in Edit BY DEF TypeOK
<1>2. e.trig \in Trigger /\ e.last \in Time \cup {Never} BY <1>1 DEF Edit
<1> QED BY <1>2, TimeNat

LEMMA QuietSpacing == ASSUME TypeOK, Spacing, Quiet PROVE Spacing'
<1> USE DEF Quiet, Spacing
<1>1. TimesPast'
  <2>1. clock \in Nat /\ \A s \in Scheduler : moment[s] \in Nat BY TimeNat DEF TypeOK
  <2>2. \A t \in Trigger : last[t] # Never => last[t] \in Nat BY TimeNat DEF TypeOK
  <2>3. \A r \in Editor : \A e \in edit[r] : e.last # Never => e.last \in Nat
    BY EditTimes
  <2>4. clock <= clock' /\ clock' \in Nat /\ UNCHANGED <<last, moment, edit>> BY <2>1
  <2> HIDE DEF Quiet
  <2>5. \A v \in Scheduler : moment'[v] <= clock' BY <2>1, <2>4 DEF TimesPast
  <2>6. \A t \in Trigger : last'[t] # Never => last'[t] <= clock' BY <2>1, <2>2, <2>4 DEF TimesPast
  <2>7. ASSUME NEW r \in Editor, NEW e \in edit[r], e.last # Never PROVE e.last <= clock'
    <3>1. e.last <= clock /\ e.last \in Nat BY <2>3, <2>7 DEF TimesPast
    <3> QED BY <2>1, <2>4, <3>1
  <2> QED BY <2>4, <2>5, <2>6, <2>7 DEF TimesPast
<1>2. LocksLive' BY DEF LocksLive
<1>3. SlotsCurrent' BY DEF SlotsCurrent
<1>4. EditsApart' BY DEF EditsApart
<1>5. SlotsApart' BY DEF SlotsApart
<1>6. RowsOfPassed' BY SameFired DEF RowsOfPassed, InFire, Written
<1> QED BY <1>1, <1>2, <1>3, <1>4, <1>5, <1>6

\* The end of a session without its commit leaves the rows as they were.
LEMMA AbandonSpacing ==
  ASSUME TypeOK, Spacing, NEW s \in Scheduler, Abandon(s)
  PROVE  Spacing'
<1> USE DEF Spacing
<1>1. /\ UNCHANGED <<clock, next, last, passed, edit, toward, raced>> /\ RowStep
      /\ lock' = [t \in Trigger |-> IF lock[t] = s THEN NoScheduler ELSE lock[t]]
  BY AbandonKeeps DEF Abandon, Rollback, requests
<1>2. /\ moment'[s] = 0 /\ pc'[s] = "idle" /\ todo'[s] = {} /\ clocks'[s] = {} /\ inserts'[s] = {}
      /\ \A v \in Scheduler \ {s} :
           /\ moment'[v] = moment[v] /\ pc'[v] = pc[v] /\ cur'[v] = cur[v]
           /\ todo'[v] = todo[v] /\ clocks'[v] = clocks[v] /\ inserts'[v] = inserts[v]
  BY DEF Abandon, TypeOK
<1>3. TimesPast'
  <2>1. 0 <= clock BY TimeNat DEF TypeOK
  <2> QED BY <1>1, <1>2, <2>1 DEF TimesPast
<1>4. \A t \in Trigger, v \in Scheduler : lock'[t] = v <=> v # s /\ lock[t] = v
  BY <1>1, SchedulerAssumption DEF SchedulerAssumption
<1>5. LocksLive' BY <1>1, <1>2, <1>4 DEF LocksLive
<1>6. SlotsCurrent'
  <2>1. \A v \in Scheduler : \A a \in todo[v] : a.trig \in Trigger BY DEF TypeOK, Slot
  <2>2. \A v \in Scheduler : \A c \in clocks[v] : c.trig \in Trigger BY DEF TypeOK, Advance
  <2>3. ASSUME NEW v \in Scheduler, v # s, NEW a \in todo'[v], lock'[a.trig] = v
        PROVE  next'[a.trig] = a.slot /\ a.slot <= moment'[v]
    BY <1>1, <1>2, <1>4, <2>1, <2>3 DEF SlotsCurrent
  <2>4. ASSUME NEW v \in Scheduler, v # s, NEW c \in clocks'[v]
        PROVE  lock'[c.trig] = v /\ next'[c.trig] = c.slot /\ c.slot <= moment'[v]
    BY <1>1, <1>2, <1>4, <2>2, <2>4 DEF SlotsCurrent
  <2> QED BY <1>2, <2>3, <2>4 DEF SlotsCurrent
<1>7. EditsApart' BY <1>1 DEF EditsApart
<1>8. SlotsApart' BY <1>1 DEF SlotsApart
<1>9. RowsOfPassed' BY <1>1, <1>2, SameFired DEF RowsOfPassed, InFire, Written, Busy
<1> QED BY <1>3, <1>5, <1>6, <1>7, <1>8, <1>9

LEMMA ClaimSpacing ==
  ASSUME TypeOK, Sessions, Spacing, NEW s \in Scheduler, Claim(s)
  PROVE  Spacing'
<1> USE DEF Spacing
<1>1. PICK batch \in SUBSET Due :
        /\ lock' = [t \in Trigger |-> IF t \in batch THEN s ELSE lock[t]]
        /\ todo' = [todo EXCEPT ![s] = {[trig |-> t, slot |-> next[t]] : t \in batch}]
  BY DEF Claim
<1>2. /\ pc[s] = "idle" /\ pc' = [pc EXCEPT ![s] = "picking"]
      /\ moment' = [moment EXCEPT ![s] = clock]
      /\ UNCHANGED <<clock, next, last, runVars, cur, clocks, inserts, edit, toward, passed, raced>>
  BY DEF Claim, requests
<1>3. /\ moment'[s] = clock /\ pc'[s] = "picking"
      /\ \A v \in Scheduler \ {s} :
           moment'[v] = moment[v] /\ pc'[v] = pc[v] /\ todo'[v] = todo[v]
  BY <1>1, <1>2 DEF TypeOK
<1>4. \A t \in batch : lock[t] = NoScheduler /\ next[t] <= clock /\ t \in Trigger
  BY DEF Due, Free
<1>5. TimesPast'
  <2>1. clock <= clock BY TimeNat DEF TypeOK
  <2> QED BY <1>2, <1>3, <2>1 DEF TimesPast
\* A row that was held is held as before, and s held none.
<1>6. /\ \A t \in Trigger, v \in Scheduler : v # s => (lock'[t] = v <=> lock[t] = v)
      /\ \A t \in Trigger : lock'[t] = s <=> t \in batch
  BY <1>1, <1>2, <1>4, SchedulerAssumption DEF SchedulerAssumption, LocksLive
<1>7. LocksLive' BY <1>2, <1>3, <1>6 DEF LocksLive, TimesPast
<1>8. SlotsCurrent'
  <2>1. \A v \in Scheduler : \A a \in todo[v] : a.trig \in Trigger BY DEF TypeOK, Slot
  <2>2. \A v \in Scheduler : \A c \in clocks[v] : c.trig \in Trigger BY DEF TypeOK, Advance
  <2>3. clocks[s] = {} BY <1>2 DEF Sessions, IdleIsEmpty
  <2>4. \A a \in todo'[s] : next[a.trig] = a.slot /\ a.slot <= clock
    BY <1>1, <1>4 DEF TypeOK
  <2>5. ASSUME NEW v \in Scheduler, v # s
        PROVE  /\ \A a \in todo[v] :
                    lock'[a.trig] = v => next[a.trig] = a.slot /\ a.slot <= moment[v]
               /\ \A c \in clocks[v] :
                    lock'[c.trig] = v /\ next[c.trig] = c.slot /\ c.slot <= moment[v]
    BY <1>6, <2>1, <2>2, <2>5 DEF SlotsCurrent
  <2> QED BY <1>2, <1>3, <2>3, <2>4, <2>5 DEF SlotsCurrent
<1>9. EditsApart' BY <1>2 DEF EditsApart
<1>10. SlotsApart' BY <1>2 DEF SlotsApart
<1>11. RowsOfPassed' BY <1>2, <1>3, SameFired DEF RowsOfPassed, InFire, Written, Busy, RowStep
<1> QED BY <1>5, <1>7, <1>8, <1>9, <1>10, <1>11

\* A tick fires a slot of a row it still holds: the slot is the one that is due.
LEMMA FireSpacing ==
  ASSUME TypeOK, Spacing, NEW s \in Scheduler, Fire(s), ~Retakes
  PROVE  Spacing'
<1> USE DEF Spacing
<1>1. PICK a \in todo[s] :
        /\ lock' = [lock EXCEPT ![a.trig] = s]
        /\ todo' = [todo EXCEPT ![s] = @ \ {a}]
        /\ clocks' = [clocks EXCEPT ![s] = @ \cup
                        {[trig |-> a.trig, slot |-> a.slot, owed |-> flow[a.trig].active]}]
        /\ \/ UNCHANGED <<pc, cur>>
           \/ /\ flow[a.trig].active /\ cur' = [cur EXCEPT ![s] = a]
              /\ \E to \in {"listing", "inserting"} : pc' = [pc EXCEPT ![s] = to]
  BY DEF Fire
<1> DEFINE c == [trig |-> a.trig, slot |-> a.slot, owed |-> flow[a.trig].active]
<1>2. /\ pc[s] = "picking"
      /\ UNCHANGED <<clock, next, last, runVars, moment, inserts, edit, toward, passed, raced>>
  BY DEF Fire, requests
<1>3. a \in Slot /\ a.trig \in Trigger BY DEF TypeOK, Slot
<1>4. lock[a.trig] = s /\ lock' = lock
  <2>1. lock'[a.trig] = s BY <1>1, <1>3 DEF TypeOK
  <2>2. lock[a.trig] = s BY <1>3, <2>1 DEF Retakes
  <2> QED BY <1>1, <1>3, <2>2 DEF TypeOK
<1>5. /\ todo'[s] \subseteq todo[s] /\ clocks'[s] = clocks[s] \cup {c} /\ pc'[s] # "idle"
      /\ \A v \in Scheduler \ {s} :
           /\ todo'[v] = todo[v] /\ clocks'[v] = clocks[v] /\ pc'[v] = pc[v] /\ cur'[v] = cur[v]
  BY <1>1, <1>2 DEF TypeOK
<1>6. next[c.trig] = c.slot /\ c.slot <= moment[s] /\ lock[c.trig] = s
  BY <1>4 DEF SlotsCurrent
<1>7. InFire(s, cur[s])' => cur'[s] = a /\ c.owed
  BY <1>1, <1>2 DEF InFire, Busy, TypeOK
<1>8. c.trig = a.trig /\ c.slot = a.slot OBVIOUS
<1> HIDE DEF c
<1>9. TimesPast' BY <1>2 DEF TimesPast
<1>10. LocksLive' BY <1>2, <1>4, <1>5 DEF LocksLive
<1>11. SlotsCurrent' BY <1>2, <1>4, <1>5, <1>6 DEF SlotsCurrent
<1>12. EditsApart' BY <1>2 DEF EditsApart
<1>13. SlotsApart' BY <1>2 DEF SlotsApart
<1>14. RowsOfPassed'
  <2>1. Fired' = Fired BY <1>2, SameFired DEF RowStep
  <2>2. ASSUME NEW v \in Scheduler, NEW b \in Slot, InFire(v, b)' \/ Written(v, b)'
        PROVE  \/ b \in passed
               \/ \E d \in clocks'[v] : d.owed /\ d.trig = b.trig /\ d.slot = b.slot
    <3>1. CASE v # s
      BY <1>2, <1>5, <2>2, <3>1 DEF RowsOfPassed, InFire, Written, Busy
    <3>2. CASE v = s /\ Written(v, b)'
      BY <1>2, <1>5, <3>2 DEF RowsOfPassed, Written
    <3>3. CASE v = s /\ InFire(v, b)'
      <4>1. b = a /\ c.owed BY <1>7, <3>3 DEF InFire, Busy
      <4> QED BY <1>5, <1>8, <3>3, <4>1
    <3> QED BY <2>2, <3>1, <3>2, <3>3
  <2> QED BY <1>2, <2>1, <2>2 DEF RowsOfPassed
<1> QED BY <1>9, <1>10, <1>11, <1>12, <1>13, <1>14

LEMMA InsertSpacing ==
  ASSUME TypeOK, Spacing, NEW s \in Scheduler, InsertRow(s)
  PROVE  Spacing'
<1> USE DEF Spacing
<1> DEFINE n == [key |-> SlotKey(cur[s], moment[s]), slot |-> cur[s].slot,
                 status |-> IF skip[s] \/ ~flow[cur[s].trig].published
                            THEN "skipped" ELSE "queued"]
<1>1. /\ pc[s] = "inserting" /\ pc' = [pc EXCEPT ![s] = "picking"]
      /\ inserts' = [inserts EXCEPT ![s] = @ \cup {n}] /\ cur' = [cur EXCEPT ![s] = NoSlot]
      /\ UNCHANGED <<clock, next, last, lock, runVars, moment, todo, clocks, edit, toward, passed, raced>>
  BY DEF InsertRow, trigVars, requests
<1>2. n.key[2] = cur[s].trig /\ n.slot = cur[s].slot BY DEF SlotKey
<1> HIDE DEF n
<1>3. /\ pc'[s] = "picking" /\ inserts'[s] = inserts[s] \cup {n}
      /\ \A v \in Scheduler \ {s} :
           pc'[v] = pc[v] /\ cur'[v] = cur[v] /\ inserts'[v] = inserts[v]
  BY <1>1 DEF TypeOK
<1>4. TimesPast' BY <1>1 DEF TimesPast
<1>5. LocksLive' BY <1>1, <1>3 DEF LocksLive
<1>6. SlotsCurrent' BY <1>1 DEF SlotsCurrent
<1>7. EditsApart' BY <1>1 DEF EditsApart
<1>8. SlotsApart' BY <1>1 DEF SlotsApart
<1>9. \A v \in Scheduler, a \in Slot :
        InFire(v, a)' \/ Written(v, a)' => InFire(v, a) \/ Written(v, a)
  <2> SUFFICES ASSUME NEW v \in Scheduler, NEW a \in Slot, InFire(v, a)' \/ Written(v, a)'
               PROVE  InFire(v, a) \/ Written(v, a)
    OBVIOUS
  <2>1. CASE v # s BY <1>3, <2>1 DEF InFire, Written, Busy
  <2>2. CASE v = s
    <3>1. PICK m \in inserts'[s] : m.key[2] = a.trig /\ m.slot = a.slot
      BY <1>3, <2>2 DEF InFire, Written, Busy
    <3>2. CASE m \in inserts[s] BY <2>2, <3>1, <3>2 DEF Written
    <3>3. CASE m = n
      <4>1. cur[s] \in Slot /\ cur[s].trig = a.trig /\ cur[s].slot = a.slot
        BY <1>2, <3>1, <3>3 DEF TypeOK
      <4>2. cur[s] = a BY <4>1 DEF Slot
      <4> QED BY <1>1, <2>2, <4>2 DEF InFire, Busy
    <3> QED BY <1>3, <3>1, <3>2, <3>3
  <2> QED BY <2>1, <2>2
<1>10. RowsOfPassed' BY <1>1, <1>9, SameFired DEF RowsOfPassed, RowStep
<1> QED BY <1>4, <1>5, <1>6, <1>7, <1>8, <1>10

\* A commit goes past the slot that was next and puts the next one an interval
\* after the moment of the tick.
LEMMA CommitSpacing ==
  ASSUME IInv, Sessions, ClocksMatched, Spacing, NEW s \in Scheduler,
         CommitSession(s), CommitRows(s),
         UNCHANGED <<clock, cur, todo, edit, toward, raced>>,
         clocks' = [clocks EXCEPT ![s] = {}], inserts' = [inserts EXCEPT ![s] = {}],
         \A v \in Scheduler \ {s} : pc'[v] = pc[v] /\ moment'[v] = moment[v],
         moment'[s] \in {moment[s], 0},
         Busy(s)' => Busy(s)
  PROVE  Spacing'
<1> USE DEF Spacing, IInv
<1> DEFINE fired == {c.trig : c \in clocks[s]}
<1>1. /\ next' = [t \in Trigger |-> IF t \in fired
                    THEN NextSlotAfter(moment[s], Interval[t], moment[s]) ELSE next[t]]
      /\ last' = [t \in Trigger |-> IF t \in fired THEN moment[s] ELSE last[t]]
      /\ passed' = passed \cup
           {[trig |-> c.trig, slot |-> c.slot] : c \in {c \in clocks[s] : c.owed}}
      /\ lock' = [t \in Trigger |-> IF lock[t] = s THEN NoScheduler ELSE lock[t]]
  BY DEF CommitSession
<1>2. moment[s] \in Time /\ moment[s] \in Nat /\ moment[s] # Never /\ moment[s] <= clock
  BY TimeNat DEF TypeOK, TimesPast
<1>3. \A t \in Trigger : NextSlotAfter(moment[s], Interval[t], moment[s]) >= moment[s] + Interval[t]
  BY <1>2, TimeNat, NextSlotApart
<1>4. \A t \in fired : t \in Trigger /\ lock[t] = s BY DEF SlotsCurrent, TypeOK, Advance
<1>5. \A c \in clocks[s] : c.trig \in fired /\ next[c.trig] = c.slot /\ c.slot <= moment[s] /\ c.slot \in Nat
  BY TimeNat DEF SlotsCurrent, TypeOK, Advance
<1> HIDE DEF fired
<1>6. \A t \in Trigger, v \in Scheduler : lock'[t] = v <=> v # s /\ lock[t] = v
  BY <1>1, SchedulerAssumption DEF SchedulerAssumption
<1>7. \A t \in Trigger : lock[t] # s => next'[t] = next[t] /\ last'[t] = last[t]
  BY <1>1, <1>4
<1>8. clocks'[s] = {} /\ inserts'[s] = {}
      /\ \A v \in Scheduler \ {s} : clocks'[v] = clocks[v] /\ inserts'[v] = inserts[v]
  BY DEF TypeOK
<1>9. TimesPast'
  <2>1. 0 <= clock BY TimeNat DEF TypeOK
  <2>2. \A v \in Scheduler : moment'[v] <= clock BY <1>2, <2>1 DEF TimesPast
  <2>3. \A t \in Trigger : last'[t] # Never => last'[t] <= clock BY <1>1, <1>2 DEF TimesPast
  <2> QED BY <2>2, <2>3 DEF TimesPast
<1>10. LocksLive'
  <2> SUFFICES ASSUME NEW t \in Trigger, NEW v \in Scheduler, v # s, lock[t] = v
               PROVE  pc'[v] # "idle" /\ (last'[t] # Never => last'[t] <= moment'[v])
    BY <1>6 DEF LocksLive
  <2>1. last'[t] = last[t] BY <1>7
  <2> QED BY <2>1 DEF LocksLive
<1>11. SlotsCurrent'
  <2>1. \A v \in Scheduler : \A a \in todo[v] : a.trig \in Trigger BY DEF TypeOK, Slot
  <2>2. \A v \in Scheduler : \A c \in clocks[v] : c.trig \in Trigger BY DEF TypeOK, Advance
  <2>3. ASSUME NEW v \in Scheduler, NEW a \in todo[v], lock'[a.trig] = v
        PROVE  next'[a.trig] = a.slot /\ a.slot <= moment'[v]
    <3>1. v # s /\ lock[a.trig] = v BY <1>6, <2>1, <2>3
    <3>2. next'[a.trig] = next[a.trig] BY <1>7, <2>1, <3>1
    <3> QED BY <3>1, <3>2 DEF SlotsCurrent
  <2>4. ASSUME NEW v \in Scheduler, NEW c \in clocks'[v]
        PROVE  lock'[c.trig] = v /\ next'[c.trig] = c.slot /\ c.slot <= moment'[v]
    <3>1. v # s /\ c \in clocks[v] BY <1>8, <2>4
    <3>2. lock[c.trig] = v /\ c.trig \in Trigger BY <2>2, <3>1 DEF SlotsCurrent
    <3>3. lock'[c.trig] = v /\ next'[c.trig] = next[c.trig] BY <1>6, <1>7, <3>1, <3>2
    <3> QED BY <3>1, <3>3 DEF SlotsCurrent
  <2> QED BY <2>3, <2>4 DEF SlotsCurrent
<1>12. EditsApart' BY DEF EditsApart
\* A slot that is new to passed was next, and its trigger is one of those fired.
<1>13. ASSUME NEW a \in passed', a \notin passed
       PROVE  /\ a.trig \in fired /\ a.slot = next[a.trig]
              /\ a.slot <= moment[s] /\ a.slot \in Nat
  BY <1>1, <1>5, <1>13
<1>14. \A a \in passed : a.trig \in Trigger /\ a.slot \in Nat BY TimeNat DEF TypeOK, Slot
<1>15. \A t \in fired : last[t] # Never => last[t] \in Nat /\ last[t] <= moment[s]
  BY <1>4, TimeNat DEF LocksLive, TypeOK
<1>16. \A a \in passed' : last'[a.trig] # Never /\ a.slot <= last'[a.trig]
  <2> SUFFICES ASSUME NEW a \in passed' PROVE last'[a.trig] # Never /\ a.slot <= last'[a.trig]
    OBVIOUS
  <2>1. CASE a \notin passed BY <1>1, <1>2, <1>4, <1>13, <2>1
  <2>2. CASE a \in passed
    <3>1. last[a.trig] # Never /\ a.slot <= last[a.trig] BY <2>2 DEF SlotsApart
    <3>2. CASE a.trig \notin fired BY <1>1, <1>14, <2>2, <3>1, <3>2
    <3>3. CASE a.trig \in fired
      <4>1. last'[a.trig] = moment[s] BY <1>1, <1>4, <3>3
      <4>2. last[a.trig] \in Nat /\ last[a.trig] <= moment[s] BY <1>15, <3>1, <3>3
      <4>3. a.slot \in Nat BY <1>14, <2>2
      <4> QED BY <1>2, <3>1, <4>1, <4>2, <4>3
    <3> QED BY <3>2, <3>3
  <2> QED BY <2>1, <2>2
\* A slot gone past before is an interval before the one that was next.
<1>17. ASSUME NEW a \in passed, NEW b \in passed', b \notin passed, a.trig = b.trig,
              a.trig \notin raced
       PROVE  b.slot - a.slot >= Interval[a.trig]
  <2>1. last[a.trig] # Never /\ a.slot <= last[a.trig] BY DEF SlotsApart
  <2>2. b.slot = next[a.trig] /\ b.slot \in Nat /\ a.trig \in fired BY <1>13, <1>17
  <2>3. next[a.trig] # Never BY <2>2, SchedulerAssumption DEF SchedulerAssumption
  <2>4. next[a.trig] >= last[a.trig] + Interval[a.trig]
    BY <1>14, <1>17, <2>1, <2>3 DEF SlotsApart
  <2>5. last[a.trig] \in Nat /\ a.slot \in Nat /\ Interval[a.trig] \in Nat
    BY <1>14, <1>15, <2>1, <2>2, TimeNat
  <2> QED BY <2>1, <2>2, <2>4, <2>5
<1>18. ASSUME NEW a \in passed', NEW b \in passed', a.trig = b.trig, a.trig \notin raced,
              a.slot < b.slot
       PROVE  b.slot - a.slot >= Interval[a.trig]
  <2>1. CASE a \in passed /\ b \in passed BY <1>18, <2>1 DEF SlotsApart
  <2>2. CASE a \in passed /\ b \notin passed BY <1>17, <1>18, <2>2
  <2>3. CASE a \notin passed /\ b \in passed
    <3>1. a.slot - b.slot >= Interval[a.trig] BY <1>17, <1>18, <2>3
    <3>2. a.slot \in Nat /\ b.slot \in Nat /\ Interval[a.trig] \in Nat
      BY <1>4, <1>13, <1>14, <2>3, TimeNat
    <3> QED BY <1>18, <3>1, <3>2
  <2>4. CASE a \notin passed /\ b \notin passed
    <3>1. a.slot = next[a.trig] /\ b.slot = next[a.trig] /\ a.slot \in Nat BY <1>13, <1>18, <2>4
    <3> QED BY <1>18, <3>1
  <2> QED BY <2>1, <2>2, <2>3, <2>4
<1>19. ASSUME NEW t \in Trigger \ raced, last'[t] # Never, next'[t] # Never
       PROVE  next'[t] >= last'[t] + Interval[t]
  BY <1>1, <1>3, <1>19 DEF SlotsApart
<1>20. SlotsApart' BY <1>16, <1>18, <1>19 DEF SlotsApart
<1>21. \A c \in clocks[s] : c.owed => [trig |-> c.trig, slot |-> c.slot] \in passed'
  BY <1>1
<1>22. passed \subseteq passed' BY <1>1
\* What s was dealing with is past now, in the table or not.
<1>23. ASSUME NEW a \in Slot, InFire(s, a) \/ Written(s, a) PROVE a \in passed'
  <2>1. CASE a \in passed BY <1>22, <2>1
  <2>2. ASSUME NEW c \in clocks[s], c.owed, c.trig = a.trig, c.slot = a.slot PROVE a \in passed'
    <3>1. a = [trig |-> c.trig, slot |-> c.slot] BY <2>2 DEF Slot
    <3> QED BY <1>21, <2>2, <3>1
  <2> QED BY <1>23, <2>1, <2>2 DEF RowsOfPassed
<1>24. \A k \in Fired' : [trig |-> k[2], slot |-> k[3]] \in passed'
  <2> SUFFICES ASSUME NEW k \in Key, k[1] = "slot", status'[k] # "none"
               PROVE  [trig |-> k[2], slot |-> k[3]] \in passed'
    BY DEF Fired
  <2>1. CASE status[k] # "none" BY <1>22, <2>1 DEF RowsOfPassed, Fired
  <2>2. CASE status[k] = "none"
    <3>1. PICK n \in inserts[s] : n.key = k BY <2>2, CommitAdds
    <3>2. n.slot = k[3] BY <3>1 DEF InsertsFresh
    <3>3. [trig |-> k[2], slot |-> k[3]] \in Slot BY DEF Key, Slot
    <3>4. Written(s, [trig |-> k[2], slot |-> k[3]]) BY <3>1, <3>2 DEF Written
    <3> QED BY <1>23, <3>3, <3>4
  <2> QED BY <2>1, <2>2
<1>25. ASSUME NEW v \in Scheduler, NEW a \in Slot, InFire(v, a)' \/ Written(v, a)'
       PROVE  \/ a \in passed'
              \/ \E c \in clocks'[v] : c.owed /\ c.trig = a.trig /\ c.slot = a.slot
  <2>1. CASE v = s
    <3>1. InFire(s, a) BY <1>8, <1>25, <2>1 DEF InFire, Written
    <3> QED BY <1>23, <3>1
  <2>2. CASE v # s
    <3>1. InFire(v, a) \/ Written(v, a) BY <1>8, <1>25, <2>2 DEF InFire, Written, Busy
    <3> QED BY <1>8, <1>22, <2>2, <3>1 DEF RowsOfPassed
  <2> QED BY <2>1, <2>2
<1>26. RowsOfPassed' BY <1>24, <1>25 DEF RowsOfPassed
<1> QED BY <1>9, <1>10, <1>11, <1>12, <1>20, <1>26

LEMMA EditReadsSpacing ==
  ASSUME TypeOK, Spacing, NEW r \in Editor, NEW t \in Trigger, EditReads(r, t)
  PROVE  Spacing'
<1> USE DEF Spacing
<1>1. PICK e : e.last = last[t] /\ edit[r] = {} /\ edit' = [edit EXCEPT ![r] = {e}]
  BY DEF EditReads
<1>2. UNCHANGED <<clock, next, last, lock, runVars, tickVars, toward, passed, raced>>
  BY <1>1 DEF EditReads, trigVars
<1>3. edit'[r] = {e} /\ \A v \in Editor \ {r} : edit'[v] = edit[v] BY <1>1 DEF TypeOK
<1>4. toward[r] = {} BY <1>1 DEF EditsApart
<1>5. TimesPast' BY <1>1, <1>2, <1>3 DEF TimesPast, tickVars
<1>6. LocksLive' BY <1>2 DEF LocksLive, tickVars
<1>7. SlotsCurrent' BY <1>2 DEF SlotsCurrent, tickVars
<1>8. EditsApart' BY <1>2, <1>3, <1>4 DEF EditsApart
<1>9. SlotsApart' BY <1>2 DEF SlotsApart
<1>10. RowsOfPassed'
  BY <1>2, SameFired DEF RowsOfPassed, InFire, Written, Busy, RowStep, tickVars
<1> QED BY <1>5, <1>6, <1>7, <1>8, <1>9, <1>10

\* The slot an edit computes is an interval after the firing it has read of.
LEMMA EditComputesSpacing ==
  ASSUME TypeOK, Spacing, NEW r \in Editor, EditComputes(r)
  PROVE  Spacing'
<1> USE DEF Spacing
<1>1. PICK e \in edit[r] : toward' = [toward EXCEPT ![r] = Backfill(e)]
  BY DEF EditComputes
<1>2. UNCHANGED <<clock, next, last, lock, runVars, tickVars, edit, passed, raced>>
  BY DEF EditComputes, trigVars
<1>3. toward'[r] = Backfill(e) /\ \A v \in Editor \ {r} : toward'[v] = toward[v]
  BY <1>1 DEF TypeOK
<1>4. ASSUME NEW to \in Backfill(e), to # Never, e.last # Never
      PROVE  to >= e.last + Interval[e.trig]
  <2>1. to = NextSlotAfter(clock, Interval[e.trig], e.last) BY <1>4 DEF Backfill
  <2>2. e.trig \in Trigger /\ e.last \in Nat BY <1>4, EditTimes
  <2>3. e.last <= clock /\ clock \in Nat BY <1>4, TimeNat DEF TimesPast, TypeOK
  <2> QED BY <2>1, <2>2, <2>3, TimeNat, NextSlotApart
<1>5. \A f \in edit[r] : f = e BY DEF EditsApart
<1>6. TimesPast' BY <1>2 DEF TimesPast, tickVars
<1>7. LocksLive' BY <1>2 DEF LocksLive, tickVars
<1>8. SlotsCurrent' BY <1>2 DEF SlotsCurrent, tickVars
<1>9. EditsApart' BY <1>2, <1>3, <1>4, <1>5 DEF EditsApart
<1>10. SlotsApart' BY <1>2 DEF SlotsApart
<1>11. RowsOfPassed'
  BY <1>2, SameFired DEF RowsOfPassed, InFire, Written, Busy, RowStep, tickVars
<1> QED BY <1>6, <1>7, <1>8, <1>9, <1>10, <1>11

\* An edit writes a row nobody holds, or leaves its slot as it is; it computed
\* from the last firing, or the trigger counts as raced.
LEMMA EditWritesSpacing ==
  ASSUME TypeOK, Spacing, NEW r \in Editor, EditWrites(r)
  PROVE  Spacing'
<1> USE DEF Spacing
<1>1. PICK e \in edit[r], to \in toward[r] :
        /\ lock[e.trig] = NoScheduler \/ (to = e.next /\ e.enable = e.enabled)
        /\ next' = [next EXCEPT ![e.trig] = IF to = e.next THEN @ ELSE to]
        /\ raced' = IF to = e.next \/ last[e.trig] = e.last THEN raced ELSE raced \cup {e.trig}
  BY DEF EditWrites
<1>2. /\ UNCHANGED <<clock, last, lock, runVars, tickVars, passed>>
      /\ edit' = [edit EXCEPT ![r] = {}] /\ toward' = [toward EXCEPT ![r] = {}]
  BY DEF EditWrites
<1>3. e.trig \in Trigger BY EditTimes
<1>4. /\ edit'[r] = {} /\ toward'[r] = {}
      /\ \A v \in Editor \ {r} : edit'[v] = edit[v] /\ toward'[v] = toward[v]
  BY <1>2 DEF TypeOK
<1>5. \A t \in Trigger, s \in Scheduler : lock[t] = s => next'[t] = next[t]
  BY <1>1, <1>3, SchedulerAssumption DEF SchedulerAssumption, TypeOK
<1>6. TimesPast'
  <2>1. \A v \in Editor : edit'[v] \subseteq edit[v] BY <1>4
  <2> QED BY <1>2, <2>1 DEF TimesPast, tickVars
<1>7. LocksLive' BY <1>2 DEF LocksLive, tickVars
<1>8. SlotsCurrent'
  <2>1. \A s \in Scheduler : \A a \in todo[s] : a.trig \in Trigger BY DEF TypeOK, Slot
  <2>2. \A s \in Scheduler : \A c \in clocks[s] : c.trig \in Trigger BY DEF TypeOK, Advance
  <2>3. UNCHANGED <<lock, todo, clocks, moment>> BY <1>2 DEF tickVars
  <2> QED BY <1>5, <2>1, <2>2, <2>3 DEF SlotsCurrent
<1>9. EditsApart'
  <2> SUFFICES ASSUME NEW v \in Editor
               PROVE  /\ \A a, b \in edit'[v] : a = b
                      /\ edit'[v] = {} => toward'[v] = {}
                      /\ \A a \in edit'[v], u \in toward'[v] :
                           u # Never /\ a.last # Never => u >= a.last + Interval[a.trig]
    BY DEF EditsApart
  <2>1. CASE v = r BY <1>4, <2>1
  <2>2. CASE v # r BY <1>4, <2>2 DEF EditsApart
  <2> QED BY <2>1, <2>2
<1>10. raced \subseteq raced' BY <1>1
<1>11. ASSUME NEW t \in Trigger \ raced', last[t] # Never, next'[t] # Never
       PROVE  next'[t] >= last[t] + Interval[t]
  <2>1. CASE next'[t] = next[t] BY <1>10, <1>11, <2>1 DEF SlotsApart
  <2>2. CASE next'[t] # next[t]
    <3>1. t = e.trig /\ to # e.next /\ next'[t] = to BY <1>1, <1>3, <2>2 DEF TypeOK
    <3>2. last[t] = e.last BY <1>1, <1>11, <3>1
    <3> QED BY <1>11, <3>1, <3>2 DEF EditsApart
  <2> QED BY <2>1, <2>2
<1>12. SlotsApart' BY <1>2, <1>10, <1>11 DEF SlotsApart
<1>13. RowsOfPassed'
  BY <1>2, SameFired DEF RowsOfPassed, InFire, Written, Busy, RowStep, tickVars
<1> QED BY <1>6, <1>7, <1>8, <1>9, <1>12, <1>13

LEMMA NextSpacing ==
  IInv /\ Sessions /\ ClocksMatched /\ Spacing /\ [Next]_vars /\ ~Retakes => Spacing'
<1> SUFFICES ASSUME IInv, Sessions, ClocksMatched, Spacing, [Next]_vars, ~Retakes PROVE Spacing'
  OBVIOUS
<1>1. ASSUME NEW s \in Scheduler, CancelPrevious(s) \/ Commit(s) PROVE Spacing'
  <2>1. /\ CommitSession(s) /\ CommitRows(s)
        /\ UNCHANGED <<clock, cur, todo, edit, toward, raced>>
        /\ clocks' = [clocks EXCEPT ![s] = {}] /\ inserts' = [inserts EXCEPT ![s] = {}]
    BY <1>1 DEF CancelPrevious, Commit, requests
  <2>2. /\ \A v \in Scheduler \ {s} : pc'[v] = pc[v] /\ moment'[v] = moment[v]
        /\ moment'[s] \in {moment[s], 0}
        /\ Busy(s)' => Busy(s)
    BY <1>1 DEF CancelPrevious, Commit, IInv, TypeOK, Busy
  <2> QED BY <2>1, <2>2, CommitSpacing
<1> QED
  BY <1>1, SpacingCases, QuietSpacing, ClaimSpacing, FireSpacing, InsertSpacing, AbandonSpacing,
     EditReadsSpacing, EditComputesSpacing, EditWritesSpacing DEF IInv

LEMMA SpacingIsEnough == IInv /\ Spacing => OneRunPerInterval
<1> SUFFICES ASSUME IInv, Spacing, NEW k \in Fired, NEW l \in Fired,
                    k[2] = l[2], k[2] \notin raced, slotOf[k] < slotOf[l]
             PROVE  slotOf[l] - slotOf[k] >= Interval[k[2]]
  BY DEF OneRunPerInterval
<1> DEFINE a == [trig |-> k[2], slot |-> k[3]]
           b == [trig |-> l[2], slot |-> l[3]]
<1>1. a \in passed /\ b \in passed BY DEF Spacing, RowsOfPassed
<1>2. slotOf[k] = k[3] /\ slotOf[l] = l[3] BY DEF IInv, KeyNamesSlot
<1> QED BY <1>1, <1>2 DEF Spacing, SlotsApart

\* Two rows of a schedule are an interval apart, unless a tick went on to a row
\* that request_stop's commit had let go, or an edit wrote a slot it computed
\* before the last firing.  Such a tick counts from its own moment, which may be
\* earlier than a firing by another process meanwhile.
THEOREM NothingCaughtUp == Spec /\ [][~Retakes]_vars => []OneRunPerInterval
<1>1. Init => Spacing BY InitSpacing
<1>2. SInv /\ ClocksMatched /\ Spacing /\ [Next]_vars /\ [~Retakes]_vars => Spacing'
  <2>1. CASE UNCHANGED vars
    <3>1. SUFFICES ASSUME SInv, Spacing PROVE Spacing' BY <2>1
    <3>2. Quiet BY <2>1 DEF vars, Quiet, RowStep, runVars, Busy
    <3> QED BY <3>1, <3>2, QuietSpacing DEF SInv, IInv
  <2>2. CASE ~Retakes BY <2>2, NextSpacing DEF SInv
  <2> QED BY <2>1, <2>2
<1>3. SInv /\ Spacing => OneRunPerInterval BY SpacingIsEnough DEF SInv
<1> QED BY <1>1, <1>2, <1>3, StaysMatched, PTL DEF Spec

\* With no trigger that stops its earlier runs, a tick holds what it has still to
\* fire until its one commit.
LEMMA HoldsBatch ==
  ASSUME \A t \in Trigger : ~Cancels(t)
  PROVE  Spec => [][~Retakes]_vars
<1> DEFINE Held == \A s \in Scheduler : \A a \in todo[s] : lock[a.trig] = s
<1>1. Init => Held BY DEF Init
<1>2. TypeOK /\ Sessions /\ Held /\ [Next]_vars => Held'
  <2> SUFFICES ASSUME TypeOK, Sessions, Held, [Next]_vars,
                      NEW s \in Scheduler, NEW a \in todo'[s]
               PROVE  lock'[a.trig] = s
    OBVIOUS
  <2>0. \A v \in Scheduler : \A b \in todo[v] : b.trig \in Trigger /\ lock[b.trig] = v
    BY DEF TypeOK, Slot
  <2> HIDE DEF Held
  <2>1. CASE UNCHANGED <<tickVars, lock>> BY <2>0, <2>1 DEF tickVars
  <2>2. ASSUME NEW v \in Scheduler, Claim(v) PROVE lock'[a.trig] = s
    <3>1. PICK batch \in SUBSET Due :
            /\ lock' = [t \in Trigger |-> IF t \in batch THEN v ELSE lock[t]]
            /\ todo' = [todo EXCEPT ![v] = {[trig |-> t, slot |-> next[t]] : t \in batch}]
      BY <2>2 DEF Claim
    <3>2. \A t \in batch : lock[t] = NoScheduler /\ t \in Trigger BY DEF Due, Free
    <3>3. CASE s = v BY <3>1, <3>2, <3>3 DEF TypeOK
    <3>4. CASE s # v
      <4>1. a \in todo[s] BY <3>1, <3>4 DEF TypeOK
      <4> QED BY <2>0, <3>1, <3>2, <4>1, SchedulerAssumption DEF SchedulerAssumption
    <3> QED BY <3>3, <3>4
  <2>3. ASSUME NEW v \in Scheduler, Fire(v) PROVE lock'[a.trig] = s
    <3>1. PICK b \in todo[v] :
            /\ lock' = [lock EXCEPT ![b.trig] = v]
            /\ todo' = [todo EXCEPT ![v] = @ \ {b}]
      BY <2>3 DEF Fire
    <3>2. lock[b.trig] = v BY <2>0
    <3>3. a \in todo[s] BY <3>1 DEF TypeOK
    <3> QED BY <2>0, <3>1, <3>2, <3>3 DEF TypeOK
  <2>4. ASSUME NEW v \in Scheduler, ListPrevious(v) \/ InsertRow(v) PROVE lock'[a.trig] = s
    BY <2>0, <2>4 DEF ListPrevious, InsertRow, trigVars
  <2>5. ASSUME NEW v \in Scheduler PROVE ~CancelPrevious(v)
    BY DEF CancelPrevious, Sessions, OnlyCancelsStop, TypeOK, Slot
  <2>6. ASSUME NEW v \in Scheduler, Commit(v) \/ Abandon(v) PROVE lock'[a.trig] = s
    <3>1. lock' = [t \in Trigger |-> IF lock[t] = v THEN NoScheduler ELSE lock[t]]
      BY <2>6 DEF Commit, CommitSession, Abandon, Rollback
    <3>2. a \in todo[s] /\ s # v BY <2>6 DEF Commit, Abandon, TypeOK
    <3> QED BY <2>0, <3>1, <3>2
  <2> QED BY <2>1, <2>2, <2>3, <2>4, <2>5, <2>6, SessionCases
<1>3. TypeOK /\ Held => ~Retakes
  <2> SUFFICES ASSUME TypeOK, Held, NEW s \in Scheduler, NEW t \in Trigger,
                      Fire(s), lock[t] # s, lock'[t] = s
               PROVE  FALSE
    BY DEF Retakes
  <2>1. PICK b \in todo[s] : lock' = [lock EXCEPT ![b.trig] = s] BY DEF Fire
  <2> QED BY <2>1 DEF TypeOK
<1> HIDE DEF Held
<1>4. SInv => TypeOK /\ Sessions BY DEF SInv, IInv
<1>5. TypeOK /\ Held /\ [Next]_vars => [~Retakes]_vars BY <1>3
<1> QED BY <1>1, <1>2, <1>4, <1>5, StaysRoomy, PTL DEF Spec

\* Where no trigger cancels its earlier runs a tick is one transaction, so Fire
\* never takes a row again: two slots of a schedule that edits have not moved are
\* an interval apart, whatever crashes and however late the ticks are.
THEOREM NothingCaughtUpWithoutCancel ==
  ASSUME \A t \in Trigger : ~Cancels(t)
  PROVE  Spec => []OneRunPerInterval
  BY HoldsBatch, NothingCaughtUp, PTL
=============================================================================
