----------------------------- MODULE Timetable -----------------------------
(***************************************************************************)
(* What the scheduler promises of the slots of its schedules, whatever the *)
(* processes that tick, the locks they lose and the edits that race them:  *)
(* a slot is entered once, as a run or as a skip; a schedule gets one      *)
(* entry at a time, so nothing is caught up; and a run is entered only     *)
(* where the policy has room for it as it is entered, as if counting the   *)
(* runs in flight and writing the new one were one step.                   *)
(***************************************************************************)
EXTENDS Naturals, FiniteSets

CONSTANTS Trigger, Time, Policy, QueueLimit

VARIABLE fate   \* of each slot of each schedule: none, skipped, queued, running or over

Entry == Trigger \X Time

InFlight(t) == {a \in Entry : a[1] = t /\ fate[a] \in {"queued", "running"}}

MayRun(t) ==
  /\ Policy[t] = "skip" => InFlight(t) = {}
  /\ Policy[t] = "queue" => Cardinality(InFlight(t)) < QueueLimit

Init == fate = [a \in Entry |-> "none"]

\* Some slots are entered together, no two of one schedule.
Enter ==
  LET entered == {a \in Entry : fate'[a] # fate[a]}
  IN  /\ fate' = [a \in Entry |-> fate'[a]]
      /\ \A a \in entered :
           /\ fate[a] = "none"
           /\ fate'[a] = "skipped" \/ (fate'[a] = "queued" /\ MayRun(a[1]))
      /\ \A a, b \in entered : a[1] = b[1] => a = b

Moves(a, from, to) ==
  /\ fate[a] = from
  /\ fate' = [fate EXCEPT ![a] = to]

Next == Enter \/ \E a \in Entry : Moves(a, "queued", "running") \/ Moves(a, "running", "over")

Spec == Init /\ [][Next]_fate
=============================================================================
