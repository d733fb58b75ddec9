---------------------------- MODULE MCScheduler ----------------------------
(* Small instances of Scheduler for TLC. *)
EXTENDS Scheduler, TLC

CONSTANTS t1, t2, s1, s2, e1, e2

Every2  == [t \in Trigger |-> 2]
Every1  == [t \in Trigger |-> 1]
Skips   == [t \in Trigger |-> "skip"]
Queues  == [t \in Trigger |-> "queue"]
Cancels == [t \in Trigger |-> "cancel_previous"]
\* A cancel_previous trigger releases the locks of the skip trigger beside it.
Mixed   == t1 :> "cancel_previous" @@ t2 :> "skip"

Interchangeable == Permutations({s1, s2}) \cup Permutations({e1, e2})
=============================================================================
