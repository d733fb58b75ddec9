----------------------------- MODULE RunLedger -----------------------------
(***************************************************************************)
(* What the integration run queue promises about every run put on it,      *)
(* whatever the workers, the reaper and the operator do: a run is taken at *)
(* most once, by one process, and once it is over it is never taken again. *)
(* "A dead worker fails its run rather than resuming it."                  *)
(***************************************************************************)
CONSTANTS Run, Process, NoProcess

VARIABLES phase,   \* how far the queue has got with each run
          owner    \* the process that took it, or NoProcess

lvars == <<phase, owner>>

Init ==
  /\ phase = [r \in Run |-> "absent"]
  /\ owner = [r \in Run |-> NoProcess]

\* The run row and its job land together.
Submit(r) ==
  /\ phase[r] = "absent"
  /\ phase' = [phase EXCEPT ![r] = "waiting"]
  /\ UNCHANGED owner

\* One process takes a waiting run; nobody ever takes it from that process.
Take(r, p) ==
  /\ phase[r] = "waiting"
  /\ phase' = [phase EXCEPT ![r] = "taken"]
  /\ owner' = [owner EXCEPT ![r] = p]

\* Some taken runs are closed, by their worker or by the stale reaper, which
\* closes every run it finds abandoned in one transaction.
Finish(done) ==
  /\ \A r \in done : phase[r] \in {"taken", "over"}
  /\ phase' = [r \in Run |-> IF r \in done THEN "over" ELSE phase[r]]
  /\ UNCHANGED owner

Next ==
  \/ \E r \in Run : Submit(r)
  \/ \E r \in Run, p \in Process : Take(r, p)
  \/ \E done \in SUBSET Run : Finish(done)

Spec == Init /\ [][Next]_lvars
=============================================================================
