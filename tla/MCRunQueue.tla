----------------------------- MODULE MCRunQueue -----------------------------
(* Small instances of RunQueue for TLC. *)
EXTENDS RunQueue, TLC

CONSTANTS w1, w2, p1, p2

\* One workflow, or one workflow per run.
OneFlow  == [r \in Run |-> 1]
OwnFlows == [r \in Run |-> r]

\* Two workers of one process, or one worker in each of two.
Together == [w \in Worker |-> p1]
Apart    == w1 :> p1 @@ w2 :> p2

\* Workers of one process are interchangeable; used by safety runs only.
SameWorkers == Permutations({w1, w2})
=============================================================================
