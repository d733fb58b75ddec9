---------------------------- MODULE MCEmailQueue ----------------------------
(* Small instances of EmailQueue for TLC. *)
EXTENDS EmailQueue, TLC

CONSTANTS w1, w2, m1, m2

\* Workers and messages are interchangeable; used by safety runs only.
Interchangeable == Permutations({w1, w2}) \cup Permutations({m1, m2})
=============================================================================
