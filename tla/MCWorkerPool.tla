---------------------------- MODULE MCWorkerPool ----------------------------
(* Finite instances of WorkerPool for TLC. *)
EXTENDS WorkerPool, TLC

CONSTANTS j1, j2, w1, w2

TwoJobs == {j1, j2}
TwoWorkers == {w1, w2}
GarbledJob == {j2}
=============================================================================
