------------------------ MODULE MCWorkerCoordinator ------------------------
(* WorkerCoordinator on two workers and one origin of two permits.                       *)
EXTENDS WorkerCoordinator, TLC

CONSTANTS w1, w2, o1
=============================================================================
