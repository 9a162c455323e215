------------------------ MODULE MCWorkerSupervision ------------------------
(* A few process numbers for TLC. *)
EXTENDS WorkerSupervision

CONSTANTS p1, p2, p3, p4
=============================================================================
