---------------------------- MODULE MCWorkerPark ----------------------------
(* Instances of WorkerPark for TLC. *)
EXTENDS WorkerPark, TLC
=============================================================================
