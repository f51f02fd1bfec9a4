---------------------------- MODULE MCReadyQueue ----------------------------
(* Instances of ReadyQueue for TLC. *)
EXTENDS ReadyQueue, TLC

CONSTANTS p1, p2, p3, p4
=============================================================================
