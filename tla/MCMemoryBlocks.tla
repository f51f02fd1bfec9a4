--------------------------- MODULE MCMemoryBlocks ---------------------------
(* Instances of MemoryBlocks for TLC. *)
EXTENDS MemoryBlocks, TLC

CONSTANTS p1, p2, p3, p4

MCMemoryAllocation == p1 :> 1 @@ p2 :> 2 @@ p3 :> 2 @@ p4 :> 3
=============================================================================
