---------------------------- MODULE MCContainers ----------------------------
(* TLC instance of Containers: cells for arrays of up to eight.              *)
EXTENDS Containers, TLC

AllSlots == Locals \cup {Temp} \cup (Vectors \X {0, 1} \X (0 .. 7)) \cup {<<n>> : n \in Lists \X Addresses}

Symmetric == Permutations(Vectors) \cup Permutations(Lists) \cup Permutations(Locals) \cup Permutations(Objects)
=============================================================================
