---------------------------- MODULE MCBufferPool ----------------------------
(* TLC instance of BufferPool: symmetry over frames and over guards.        *)
EXTENDS BufferPool, TLC

Symmetric == Permutations(Frames) \cup Permutations(Handles)
=============================================================================
