---------------------------- MODULE MCUserSystem ----------------------------
(* TLC instance of UserSystem: symmetric users.                              *)
EXTENDS UserSystem, TLC

Symmetric == Permutations(Users)
=============================================================================
