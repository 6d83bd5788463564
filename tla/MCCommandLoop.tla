--------------------------- MODULE MCCommandLoop ---------------------------
(* TLC instance of CommandLoop: a train that can be entered in two ways.     *)
EXTENDS CommandLoop, TLC

CONSTANTS a, b, c

ShortAndLong == {[stations |-> <<a, b>>], [stations |-> <<c, a, b>>]}

Asked == {<<a, b>>, <<c, b>>}

AllLegs == {<<0, 1>>, <<1, 2>>, <<0, 2>>}

Symmetric == Permutations(Users)
=============================================================================
