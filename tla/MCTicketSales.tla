---------------------------- MODULE MCTicketSales ----------------------------
(* TLC instances of TicketSales: the legs on sale.                           *)
EXTENDS TicketSales, TLC

LegsOfTwo == {<<0, 2>>, <<1, 2>>}

LegsOfOne == {<<0, 1>>}

Symmetric == Permutations(Users)
==============================================================================
