--------------------------- MODULE MCLRUKReplacer ---------------------------
(* TLC instance of LRUKReplacer.                                            *)
EXTENDS LRUKReplacer
=============================================================================
