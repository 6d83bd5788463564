------------------------------ MODULE Replacer ------------------------------
(***************************************************************************)
(* What the buffer pool needs from its eviction policy                     *)
(* (include/buffer/replacer.h, buffer/replacer.cpp): a set of tracked      *)
(* frames, the subset that may be evicted, and the counter curr_size_ that *)
(* Evict consults before it looks for a victim.  Which evictable frame     *)
(* Evict picks is left open here; LRUKReplacer decides it and is checked   *)
(* to implement this specification, so whatever holds of a pool built on   *)
(* this module holds of the pool built on LRU-K.                           *)
(***************************************************************************)
EXTENDS Integers, FiniteSets

CONSTANT Frames                 \* frame ids 0 .. pool_size_-1, as a set

ASSUME FramesAssumption == IsFiniteSet(Frames) /\ Frames # {}

VARIABLE replacer               \* [tracked, evictable, size]

EmptyReplacer == [tracked |-> {}, evictable |-> {}, size |-> 0]

ReplacerType == [tracked : SUBSET Frames, evictable : SUBSET Frames, size : Nat]

(***************************************************************************)
(* The operations, as functions from a replacer state to a replacer state, *)
(* so that one pool operation can apply several of them.                   *)
(***************************************************************************)

\* A frame seen for the first time gets a node that is not evictable.
RecordAccess(r, f) == [r EXCEPT !.tracked = @ \cup {f}]

\* Mutant: the counter moves whether or not the flag flips.
SetEvictableRecounting(r, f, evictable) ==
  IF f \notin r.tracked THEN r
  ELSE IF evictable
       THEN [r EXCEPT !.evictable = @ \cup {f}, !.size = @ + 1]
       ELSE [r EXCEPT !.evictable = @ \ {f},    !.size = @ - 1]

\* Unknown frames are ignored; curr_size_ moves only when the flag flips.
SetEvictable(r, f, evictable) ==
  IF f \notin r.tracked \/ (f \in r.evictable) = evictable THEN r
  ELSE IF evictable
       THEN [r EXCEPT !.evictable = @ \cup {f}, !.size = @ + 1]
       ELSE [r EXCEPT !.evictable = @ \ {f},    !.size = @ - 1]

\* Evict once it has chosen f, and Remove of a tracked evictable frame.
Forget(r, f) ==
  [tracked |-> r.tracked \ {f}, evictable |-> r.evictable \ {f}, size |-> r.size - 1]

\* Remove: unknown frames are ignored (a tracked frame that is not evictable
\* makes the code throw, see RemoveFrame).
Remove(r, f) == IF f \in r.tracked THEN Forget(r, f) ELSE r

\* The frames Evict can return: none when curr_size_ is 0.
Victims(r) == IF r.size = 0 THEN {} ELSE r.evictable

-----------------------------------------------------------------------------
ReplacerInit == replacer = EmptyReplacer

AccessFrame(f) == replacer' = RecordAccess(replacer, f)

FlagFrame(f, evictable) == replacer' = SetEvictable(replacer, f, evictable)

EvictFrame(f) == f \in Victims(replacer) /\ replacer' = Forget(replacer, f)

RemoveFrame(f) ==
  /\ f \in replacer.tracked => f \in replacer.evictable
  /\ replacer' = Remove(replacer, f)

ReplacerNext ==
  \E f \in Frames :
    \/ AccessFrame(f)
    \/ \E evictable \in BOOLEAN : FlagFrame(f, evictable)
    \/ EvictFrame(f)
    \/ RemoveFrame(f)

ReplacerSpec == ReplacerInit /\ [][ReplacerNext]_replacer

\* The counter Evict consults is the number of frames it may return, and only
\* tracked frames are evictable: Evict fails exactly when nothing is evictable.
SizeCountsEvictable ==
  /\ replacer.size = Cardinality(replacer.evictable)
  /\ replacer.evictable \subseteq replacer.tracked
=============================================================================
