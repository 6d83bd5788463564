---------------------------- MODULE LRUKReplacer ----------------------------
(***************************************************************************)
(* LRUKReplacer (buffer/replacer.cpp): which evictable frame Evict picks.  *)
(* Each tracked frame keeps the timestamps of its last k accesses; the     *)
(* victim is the evictable frame whose k-th last access is furthest back,  *)
(* frames with fewer than k accesses counting as infinitely far back and   *)
(* compared by their first access.  The code finds it in one pass over     *)
(* node_store_, a std::map, hence in increasing frame order.               *)
(***************************************************************************)
EXTENDS Integers, Sequences, FiniteSets

CONSTANTS PoolSize,       \* replacer_size_: frames are 0 .. PoolSize-1
          K,              \* k_
          MaxTimestamp    \* bound on current_timestamp_

ASSUME LRUKAssumption == PoolSize \in Nat \ {0} /\ K \in Nat \ {0} /\ MaxTimestamp \in Nat

Frames == 0 .. PoolSize - 1

INF == MaxTimestamp + 1   \* replacer.h: larger than any timestamp or distance

VARIABLES node_store,          \* frame -> [history, evictable], for the tracked frames
          current_timestamp,
          curr_size

lruVars == <<node_store, current_timestamp, curr_size>>

Tracked == DOMAIN node_store

Evictable == {f \in Tracked : node_store[f].evictable}

-----------------------------------------------------------------------------
(***************************************************************************)
(* LRUKNode                                                                *)
(***************************************************************************)
GetHistory(f) == Head(node_store[f].history)

GetDis(f) == IF Len(node_store[f].history) < K THEN INF ELSE current_timestamp - GetHistory(f)

Accessed(node) ==
  LET h == Append(node.history, current_timestamp)
  IN [node EXCEPT !.history = IF Len(h) > K THEN Tail(h) ELSE h]

\* Mutant: history is not taken over with the first frame at distance INF.
BetterForgetful(f, best) ==
  IF f \notin Evictable THEN best
  ELSE LET d == GetDis(f)
           h == GetHistory(f)
       IN CASE d > best.dis -> [best EXCEPT !.dis = d, !.frame = f]
            [] d = best.dis /\ h < best.history -> [best EXCEPT !.history = h, !.frame = f]
            [] OTHER -> best

(***************************************************************************)
(* The pass Evict makes: best[i] is what its locals hold after frames      *)
(* 0 .. i-1.  history only follows the distance at INF.                    *)
(***************************************************************************)
Better(f, best) ==
  IF f \notin Evictable THEN best
  ELSE LET d == GetDis(f)
           h == GetHistory(f)
       IN CASE d > best.dis -> [dis |-> d, history |-> IF d = INF THEN h ELSE best.history, frame |-> f]
            [] d = best.dis /\ h < best.history -> [best EXCEPT !.history = h, !.frame = f]
            [] OTHER -> best

Scan ==
  LET best[i \in 0 .. PoolSize] ==
        IF i = 0 THEN [dis |-> 0, history |-> INF, frame |-> -1]
        ELSE Better(i - 1, best[i - 1])
  IN best[PoolSize]

Without(f) == [g \in Tracked \ {f} |-> node_store[g]]

-----------------------------------------------------------------------------
Init == node_store = [f \in {} |-> 0] /\ current_timestamp = 0 /\ curr_size = 0

\* Mutant: a new node starts out evictable.
RecordAccessEvictable(f) ==
  /\ current_timestamp < MaxTimestamp
  /\ node_store' =
       [g \in Tracked \cup {f} |->
          IF g # f THEN node_store[g]
          ELSE Accessed(IF f \in Tracked THEN node_store[f]
                        ELSE [history |-> <<>>, evictable |-> TRUE])]
  /\ current_timestamp' = current_timestamp + 1
  /\ UNCHANGED curr_size

RecordAccess(f) ==
  /\ current_timestamp < MaxTimestamp
  /\ node_store' =
       [g \in Tracked \cup {f} |->
          IF g # f THEN node_store[g]
          ELSE Accessed(IF f \in Tracked THEN node_store[f]
                        ELSE [history |-> <<>>, evictable |-> FALSE])]
  /\ current_timestamp' = current_timestamp + 1
  /\ UNCHANGED curr_size

\* Nothing happens for an unknown frame or when the flag does not flip.
SetEvictable(f, evictable) ==
  /\ IF f \in Tracked /\ node_store[f].evictable # evictable
     THEN /\ node_store' = [node_store EXCEPT ![f].evictable = evictable]
          /\ curr_size' = IF evictable THEN curr_size + 1 ELSE curr_size - 1
     ELSE UNCHANGED <<node_store, curr_size>>
  /\ UNCHANGED current_timestamp

\* The victim leaves the store only if the pass found one (dis # 0).
Evict ==
  /\ curr_size # 0
  /\ Scan.dis # 0
  /\ node_store' = Without(Scan.frame)
  /\ curr_size' = curr_size - 1
  /\ UNCHANGED current_timestamp

\* Nothing happens for an unknown frame; a tracked frame that is not evictable
\* throws, and the buffer pool never asks for one (BufferPool!ReplacerAgrees).
Remove(f) ==
  /\ f \in Tracked => f \in Evictable
  /\ node_store' = Without(f)
  /\ curr_size' = IF f \in Tracked THEN curr_size - 1 ELSE curr_size
  /\ UNCHANGED current_timestamp

Next ==
  \/ Evict
  \/ \E f \in Frames :
       \/ RecordAccess(f)
       \/ \E evictable \in BOOLEAN : SetEvictable(f, evictable)
       \/ Remove(f)

Spec == Init /\ [][Next]_lruVars

-----------------------------------------------------------------------------
(***************************************************************************)
(* LRU-K by its definition.                                                *)
(***************************************************************************)

\* f's k-th last access, if it has one.
HasK(f) == Len(node_store[f].history) = K

\* f must go before g.
GoesBefore(f, g) ==
  \/ ~HasK(f) /\ HasK(g)
  \/ (HasK(f) <=> HasK(g)) /\ GetHistory(f) < GetHistory(g)

\* Evict succeeds whenever something is evictable, and the frame it returns is
\* the evictable frame that goes before all others, whatever the order in which
\* the pass meets frames with and without k accesses.
EvictPicksLRUK ==
  curr_size # 0 =>
    /\ Scan.frame \in Evictable
    /\ Scan.dis # 0
    /\ \A g \in Evictable \ {Scan.frame} : GoesBefore(Scan.frame, g)

\* The replacer the buffer pool is modelled with.
Policy == INSTANCE Replacer WITH
  replacer <- [tracked |-> Tracked, evictable |-> Evictable, size |-> curr_size]

ImplementsReplacer == Policy!ReplacerSpec
=============================================================================
