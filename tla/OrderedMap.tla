----------------------------- MODULE OrderedMap -----------------------------
(***************************************************************************)
(* What the index promises its clients (include/storage/index/             *)
(* b_plus_tree.h): a map with unique keys.  An insertion of a key that is  *)
(* there and a removal of one that is not change nothing.                  *)
(***************************************************************************)
EXTENDS Integers

CONSTANTS Keys,
          ValuesFor              \* key -> the values that may be inserted under it

VARIABLE map                  \* a function on the keys that are in the index

MapInit == map = [k \in {} |-> 0]

AddKey(key, value) ==
  /\ key \notin DOMAIN map
  /\ map' = [k \in {key} \cup DOMAIN map |-> IF k \in DOMAIN map THEN map[k] ELSE value]

DropKey(key) ==
  /\ key \in DOMAIN map
  /\ map' = [k \in DOMAIN map \ {key} |-> map[k]]

MapNext ==
  \E key \in Keys :
    \/ \E value \in ValuesFor[key] : AddKey(key, value)
    \/ DropKey(key)

MapSpec == MapInit /\ [][MapNext]_map
=============================================================================
