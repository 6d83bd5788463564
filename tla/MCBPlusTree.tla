---------------------------- MODULE MCBPlusTree ----------------------------
(***************************************************************************)
(* Small pages, so that few keys make a tall tree.  Trees that differ only *)
(* in the ids of their pages count as one: TreeShape gives each page its   *)
(* place in a walk of the tree for a name, and no action or property tells *)
(* one id from another.                                                    *)
(***************************************************************************)
EXTENDS BPlusTree

KeysTo9 == 1 .. 9

\* Every key has a value of its own, so that none can pass for another's.
OwnValue == [key \in KeysTo9 |-> {key}]

Walk ==
  LET below[p \in DOMAIN pages] ==
        IF pages[p].leaf THEN <<p>>
        ELSE <<p>> \o FlattenSeq([i \in DOMAIN pages[p].children |->
               IF pages[p].children[i] \in DOMAIN pages THEN below[pages[p].children[i]] ELSE <<>>])
      reached == IF root = NoPage THEN <<>> ELSE below[root]
  IN reached \o SetToSeq(DOMAIN pages \ Range(reached))

TreeShape ==
  LET walk    == Walk
      name(p) == SelectInSeq(walk, LAMBDA q : q = p)
  IN <<[i \in DOMAIN walk |->
          LET page == pages[walk[i]] IN
          IF page.leaf THEN <<page.entries, name(page.next)>>
          ELSE <<page.keys, [j \in DOMAIN page.children |-> name(page.children[j])]>>],
       name(root),
       [i \in DOMAIN write_set |-> name(write_set[i])],
       IF call = NoCall THEN <<>> ELSE <<call.of, call.key, name(call.child)>>>>
=============================================================================
