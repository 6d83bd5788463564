----------------------------- MODULE LinkedList -----------------------------
(***************************************************************************)
(* list (common/stl/list.hpp): nodes linked both ways between a head and a *)
(* tail that hold no element.  The element type is shared_ptr, as in       *)
(* Vector; the value of a node is the slot <<node>>, and of a head or tail *)
(* an empty pointer.                                                       *)
(*                                                                         *)
(* The operators take a heap with fields store, list, prev and next, and   *)
(* return the heap after the call.                                         *)
(***************************************************************************)
EXTENDS SharedPtr, Sequences, SequencesExt, FiniteSetsExt

CONSTANTS Addresses, Nil

Val(node) == <<node>>

\* Addresses are only compared: a new node gets the least one that no node of its
\* list has.
NewNode(m, l) == <<l, Min({a \in Addresses : <<l, a>> \notin DOMAIN m.next})>>

Linked(m, node, before, after) ==
  LET p == [With(m.prev, node, before) EXCEPT ![after] = node]
      n == [With(m.next, node, after) EXCEPT ![before] = node]
  IN [m EXCEPT !.prev = p, !.next = n]

\* insert(pos, cur) for a node whose value is already there.
InsertNode(m, pos, node) == Linked(m, node, m.prev[pos], pos)

\* erase(pos) of a node.
Unlink(m, node) ==
  [m EXCEPT !.next[m.prev[node]] = m.next[node], !.prev[m.next[node]] = m.prev[node]]

Delete(m, node) ==
  [m EXCEPT !.store = Destroy(@, Val(node)),
            !.prev = Without(@, node), !.next = Without(@, node)]

\* The nodes of a list in order, head and tail excluded.
Walk(m, l) ==
  LET rest[node \in DOMAIN m.next] ==
        IF node = m.list[l].tail THEN <<>> ELSE <<node>> \o rest[m.next[node]]
  IN rest[m.next[m.list[l].head]]

Positions(m, l) == ToSet(Walk(m, l)) \cup {m.list[l].tail}

-----------------------------------------------------------------------------
\* A head and a tail.
NewList(m, l) ==
  LET head  == NewNode(m, l)
      first == [m EXCEPT !.store = DefaultConstruct(@, Val(head)),
                         !.prev = With(@, head, Nil), !.next = With(@, head, Nil)]
      tail  == NewNode(first, l)
  IN [first EXCEPT !.store = DefaultConstruct(@, Val(tail)),
        !.prev = With(@, tail, head),
        !.next = [With(@, tail, Nil) EXCEPT ![head] = tail],
        !.list = With(@, l, [head |-> head, tail |-> tail, sz |-> 0])]

\* The destructor deletes every node from the head on.
ListDestroy(m, l) ==
  LET nodes == <<m.list[l].head>> \o Walk(m, l) \o <<m.list[l].tail>>
  IN [FoldLeft(Delete, m, nodes) EXCEPT !.list = Without(@, l)]

ListClear(m, l) == NewList(ListDestroy(m, l), l)

\* Before pos, which may be the tail; push_back and push_front are its two ends.
ListInsert(m, l, pos, value) ==
  LET node == NewNode(m, l)
      made == [m EXCEPT !.store = CopyConstruct(@, Val(node), value)]
  IN [InsertNode(made, pos, node) EXCEPT !.list[l].sz = @ + 1]

\* The same with a value that is moved in.
ListInsertMoved(m, l, pos, value) ==
  LET node == NewNode(m, l)
      made == [m EXCEPT !.store = MoveConstruct(@, Val(node), value)]
  IN [InsertNode(made, pos, node) EXCEPT !.list[l].sz = @ + 1]

ListErase(m, l, pos) == [Delete(Unlink(m, pos), pos) EXCEPT !.list[l].sz = @ - 1]

\* What both the copy constructor and the assignment do after making a new list.
Filled(m, l, other) ==
  FoldLeft(LAMBDA x, node : ListInsert(x, l, x.list[l].tail, Val(node)), NewList(m, l), Walk(m, other))

ListAssign(m, l, other) == IF l = other THEN m ELSE Filled(ListDestroy(m, l), l, other)

FrontNode(m, l) == m.next[m.list[l].head]

BackNode(m, l) == m.prev[m.list[l].tail]
=============================================================================
