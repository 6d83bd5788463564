----------------------------- MODULE Containers -----------------------------
(***************************************************************************)
(* A program with vectors, lists and locals of shared_ptr, making any of   *)
(* their calls in any order (common/stl/vector.hpp, list.hpp,              *)
(* pointers.hpp).  The operations are those of Vector and LinkedList; here *)
(* are their preconditions, those the code checks and those it leaves to   *)
(* its callers: pop_back and erase of an empty vector are not made, nor is *)
(* a moved-from pointer put into a container.                              *)
(***************************************************************************)
EXTENDS Vector, LinkedList

CONSTANTS Vectors, Lists, Locals, Temp,
          MaxElements,          \* bound: the elements of all containers together
          MaxInLists            \* bound: the elements of all lists together

VARIABLES vec,                  \* the vectors there are -> block, len, capacity
          list,                 \* the lists there are -> head, tail, sz
          prev, next            \* the links of the nodes there are

heapVars == <<store, vec, list, prev, next>>

Heap == [store |-> store, vec |-> vec, list |-> list, prev |-> prev, next |-> next]

Becomes(m) ==
  /\ store' = m.store
  /\ vec' = m.vec
  /\ list' = m.list
  /\ prev' = m.prev
  /\ next' = m.next

InVectors == MapThenSumSet(LAMBDA v : vec[v].len, DOMAIN vec)

InLists == MapThenSumSet(LAMBDA l : list[l].sz, DOMAIN list)

VectorsHaveRoom(n) == InVectors + InLists + n <= MaxElements

ListsHaveRoom(n) == VectorsHaveRoom(n) /\ InLists + n <= MaxInLists

Holding(h) == store.ptr[h] # Null

-----------------------------------------------------------------------------
\* The right hand side of an assignment is a temporary, moved from and destroyed.
Assigned(h, made) == Destroy(MoveAssign(made, h, Temp), Temp)

UseLocal(h) ==
  /\ \/ store' = Assigned(h, DefaultConstruct(store, Temp))
     \/ \E obj \in Objects \ Alive(store) : store' = Assigned(h, MakeShared(store, Temp, obj))
     \/ \E g \in Locals : store' \in {CopyAssign(store, h, g), MoveAssign(store, h, g)}
  /\ UNCHANGED <<vec, list, prev, next>>

ConstructVector(v) ==
  \/ Becomes(NewVector(Heap, v))
  \/ \E u \in DOMAIN vec : VectorsHaveRoom(vec[u].len) /\ Becomes(VectorCopy(Heap, v, u))

GrowVector(v, h) ==
  /\ Holding(h) /\ VectorsHaveRoom(1)
  /\ \/ Becomes(PushBack(Heap, v, h))
     \/ \E pos \in 0 .. vec[v].len : Becomes(VectorInsert(Heap, v, pos, h))

ShrinkVector(v) ==
  \/ Becomes(VectorClear(Heap, v))
  \/ Becomes(VectorDestroy(Heap, v))
  \/ \E u \in DOMAIN vec : VectorsHaveRoom(vec[u].len - vec[v].len) /\ Becomes(VectorAssign(Heap, v, u))
  \/ vec[v].len > 0 /\ Becomes(PopBack(Heap, v))
  \/ \E pos \in 0 .. vec[v].len - 1 : Becomes(VectorErase(Heap, v, pos))

ReadVector(v, h) ==
  \E i \in 0 .. vec[v].len - 1 :
    Becomes([Heap EXCEPT !.store = CopyAssign(@, h, ElementOf(Heap, v, i))])

ConstructList(l) ==
  \/ Becomes(NewList(Heap, l))
  \/ \E k \in DOMAIN list : ListsHaveRoom(list[k].sz) /\ Becomes(Filled(Heap, l, k))

GrowList(l, h) ==
  /\ Holding(h) /\ ListsHaveRoom(1)
  /\ \E pos \in Positions(Heap, l) :
       Becomes(ListInsert(Heap, l, pos, h)) \/ Becomes(ListInsertMoved(Heap, l, pos, h))

ShrinkList(l) ==
  \/ Becomes(ListClear(Heap, l))
  \/ Becomes(ListDestroy(Heap, l))
  \/ \E k \in DOMAIN list : ListsHaveRoom(list[k].sz - list[l].sz) /\ Becomes(ListAssign(Heap, l, k))
  \/ \E pos \in Positions(Heap, l) \ {list[l].tail} : Becomes(ListErase(Heap, l, pos))

\* Reading an element; and what a tree descent does with its guards, moving the
\* last one out before it is popped.
ReadList(l, h) ==
  /\ list[l].sz > 0
  /\ \/ Becomes([Heap EXCEPT !.store = CopyAssign(@, h, Val(FrontNode(Heap, l)))])
     \/ LET back == BackNode(Heap, l)
        IN Becomes(ListErase([Heap EXCEPT !.store = MoveAssign(@, h, Val(back))], l, back))

Init ==
  /\ store = [EmptyStore EXCEPT !.ptr = [h \in Locals |-> Null]]
  /\ vec = [v \in {} |-> EmptyVector]
  /\ list = [l \in {} |-> Nil]
  /\ prev = [n \in {} |-> Nil] /\ next = [n \in {} |-> Nil]

Next ==
  \/ \E h \in Locals :
       \/ UseLocal(h)
       \/ \E v \in DOMAIN vec : GrowVector(v, h) \/ ReadVector(v, h)
       \/ \E l \in DOMAIN list : GrowList(l, h) \/ ReadList(l, h)
  \/ \E v \in Vectors \ DOMAIN vec : ConstructVector(v)
  \/ \E v \in DOMAIN vec : ShrinkVector(v)
  \/ \E l \in Lists \ DOMAIN list : ConstructList(l)
  \/ \E l \in DOMAIN list : ShrinkList(l)

Spec == Init /\ [][Next]_heapVars

-----------------------------------------------------------------------------
VectorSlots(v) == {ElementOf(Heap, v, i) : i \in 0 .. vec[v].len - 1}

\* The slots that hold a pointer are the locals, the first len cells of each
\* vector and the values of the nodes of each list: nothing is constructed twice
\* or left behind when a vector moves to another array.  A vector has always room
\* for one more element before it moves, and gives memory back when it is less
\* than a quarter full.  The links of a list run the same way forwards and
\* backwards, and every node is on a list.
LayoutSound ==
  LET nodes(l) == <<list[l].head>> \o Walk(Heap, l) \o <<list[l].tail>>
  IN /\ Constructed(store) = Locals \cup UNION {VectorSlots(v) : v \in DOMAIN vec}
                                    \cup {Val(n) : n \in DOMAIN next}
     /\ \A v \in DOMAIN vec : LET x == vec[v] IN
          /\ x.len < x.capacity \/ x.capacity = 1
          /\ x.capacity < 4 * (x.len + 1) \/ x.capacity <= 2
     /\ DOMAIN next = UNION {ToSet(nodes(l)) : l \in DOMAIN list}
     /\ \A l \in DOMAIN list :
          /\ Len(Walk(Heap, l)) = list[l].sz
          /\ \A i \in 2 .. Len(nodes(l)) : prev[nodes(l)[i]] = nodes(l)[i - 1]

Elements(c) ==
  IF c \in DOMAIN vec THEN [i \in 1 .. vec[c].len |-> store.ptr[ElementOf(Heap, c, i - 1)]]
  ELSE LET walk == Walk(Heap, c) IN [i \in DOMAIN walk |-> store.ptr[Val(walk[i])]]

Promise == INSTANCE Collections WITH
  Containers <- Vectors \cup Lists,
  contents <- [c \in DOMAIN vec \cup DOMAIN list |-> Elements(c)],
  held <- [h \in Locals |-> store.ptr[h]],
  alive <- Alive(store)

\* To its callers a vector or a list is a sequence, whatever its memory does
\* meanwhile, and objects go with the last reference to them.
ImplementsCollections == Promise!Spec
=============================================================================
