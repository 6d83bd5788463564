------------------------------- MODULE Vector -------------------------------
(***************************************************************************)
(* vector (common/stl/vector.hpp): elements in the first len cells of an   *)
(* array that doubles and halves.  The element type is shared_ptr, which   *)
(* tells every constructor, assignment and destructor call apart.          *)
(*                                                                         *)
(* The operators take a heap, a record whose field store holds the cells   *)
(* and vec the vectors, and return the heap after the call.  A vector owns *)
(* one of its two blocks of memory at a time; cell i of block b of vector  *)
(* v is the slot <<v, b, i>>.  Values put in are no elements of the vector *)
(* itself: push_back and insert would read them after moving the elements. *)
(***************************************************************************)
EXTENDS SharedPtr, Sequences, SequencesExt

Cell(v, block, i) == <<v, block, i>>

ElementOf(m, v, i) == Cell(v, m.vec[v].block, i)

UpTo(n) == [k \in 1 .. n |-> k - 1]

\* Mutant: the loop runs upwards, over what it has just written.
UpFrom(n, from) == [k \in 1 .. n - from |-> from + k - 1]

\* The values n-1, n-2, ... , from: the loops that make room run downwards.
DownTo(n, from) == [k \in 1 .. n - from |-> n - k]

\* construct_at for len cells of a block from the elements of a vector.
CopiedInto(m, v, block, u) ==
  [m EXCEPT !.store = FoldLeft(LAMBDA s, i : CopyConstruct(s, Cell(v, block, i), ElementOf(m, u, i)),
                               @, UpTo(m.vec[u].len))]

\* Release(): the elements are destroyed, the block is given back.
Release(m, v) ==
  [m EXCEPT !.store = FoldLeft(LAMBDA s, i : Destroy(s, ElementOf(m, v, i)), @, UpTo(m.vec[v].len))]

Moved(m, v, capacity) ==
  LET block == 1 - m.vec[v].block
  IN [Release(CopiedInto(m, v, block, v), v) EXCEPT !.vec[v].block = block, !.vec[v].capacity = capacity]

\* One cell more than needed: target_size may not reach the capacity.
Expand(m, v, target_size) ==
  IF target_size >= m.vec[v].capacity THEN Moved(m, v, 2 * m.vec[v].capacity) ELSE m

Halved(capacity, len) ==
  LET half[c \in Nat] == IF c >= 2 /\ c \div 4 > len THEN half[c \div 2] ELSE c
  IN half[capacity]

Shrink(m, v) ==
  LET x == m.vec[v]
  IN IF Halved(x.capacity, x.len) = x.capacity THEN m ELSE Moved(m, v, Halved(x.capacity, x.len))

-----------------------------------------------------------------------------
EmptyVector == [block |-> 0, len |-> 0, capacity |-> 1]

NewVector(m, v) == [m EXCEPT !.vec = With(@, v, EmptyVector)]

VectorCopy(m, v, u) ==
  CopiedInto([m EXCEPT !.vec = With(@, v, [m.vec[u] EXCEPT !.block = 0])], v, 0, u)

VectorDestroy(m, v) == [Release(m, v) EXCEPT !.vec = Without(@, v)]

VectorClear(m, v) == [Release(m, v) EXCEPT !.vec[v] = EmptyVector]

\* The old elements go before the new ones come.
VectorAssign(m, v, u) ==
  IF v = u THEN m ELSE VectorCopy(VectorDestroy(m, v), v, u)

PushBack(m, v, value) ==
  LET x == Expand(m, v, m.vec[v].len + 1)
  IN [x EXCEPT !.store = CopyConstruct(@, ElementOf(x, v, x.vec[v].len), value),
               !.vec[v].len = @ + 1]

PopBack(m, v) ==
  Shrink([m EXCEPT !.store = Destroy(@, ElementOf(m, v, m.vec[v].len - 1)),
                   !.vec[v].len = @ - 1], v)

\* A new last cell, then each element from the last to pos one up, then the value.
VectorInsert(m, v, pos, value) ==
  LET x      == Expand(m, v, m.vec[v].len + 1)
      len    == x.vec[v].len
      at(i)  == ElementOf(x, v, i)
      room   == FoldLeft(LAMBDA s, i : CopyAssign(s, at(i + 1), at(i)),
                         CopyConstruct(x.store, at(len), value), DownTo(len, pos))
  IN [x EXCEPT !.store = CopyAssign(room, at(pos), value), !.vec[v].len = @ + 1]

\* Mutant: the element shifted over stays, and the last one too.
VectorEraseLeaving(m, v, pos) ==
  Shrink([m EXCEPT !.vec[v].len = @ - 1,
    !.store = FoldLeft(LAMBDA s, i : CopyAssign(s, ElementOf(m, v, pos + i), ElementOf(m, v, pos + i + 1)),
                       @, UpTo(m.vec[v].len - 1 - pos))], v)

\* Each element after pos one down, then the last cell is destroyed.
VectorErase(m, v, pos) ==
  PopBack([m EXCEPT
    !.store = FoldLeft(LAMBDA s, i : CopyAssign(s, ElementOf(m, v, pos + i), ElementOf(m, v, pos + i + 1)),
                       @, UpTo(m.vec[v].len - 1 - pos))], v)
=============================================================================
