------------------------------ MODULE SharedPtr ------------------------------
(***************************************************************************)
(* shared_ptr (common/stl/pointers.hpp): every pool of the program is kept *)
(* alive by the pointers in the systems, trees and iterators that use it,  *)
(* and writes its pages back when the last of them goes.                   *)
(*                                                                         *)
(* A slot is a piece of memory that may hold a pointer.  The operators     *)
(* take a store and return the store after the call, so that one operation *)
(* of a container can make several: ptr is defined on the slots where a    *)
(* pointer has been constructed and not yet destroyed, count on the        *)
(* objects that have not been deleted.  Every object is created together   *)
(* with its one counter, as make_shared does, and the program's calls of   *)
(* shared_ptr with a raw pointer, each of an object just made.             *)
(***************************************************************************)
EXTENDS Integers, FiniteSets

CONSTANTS Slots, Objects, Null

VARIABLE store

ASSUME PointerAssumption == IsFiniteSet(Slots) /\ Null \notin Objects

Constructed(s) == DOMAIN s.ptr

Alive(s) == DOMAIN s.count

Owners(s, obj) == {h \in Constructed(s) : s.ptr[h] = obj}

With(f, x, v) == [y \in DOMAIN f \cup {x} |-> IF y = x THEN v ELSE f[y]]

Without(f, x) == [y \in DOMAIN f \ {x} |-> f[y]]

\* What is true of a store between calls: a counter is the number of owners, an
\* object lives as long as it has one, and no pointer outlives its object.
CountsAreOwners(s) ==
  /\ \A h \in Constructed(s) : s.ptr[h] # Null => s.ptr[h] \in Alive(s)
  /\ \A obj \in Alive(s) : s.count[obj] >= 1 /\ s.count[obj] = Cardinality(Owners(s, obj))

-----------------------------------------------------------------------------
EmptyStore == [ptr |-> [h \in {} |-> Null], count |-> [obj \in {} |-> 0]]

\* drop(): the last owner deletes the object and its counter.
Drop(s, h) ==
  LET obj == s.ptr[h]
  IN IF obj = Null THEN s
     ELSE [ptr   |-> [s.ptr EXCEPT ![h] = Null],
           count |-> IF s.count[obj] = 1 THEN Without(s.count, obj)
                     ELSE [s.count EXCEPT ![obj] = @ - 1]]

\* The pointer just put into h is one owner more.
Shared(s, h) == [s EXCEPT !.count[s.ptr[h]] = @ + 1]

DefaultConstruct(s, h) == [s EXCEPT !.ptr = With(@, h, Null)]

\* From a raw pointer to an object just made.
MakeShared(s, h, obj) == [ptr |-> With(s.ptr, h, obj), count |-> With(s.count, obj, 1)]

\* The copy constructor reads the counter unasked: from must not be empty.
CopyConstruct(s, to, from) ==
  Shared([s EXCEPT !.ptr = With(@, to, s.ptr[from])], to)

MoveConstruct(s, to, from) ==
  [s EXCEPT !.ptr = With([@ EXCEPT ![from] = Null], to, s.ptr[from])]

Destroy(s, h) == LET dropped == Drop(s, h) IN [dropped EXCEPT !.ptr = Without(@, h)]

\* Mutant: the old pointer is written over.
CopyAssignOver(s, to, from) ==
  IF to = from THEN s
  ELSE IF s.ptr[from] = Null THEN [s EXCEPT !.ptr[to] = Null]
  ELSE Shared([s EXCEPT !.ptr[to] = s.ptr[from]], to)

CopyAssign(s, to, from) ==
  LET dropped == Drop(s, to)
  IN IF to = from THEN s
     ELSE IF s.ptr[from] = Null THEN dropped
     ELSE Shared([dropped EXCEPT !.ptr[to] = s.ptr[from]], to)

MoveAssign(s, to, from) ==
  IF to = from THEN s
  ELSE [Drop(s, to) EXCEPT !.ptr[to] = s.ptr[from], !.ptr[from] = Null]

-----------------------------------------------------------------------------
(***************************************************************************)
(* A program that makes one call at a time.  Constructing needs raw memory,*)
(* every other call a pointer that is there.                               *)
(***************************************************************************)
PtrInit == store = EmptyStore

Construct(h) ==
  \/ store' = DefaultConstruct(store, h)
  \/ \E obj \in Objects \ Alive(store) : store' = MakeShared(store, h, obj)
  \/ \E g \in Constructed(store) :
       \/ store.ptr[g] # Null /\ store' = CopyConstruct(store, h, g)
       \/ store' = MoveConstruct(store, h, g)

Use(h) ==
  \/ store' = Destroy(store, h)
  \/ \E g \in Constructed(store) : store' \in {CopyAssign(store, h, g), MoveAssign(store, h, g)}

PtrNext ==
  \/ \E h \in Slots \ Constructed(store) : Construct(h)
  \/ \E h \in Constructed(store) : Use(h)

PtrSpec == PtrInit /\ [][PtrNext]_store

\* A counter is the number of pointers to its object, in every container and
\* local there is; an object is deleted with its last owner, neither earlier, so
\* that no pointer dangles, nor later.
OwnersCounted == CountsAreOwners(store)
=============================================================================
