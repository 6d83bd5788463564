--------------------------- MODULE SharedPtrProofs ---------------------------
(***************************************************************************)
(* Whatever the calls of shared_ptr, and however many slots and objects    *)
(* there are, a counter is the number of owners.  A call is a drop, a move *)
(* or one more owner, or two of them after each other; each of the three   *)
(* keeps the invariant.                                                    *)
(***************************************************************************)
EXTENDS SharedPtr, FiniteSetTheorems, TLAPS

Pointers == UNION {[D -> Objects \cup {Null}] : D \in SUBSET Slots}

Counters == UNION {[A -> Nat] : A \in SUBSET Objects}

Stores == [ptr : Pointers, count : Counters]

IInv(s) == s \in Stores /\ CountsAreOwners(s)

Free(s, h) == h \in Slots /\ (h \in Constructed(s) => s.ptr[h] = Null)

-----------------------------------------------------------------------------
\* The owners of an object are finitely many.
LEMMA OwnersFinite ==
  ASSUME NEW s \in Stores, NEW obj
  PROVE  IsFiniteSet(Owners(s, obj))
<1>1. Owners(s, obj) \subseteq Slots
  BY DEF Stores, Pointers, Owners, Constructed
<1> QED BY <1>1, FS_Subset, PointerAssumption

IsWith(g, f, h, v) ==
  /\ g \in Pointers
  /\ DOMAIN g = DOMAIN f \cup {h} /\ g[h] = v
  /\ \A x \in DOMAIN f \ {h} : g[x] = f[x]

LEMMA WithIs ==
  ASSUME NEW f \in Pointers, NEW h \in Slots, NEW v \in Objects \cup {Null}
  PROVE  IsWith(With(f, h, v), f, h, v)
<1>1. PICK D \in SUBSET Slots : f \in [D -> Objects \cup {Null}]
  BY DEF Pointers
<1>2. With(f, h, v) \in [D \cup {h} -> Objects \cup {Null}]
  BY <1>1 DEF With
<1>3. D \cup {h} \in SUBSET Slots
  OBVIOUS
<1> QED BY <1>1, <1>2, <1>3 DEF With, Pointers, IsWith

LEMMA WithType ==
  ASSUME NEW f \in Pointers, NEW h \in Slots, NEW v \in Objects \cup {Null}
  PROVE  /\ With(f, h, v) \in Pointers
         /\ DOMAIN With(f, h, v) = DOMAIN f \cup {h}
         /\ With(f, h, v)[h] = v
         /\ \A g \in DOMAIN f \ {h} : With(f, h, v)[g] = f[g]
<1>1. IsWith(With(f, h, v), f, h, v)
  BY WithIs
<1> QED BY <1>1 DEF IsWith

\* One owner more of an object that is there.
LEMMA SharedKeeps ==
  ASSUME NEW s, IInv(s), NEW h, Free(s, h), NEW obj \in Alive(s),
         NEW t, t = [ptr |-> With(s.ptr, h, obj), count |-> [s.count EXCEPT ![obj] = @ + 1]]
  PROVE  IInv(t)
<1>1. PICK A \in SUBSET Objects : s.count \in [A -> Nat]
  BY DEF IInv, Stores, Counters
<1>2. obj \in A /\ Alive(s) = A /\ Alive(t) = A /\ obj \in Objects /\ obj # Null
  BY <1>1, PointerAssumption DEF Alive
<1>3. t.count \in [A -> Nat] /\ t.count[obj] = s.count[obj] + 1
      /\ \A o \in A \ {obj} : t.count[o] = s.count[o]
  BY <1>1, <1>2
<1>4. /\ t.ptr \in Pointers
      /\ Constructed(t) = Constructed(s) \cup {h} /\ t.ptr[h] = obj
      /\ \A g \in Constructed(s) \ {h} : t.ptr[g] = s.ptr[g]
  <2>1. t.ptr = With(s.ptr, h, obj) /\ s.ptr \in Pointers /\ h \in Slots
    BY DEF IInv, Free, Stores
  <2>2. /\ With(s.ptr, h, obj) \in Pointers
        /\ DOMAIN With(s.ptr, h, obj) = DOMAIN s.ptr \cup {h}
        /\ With(s.ptr, h, obj)[h] = obj
        /\ \A g \in DOMAIN s.ptr \ {h} : With(s.ptr, h, obj)[g] = s.ptr[g]
    <3>1. obj \in Objects \cup {Null}
      BY <1>2
    <3> QED BY <2>1, <3>1, WithType, Zenon
  <2> QED BY <2>1, <2>2 DEF Constructed
<1>5. t \in Stores
  BY <1>3, <1>4 DEF Stores, Counters
<1>6. \A g \in Constructed(t) : t.ptr[g] # Null => t.ptr[g] \in Alive(t)
  BY <1>2, <1>4 DEF IInv, CountsAreOwners
<1>7. ASSUME NEW o \in Alive(t)
      PROVE  t.count[o] >= 1 /\ t.count[o] = Cardinality(Owners(t, o))
  <2>1. s.count[o] \in Nat /\ s.count[o] >= 1 /\ s.count[o] = Cardinality(Owners(s, o))
    BY <1>1, <1>2 DEF IInv, CountsAreOwners
  <2>2. CASE o = obj
    <3>1. h \notin Owners(s, obj)
      BY <1>2 DEF Owners, Free
    <3>2. Owners(t, obj) = Owners(s, obj) \cup {h}
      BY <1>2, <1>4 DEF Owners
    <3>3. Cardinality(Owners(t, obj)) = Cardinality(Owners(s, obj)) + 1
      BY <3>1, <3>2, FS_AddElement, OwnersFinite DEF IInv
    <3> QED BY <2>1, <2>2, <3>3, <1>3
  <2>3. CASE o # obj
    <3>1. o # Null
      BY <1>2, PointerAssumption
    <3>2. Owners(t, o) = Owners(s, o)
      BY <1>4, <2>3, <3>1 DEF Owners, Free
    <3> QED BY <2>1, <2>3, <3>2, <1>2, <1>3
  <2> QED BY <2>2, <2>3
<1> QED BY <1>5, <1>6, <1>7 DEF IInv, CountsAreOwners

\* drop() empties the pointer, and touches no other.
LEMMA DropKeeps ==
  ASSUME NEW s, IInv(s), NEW h \in Constructed(s)
  PROVE  /\ IInv(Drop(s, h))
         /\ Drop(s, h).ptr = [s.ptr EXCEPT ![h] = Null]
<1> DEFINE obj == s.ptr[h]
           t   == Drop(s, h)
<1>1. PICK A \in SUBSET Objects : s.count \in [A -> Nat]
  BY DEF IInv, Stores, Counters
<1>2. PICK D \in SUBSET Slots : s.ptr \in [D -> Objects \cup {Null}]
  BY DEF IInv, Stores, Pointers
<1>3. Alive(s) = A /\ Constructed(s) = D /\ Null \notin A
  BY <1>1, <1>2, PointerAssumption DEF Alive, Constructed
<1>4. CASE obj = Null
  BY <1>2, <1>3, <1>4 DEF Drop
<1>5. CASE obj # Null
  <2>1. obj \in A /\ s.count[obj] >= 1 /\ s.count[obj] = Cardinality(Owners(s, obj))
    BY <1>3, <1>5 DEF IInv, CountsAreOwners
  <2>2. t = [ptr   |-> [s.ptr EXCEPT ![h] = Null],
             count |-> IF s.count[obj] = 1 THEN Without(s.count, obj)
                       ELSE [s.count EXCEPT ![obj] = @ - 1]]
    BY <1>5 DEF Drop
  <2>21. t.ptr = [s.ptr EXCEPT ![h] = Null]
    BY <2>2
  <2>3. t.ptr \in [D -> Objects \cup {Null}] /\ t.ptr[h] = Null
        /\ \A g \in D \ {h} : t.ptr[g] = s.ptr[g]
    BY <1>2, <1>3, <2>2
  <2>4. Constructed(t) = D
    BY <2>3 DEF Constructed
  <2>5. Owners(t, obj) = Owners(s, obj) \ {h} /\ h \in Owners(s, obj)
    BY <1>3, <1>5, <2>3, <2>4 DEF Owners
  <2>6. Cardinality(Owners(t, obj)) = s.count[obj] - 1 /\ IsFiniteSet(Owners(t, obj))
    BY <2>1, <2>5, FS_RemoveElement, OwnersFinite DEF IInv
  <2>7. ASSUME NEW o \in A \ {obj}
        PROVE  Owners(t, o) = Owners(s, o)
    BY <1>3, <2>3, <2>4 DEF Owners
  <2>8. CASE s.count[obj] = 1
    <3>1. t.count \in [A \ {obj} -> Nat] /\ \A o \in A \ {obj} : t.count[o] = s.count[o]
      BY <1>1, <2>2, <2>8 DEF Without
    <3>2. t \in Stores
      BY <2>2, <2>3, <3>1 DEF Stores, Pointers, Counters
    <3>3. Owners(t, obj) = {}
      BY <2>6, <2>8, FS_EmptySet
    <3>4. \A g \in D : t.ptr[g] # Null => t.ptr[g] \in A \ {obj}
      BY <1>3, <2>3, <2>4, <3>3 DEF IInv, CountsAreOwners, Owners
    <3>5. Alive(t) = A \ {obj}
      BY <3>1 DEF Alive
    <3>6. \A o \in A \ {obj} : t.count[o] >= 1 /\ t.count[o] = Cardinality(Owners(t, o))
      BY <2>7, <3>1, <1>3 DEF IInv, CountsAreOwners
    <3>7. CountsAreOwners(t)
      BY <2>2, <2>4, <3>4, <3>5, <3>6 DEF CountsAreOwners
    <3>8. IInv(t)
      BY <3>2, <3>7 DEF IInv
    <3> QED BY <3>8, <2>21, Zenon
  <2>9. CASE s.count[obj] # 1
    <3>1. t.count \in [A -> Nat] /\ t.count[obj] = s.count[obj] - 1
          /\ \A o \in A \ {obj} : t.count[o] = s.count[o]
      BY <1>1, <2>1, <2>2, <2>9
    <3>2. t \in Stores
      BY <2>2, <2>3, <3>1 DEF Stores, Pointers, Counters
    <3>3. Alive(t) = A
      BY <3>1 DEF Alive
    <3>4. \A g \in D : t.ptr[g] # Null => t.ptr[g] \in A
      BY <1>3, <2>3 DEF IInv, CountsAreOwners
    <3>5. \A o \in A : t.count[o] >= 1 /\ t.count[o] = Cardinality(Owners(t, o))
      BY <1>1, <1>3, <2>1, <2>6, <2>7, <2>9, <3>1 DEF IInv, CountsAreOwners
    <3>6. CountsAreOwners(t)
      BY <2>2, <2>4, <3>3, <3>4, <3>5 DEF CountsAreOwners
    <3>7. IInv(t)
      BY <3>2, <3>6 DEF IInv
    <3> QED BY <3>7, <2>21, Zenon
  <2> QED BY <2>8, <2>9
<1> QED BY <1>4, <1>5

\* A move: what from pointed to, to points to afterwards.
MovedTo(s, to, from) ==
  [s EXCEPT !.ptr = With([@ EXCEPT ![from] = Null], to, s.ptr[from])]

LEMMA MoveKeeps ==
  ASSUME NEW s, IInv(s), NEW from \in Constructed(s), NEW to, Free(s, to), from # to
  PROVE  IInv(MovedTo(s, to, from))
<1> DEFINE emptied == [s EXCEPT !.ptr = [@ EXCEPT ![from] = Null]]
           t       == MovedTo(s, to, from)
           val     == s.ptr[from]
<1>1. PICK D \in SUBSET Slots : s.ptr \in [D -> Objects \cup {Null}]
  BY DEF IInv, Stores, Pointers
<1>2. Constructed(s) = D /\ val \in Objects \cup {Null} /\ to \in Slots /\ Null \notin Objects
  BY <1>1, PointerAssumption DEF Constructed, Free
<1>3. emptied \in Stores /\ Constructed(emptied) = D
      /\ \A g \in D : emptied.ptr[g] = IF g = from THEN Null ELSE s.ptr[g]
  <2>1. emptied.ptr \in [D -> Objects \cup {Null}] /\ emptied.count = s.count
    BY <1>1, <1>2 DEF IInv, Stores
  <2> QED BY <1>1, <1>2, <2>1 DEF IInv, Stores, Pointers, Constructed
<1>4. t.ptr = With(emptied.ptr, to, val) /\ t.count = s.count
      /\ t = [ptr |-> t.ptr, count |-> t.count]
  BY DEF IInv, Stores, MovedTo
<1>5. /\ t.ptr \in Pointers
      /\ Constructed(t) = D \cup {to} /\ t.ptr[to] = val
      /\ \A g \in D \ {to} : t.ptr[g] = emptied.ptr[g]
  <2>1. emptied.ptr \in Pointers
    BY <1>3 DEF Stores
  <2> HIDE DEF emptied, val, t
  <2>2. IsWith(With(emptied.ptr, to, val), emptied.ptr, to, val)
    BY <1>2, <2>1, WithIs
  <2> QED BY <1>3, <1>4, <2>2 DEF Constructed, IsWith
<1>6. t \in Stores /\ Alive(t) = Alive(s)
  <2>1. s.count \in Counters
    BY DEF IInv, Stores
  <2> HIDE DEF t
  <2> QED BY <1>4, <1>5, <2>1 DEF Stores, Alive
<1>7. t.ptr[from] = Null
  BY <1>2, <1>3, <1>5
<1>8. \A g \in Constructed(t) : t.ptr[g] = IF g = to THEN val ELSE IF g = from THEN Null ELSE s.ptr[g]
  BY <1>2, <1>3, <1>5
<1>9. \A g \in Constructed(t) : t.ptr[g] # Null => t.ptr[g] \in Alive(t)
  <2> HIDE DEF t
  <2> QED BY <1>2, <1>5, <1>6, <1>8 DEF IInv, CountsAreOwners
<1>10. ASSUME NEW o \in Alive(t)
       PROVE  t.count[o] >= 1 /\ t.count[o] = Cardinality(Owners(t, o))
  <2>1. o # Null /\ s.count[o] >= 1 /\ s.count[o] = Cardinality(Owners(s, o)) /\ t.count[o] = s.count[o]
    <3> HIDE DEF t
    <3> QED BY <1>2, <1>4, <1>6, PointerAssumption DEF IInv, CountsAreOwners, Stores, Counters, Alive
  <2>2. IsFiniteSet(Owners(s, o))
    BY OwnersFinite DEF IInv
  <2>3. to \notin Owners(s, o)
    BY <2>1 DEF Free, Owners
  <2>4. CASE val = o
    <3>1. Owners(t, o) = (Owners(s, o) \ {from}) \cup {to} /\ from \in Owners(s, o)
      <4> HIDE DEF t
      <4> QED BY <1>2, <1>5, <1>8, <2>1, <2>3, <2>4 DEF Owners
    <3>2. Cardinality(Owners(s, o) \ {from}) = Cardinality(Owners(s, o)) - 1
          /\ IsFiniteSet(Owners(s, o) \ {from})
      BY <2>2, <3>1, FS_RemoveElement
    <3>3. Cardinality(Owners(t, o)) = Cardinality(Owners(s, o) \ {from}) + 1
      BY <2>3, <3>1, <3>2, FS_AddElement
    <3> QED BY <2>1, <2>2, <3>2, <3>3, FS_CardinalityType
  <2>5. CASE val # o
    <3>1. Owners(t, o) = Owners(s, o)
      <4> HIDE DEF t
      <4> QED BY <1>2, <1>5, <1>8, <2>1, <2>3, <2>5 DEF Owners
    <3> QED BY <2>1, <3>1
  <2> QED BY <2>4, <2>5
<1> QED BY <1>6, <1>9, <1>10 DEF IInv, CountsAreOwners, MovedTo

\* An empty pointer comes or goes.
LEMMA EmptyKeeps ==
  ASSUME NEW s, IInv(s), NEW h \in Slots,
         NEW t, t.ptr \in Pointers, t = [ptr |-> t.ptr, count |-> s.count],
         Constructed(s) \ {h} = Constructed(t) \ {h},
         h \in Constructed(s) => s.ptr[h] = Null,
         h \in Constructed(t) => t.ptr[h] = Null,
         \A g \in Constructed(s) \ {h} : t.ptr[g] = s.ptr[g]
  PROVE  IInv(t)
<1>1. t.count = s.count
  OBVIOUS
<1>2. t \in Stores /\ Alive(t) = Alive(s)
  BY <1>1 DEF IInv, Stores, Alive
<1>3. \A o \in Alive(s) : o # Null /\ Owners(t, o) = Owners(s, o)
  <2>1. \A o \in Alive(s) : o # Null
    BY PointerAssumption DEF IInv, Stores, Counters, Alive
  <2> QED BY <2>1 DEF Owners
<1>4. \A g \in Constructed(t) : t.ptr[g] # Null => t.ptr[g] \in Alive(t)
  BY <1>2 DEF IInv, CountsAreOwners
<1> QED BY <1>1, <1>2, <1>3, <1>4 DEF IInv, CountsAreOwners

-----------------------------------------------------------------------------
(* The calls. *)

LEMMA DefaultConstructKeeps ==
  ASSUME NEW s, IInv(s), NEW h \in Slots \ Constructed(s)
  PROVE  IInv(DefaultConstruct(s, h))
<1> DEFINE t == DefaultConstruct(s, h)
<1>1. s.ptr \in Pointers /\ s = [ptr |-> s.ptr, count |-> s.count]
  BY DEF IInv, Stores
<1>2. t = [ptr |-> With(s.ptr, h, Null), count |-> s.count] /\ t.ptr = With(s.ptr, h, Null)
  BY <1>1 DEF DefaultConstruct
<1>3. /\ With(s.ptr, h, Null) \in Pointers
      /\ DOMAIN With(s.ptr, h, Null) = DOMAIN s.ptr \cup {h}
      /\ With(s.ptr, h, Null)[h] = Null
      /\ \A g \in DOMAIN s.ptr \ {h} : With(s.ptr, h, Null)[g] = s.ptr[g]
  <2>1. Null \in Objects \cup {Null}
    OBVIOUS
  <2> QED BY <1>1, <2>1, WithType, Zenon
<1> HIDE DEF t
<1>4. /\ t.ptr \in Pointers /\ t = [ptr |-> t.ptr, count |-> s.count]
      /\ Constructed(t) = Constructed(s) \cup {h} /\ t.ptr[h] = Null
      /\ \A g \in Constructed(s) \ {h} : t.ptr[g] = s.ptr[g]
  BY <1>2, <1>3 DEF Constructed
<1> QED BY <1>4, EmptyKeeps DEF t

LEMMA MakeSharedKeeps ==
  ASSUME NEW s, IInv(s), NEW h \in Slots \ Constructed(s), NEW obj \in Objects \ Alive(s)
  PROVE  IInv(MakeShared(s, h, obj))
<1> DEFINE t == MakeShared(s, h, obj)
<1>1. PICK A \in SUBSET Objects : s.count \in [A -> Nat]
  BY DEF IInv, Stores, Counters
<1>2. Alive(s) = A /\ obj # Null /\ Null \notin A
  BY <1>1, PointerAssumption DEF Alive
<1>3. t = [ptr |-> With(s.ptr, h, obj), count |-> With(s.count, obj, 1)]
  BY DEF MakeShared
<1>4. t.count \in [A \cup {obj} -> Nat] /\ t.count[obj] = 1 /\ \A o \in A : t.count[o] = s.count[o]
  BY <1>1, <1>2, <1>3 DEF With
<1>5. /\ t.ptr \in Pointers
      /\ Constructed(t) = Constructed(s) \cup {h} /\ t.ptr[h] = obj
      /\ \A g \in Constructed(s) : t.ptr[g] = s.ptr[g]
  <2>1. s.ptr \in Pointers /\ obj \in Objects \cup {Null} /\ h \in Slots
    BY DEF IInv, Stores
  <2>2. IsWith(With(s.ptr, h, obj), s.ptr, h, obj)
    BY <2>1, WithIs
  <2> QED BY <1>3, <2>2 DEF Constructed, IsWith
<1>6. t \in Stores
  BY <1>3, <1>4, <1>5 DEF Stores, Counters
<1>7. Owners(s, obj) = {}
  BY <1>2 DEF IInv, CountsAreOwners, Owners
<1>8. Owners(t, obj) = {h} /\ \A o \in A : Owners(t, o) = Owners(s, o)
  BY <1>2, <1>5, <1>7 DEF Owners
<1>9. Cardinality(Owners(t, obj)) = 1
  BY <1>8, FS_Singleton
<1> HIDE DEF t
<1>10. Alive(t) = A \cup {obj}
  BY <1>4 DEF Alive
<1>11. \A g \in Constructed(t) : t.ptr[g] # Null => t.ptr[g] \in Alive(t)
  BY <1>2, <1>5, <1>10 DEF IInv, CountsAreOwners
<1>12. \A o \in Alive(t) : t.count[o] >= 1 /\ t.count[o] = Cardinality(Owners(t, o))
  BY <1>2, <1>4, <1>8, <1>9, <1>10 DEF IInv, CountsAreOwners
<1> QED BY <1>6, <1>11, <1>12 DEF IInv, CountsAreOwners, t

LEMMA CopyConstructKeeps ==
  ASSUME NEW s, IInv(s), NEW to \in Slots \ Constructed(s),
         NEW from \in Constructed(s), s.ptr[from] # Null
  PROVE  IInv(CopyConstruct(s, to, from))
<1> DEFINE obj == s.ptr[from]
           f   == With(s.ptr, to, obj)
<1>1. obj \in Alive(s) /\ Free(s, to)
  BY DEF IInv, CountsAreOwners, Free
<1>2. f[to] = obj
  BY DEF With
<1>3. CopyConstruct(s, to, from) = [ptr |-> f, count |-> [s.count EXCEPT ![obj] = @ + 1]]
  <2> HIDE DEF f, obj
  <2>1. s = [ptr |-> s.ptr, count |-> s.count]
    BY DEF IInv, Stores
  <2>2. CopyConstruct(s, to, from) = Shared([ptr |-> f, count |-> s.count], to)
    BY <2>1 DEF CopyConstruct, f, obj
  <2> QED BY <1>2, <2>2 DEF Shared
<1> HIDE DEF f
<1> QED BY <1>1, <1>3, SharedKeeps DEF f

LEMMA DestroyKeeps ==
  ASSUME NEW s, IInv(s), NEW h \in Constructed(s)
  PROVE  IInv(Destroy(s, h))
<1> DEFINE d == Drop(s, h)
           t == Destroy(s, h)
<1>1. IInv(d) /\ d.ptr = [s.ptr EXCEPT ![h] = Null]
  BY DropKeeps
<1>2. PICK D \in SUBSET Slots : s.ptr \in [D -> Objects \cup {Null}]
  BY DEF IInv, Stores, Pointers
<1> HIDE DEF d
<1>3. d.ptr \in [D -> Objects \cup {Null}] /\ d.ptr[h] = Null /\ h \in D /\ Constructed(d) = D
  BY <1>1, <1>2 DEF Constructed
<1>4. t = [ptr |-> Without(d.ptr, h), count |-> d.count]
  BY <1>1 DEF Destroy, d, IInv, Stores
<1>5. Without(d.ptr, h) \in [D \ {h} -> Objects \cup {Null}]
      /\ \A g \in D \ {h} : Without(d.ptr, h)[g] = d.ptr[g]
  BY <1>3 DEF Without
<1> HIDE DEF t
<1>6. t.ptr \in Pointers /\ Constructed(t) = D \ {h} /\ \A g \in D \ {h} : t.ptr[g] = d.ptr[g]
  BY <1>4, <1>5 DEF Pointers, Constructed
<1>7. t = [ptr |-> t.ptr, count |-> d.count]
  BY <1>4
<1> QED BY <1>1, <1>2, <1>3, <1>6, <1>7, EmptyKeeps DEF t

LEMMA CopyAssignKeeps ==
  ASSUME NEW s, IInv(s), NEW to \in Constructed(s), NEW from \in Constructed(s)
  PROVE  IInv(CopyAssign(s, to, from))
<1> DEFINE d   == Drop(s, to)
           obj == s.ptr[from]
<1>1. IInv(d) /\ d.ptr = [s.ptr EXCEPT ![to] = Null]
  BY DropKeeps
<1>2. CASE to = from \/ obj = Null
  BY <1>1, <1>2 DEF CopyAssign
<1>3. CASE to # from /\ obj # Null
  <2>1. PICK D \in SUBSET Slots : s.ptr \in [D -> Objects \cup {Null}]
    BY DEF IInv, Stores, Pointers
  <2> HIDE DEF d
  <2>2. to \in D /\ from \in D /\ Constructed(d) = D /\ d.ptr[to] = Null /\ d.ptr[from] = obj
    BY <1>1, <1>3, <2>1 DEF Constructed
  <2>3. obj \in Alive(d) /\ Free(d, to)
    BY <1>1, <1>3, <2>1, <2>2 DEF IInv, CountsAreOwners, Free
  <2>4. With(d.ptr, to, obj) = [d.ptr EXCEPT ![to] = obj] /\ With(d.ptr, to, obj)[to] = obj
    BY <1>1, <2>1, <2>2 DEF With
  <2>5. CopyAssign(s, to, from) = [ptr |-> With(d.ptr, to, obj), count |-> [d.count EXCEPT ![obj] = @ + 1]]
    <3>1. d = [ptr |-> d.ptr, count |-> d.count]
      BY <1>1 DEF IInv, Stores
    <3>2. CopyAssign(s, to, from) = Shared([d EXCEPT !.ptr[to] = obj], to)
      BY <1>3 DEF CopyAssign, d
    <3>3. [d EXCEPT !.ptr[to] = obj] = [ptr |-> With(d.ptr, to, obj), count |-> d.count]
      BY <2>4, <3>1
    <3> DEFINE f == With(d.ptr, to, obj)
    <3>4. CopyAssign(s, to, from) = Shared([ptr |-> f, count |-> d.count], to) /\ f[to] = obj
      BY <2>4, <3>2, <3>3
    <3> HIDE DEF f, obj
    <3> QED BY <3>4 DEF Shared, f
  <2> QED BY <1>1, <2>3, <2>5, SharedKeeps
<1> QED BY <1>2, <1>3

LEMMA MoveConstructKeeps ==
  ASSUME NEW s, IInv(s), NEW to \in Slots \ Constructed(s), NEW from \in Constructed(s)
  PROVE  IInv(MoveConstruct(s, to, from))
<1>1. MoveConstruct(s, to, from) = MovedTo(s, to, from) /\ Free(s, to) /\ from # to
  BY DEF MoveConstruct, MovedTo, Free
<1> QED BY <1>1, MoveKeeps

LEMMA MoveAssignKeeps ==
  ASSUME NEW s, IInv(s), NEW to \in Constructed(s), NEW from \in Constructed(s)
  PROVE  IInv(MoveAssign(s, to, from))
<1> DEFINE d == Drop(s, to)
<1>1. IInv(d) /\ d.ptr = [s.ptr EXCEPT ![to] = Null]
  BY DropKeeps
<1>2. CASE to = from
  BY <1>2 DEF MoveAssign
<1>3. CASE to # from
  <2>1. PICK D \in SUBSET Slots : s.ptr \in [D -> Objects \cup {Null}]
    BY DEF IInv, Stores, Pointers
  <2> HIDE DEF d
  <2>2. /\ to \in D /\ from \in D /\ Constructed(d) = D /\ d.ptr \in [D -> Objects \cup {Null}]
        /\ d.ptr[to] = Null /\ d.ptr[from] = s.ptr[from]
    BY <1>1, <1>3, <2>1 DEF Constructed
  <2>3. Free(d, to)
    BY <2>1, <2>2 DEF Free
  <2>4. With([d.ptr EXCEPT ![from] = Null], to, d.ptr[from])
        = [[d.ptr EXCEPT ![to] = s.ptr[from]] EXCEPT ![from] = Null]
    BY <1>3, <2>2 DEF With
  <2>5. d = [ptr |-> d.ptr, count |-> d.count]
    BY <1>1 DEF IInv, Stores
  <2>6. MoveAssign(s, to, from) = MovedTo(d, to, from)
    <3>1. MoveAssign(s, to, from) = [d EXCEPT !.ptr[to] = s.ptr[from], !.ptr[from] = Null]
      BY <1>3 DEF MoveAssign, d
    <3> QED BY <2>4, <2>5, <3>1 DEF MovedTo
  <2> QED BY <1>1, <1>3, <2>2, <2>3, <2>6, MoveKeeps
<1> QED BY <1>2, <1>3

-----------------------------------------------------------------------------
\* Any sequence of constructors, assignments and destructors of shared_ptr keeps
\* each counter equal to the number of pointers to its object: no object dies
\* while one of them is left, and none outlives the last.
THEOREM PointersCounted == PtrSpec => []OwnersCounted
<1> DEFINE Inv == IInv(store)
<1>1. PtrInit => Inv
  <2> SUFFICES ASSUME PtrInit PROVE IInv(store)
    OBVIOUS
  <2>1. /\ store.ptr \in [{} -> Objects \cup {Null}] /\ store.count \in [{} -> Nat]
        /\ store = [ptr |-> store.ptr, count |-> store.count]
    BY DEF PtrInit, EmptyStore
  <2>2. store \in Stores
    BY <2>1 DEF Stores, Pointers, Counters
  <2> QED BY <2>1, <2>2 DEF IInv, CountsAreOwners, Constructed, Alive
<1>2. Inv /\ [PtrNext]_store => Inv'
  <2> SUFFICES ASSUME IInv(store), [PtrNext]_store PROVE IInv(store')
    OBVIOUS
  <2>1. ASSUME NEW h \in Slots \ Constructed(store), Construct(h)
        PROVE  IInv(store')
    BY <2>1, DefaultConstructKeeps, MakeSharedKeeps, CopyConstructKeeps, MoveConstructKeeps DEF Construct
  <2>2. ASSUME NEW h \in Constructed(store), Use(h)
        PROVE  IInv(store')
    BY <2>2, DestroyKeeps, CopyAssignKeeps, MoveAssignKeeps DEF Use
  <2>3. CASE UNCHANGED store
    BY <2>3
  <2> QED BY <2>1, <2>2, <2>3 DEF PtrNext
<1>3. Inv => OwnersCounted
  BY DEF IInv, OwnersCounted
<1> HIDE DEF Inv
<1> QED BY <1>1, <1>2, <1>3, PTL DEF PtrSpec
=============================================================================
