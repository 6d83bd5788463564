----------------------------- MODULE Collections -----------------------------
(***************************************************************************)
(* What vector and list promise, with no memory: containers are sequences  *)
(* of objects, locals hold one object or none, and an object is there as   *)
(* long as something refers to it.                                         *)
(***************************************************************************)
EXTENDS Integers, Sequences, SequencesExt

CONSTANTS Containers, Locals, Objects, Null

VARIABLES contents,       \* container -> its elements, for the containers there are
          held,           \* local -> its object, or Null
          alive           \* the objects there are

collectionVars == <<contents, held, alive>>

Referenced(things, hands) ==
  (UNION {ToSet(things[c]) : c \in DOMAIN things} \cup {hands[h] : h \in Locals}) \ {Null}

\* An action says what becomes of contents and held; objects come when first
\* referred to, and go with the last reference.
Step(things, hands) ==
  /\ contents' = things
  /\ held' = hands
  /\ alive' = Referenced(things, hands)

Having(c, seq) == [d \in DOMAIN contents \cup {c} |-> IF d = c THEN seq ELSE contents[d]]

Lacking(c) == [d \in DOMAIN contents \ {c} |-> contents[d]]

Hold(h) ==
  \/ \E obj \in (Objects \ alive) \cup {Null} : Step(contents, [held EXCEPT ![h] = obj])
  \/ \E g \in Locals :
       \/ Step(contents, [held EXCEPT ![h] = held[g]])
       \/ g # h /\ Step(contents, [held EXCEPT ![h] = held[g], ![g] = Null])

Open(c) == \E seq \in {<<>>} \cup {contents[d] : d \in DOMAIN contents} : Step(Having(c, seq), held)

Put(c, h) ==
  /\ held[h] # Null
  /\ \E pos \in 1 .. Len(contents[c]) + 1, hands \in {held, [held EXCEPT ![h] = Null]} :
       Step(Having(c, InsertAt(contents[c], pos, held[h])), hands)

Withdraw(c) == \E pos \in DOMAIN contents[c] : Step(Having(c, RemoveAt(contents[c], pos)), held)

\* Reading an element, and taking the last one out.
Take(c, h) ==
  \/ \E pos \in DOMAIN contents[c] : Step(contents, [held EXCEPT ![h] = contents[c][pos]])
  \/ contents[c] # <<>> /\ Step(Having(c, Front(contents[c])), [held EXCEPT ![h] = Last(contents[c])])

Close(c) == Step(Lacking(c), held)

Init ==
  /\ contents = [c \in {} |-> <<>>]
  /\ held = [h \in Locals |-> Null]
  /\ alive = {}

Next ==
  \/ \E h \in Locals : Hold(h)
  \/ \E c \in Containers : Open(c)
  \/ \E c \in DOMAIN contents :
       \/ Withdraw(c)
       \/ Close(c)
       \/ \E h \in Locals : Put(c, h) \/ Take(c, h)

Spec == Init /\ [][Next]_collectionVars
=============================================================================
