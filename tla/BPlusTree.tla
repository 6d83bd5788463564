------------------------------ MODULE BPlusTree ------------------------------
(***************************************************************************)
(* BPlusTree (storage/index/b_plus_tree.cpp) on its leaf and internal      *)
(* pages (storage/page/b_plus_tree_leaf_page.cpp, ..._internal_page.cpp)   *)
(* with the iterator of storage/index/index_iterator.cpp.                  *)
(*                                                                         *)
(* Insert and Remove change a leaf; when it overflows or falls below half  *)
(* they go on with InsertInternal or RemoveInternal, once per level, on    *)
(* the ancestors kept in write_set.  Each of these calls is one step: the  *)
(* tree between two of them is a state, with a page that no parent knows   *)
(* yet or a parent of a page that is gone.                                 *)
(*                                                                         *)
(* Pages come from the buffer pool (BufferPool); their ids are only ever   *)
(* compared for equality, so a new page gets the least id not in use.      *)
(* The key slot 0 of an internal page, which the code never reads, is left *)
(* out: keys[i] is KeyAt(i) and children[i + 1] is ValueAt(i).             *)
(***************************************************************************)
EXTENDS Integers, Sequences, SequencesExt, FiniteSets, FiniteSetsExt, Functions

CONSTANTS Keys,
          ValuesFor,          \* the values that may be inserted under each key
          LeafMax,            \* leaf_max_size_
          InternalMax,        \* internal_max_size_
          NoPage              \* INVALID_PAGE_ID

\* Smaller pages would split into pages that are too small.
ASSUME TreeAssumption ==
  /\ Keys \subseteq Int
  /\ LeafMax \in Nat /\ LeafMax >= 2
  /\ InternalMax \in Nat /\ InternalMax >= 3
  /\ NoPage \notin Nat

VARIABLES pages,              \* page id -> page, for the pages of the tree
          root,               \* root_page_id_ of the header page
          write_set,          \* Context::write_set_, the ancestors still held
          call                \* the InsertInternal or RemoveInternal to come

treeVars == <<pages, root, write_set, call>>

Leaf(entries, next) == [leaf |-> TRUE, entries |-> entries, next |-> next]

Internal(keys, children) == [leaf |-> FALSE, keys |-> keys, children |-> children]

NoCall == [of |-> "none"]

Size(page) == IF page.leaf THEN Len(page.entries) ELSE Len(page.children)

MinSize(page) == IF page.leaf THEN LeafMax \div 2 ELSE Max({InternalMax \div 2, 2})

\* No page ever holds more than fits, not even between two calls: the arrays are
\* of fixed size and nothing checks their bounds.
TypeOK ==
  /\ DOMAIN pages \subseteq Nat /\ root \in DOMAIN pages \cup {NoPage}
  /\ \A p \in DOMAIN pages :
       IF pages[p].leaf
       THEN /\ Size(pages[p]) \in 1 .. LeafMax
            /\ \A e \in Range(pages[p].entries) : e.key \in Keys /\ e.value \in ValuesFor[e.key]
            /\ pages[p].next \in DOMAIN pages \cup {NoPage}
       ELSE /\ Size(pages[p]) \in 2 .. InternalMax
            /\ Len(pages[p].keys) = Size(pages[p]) - 1
            /\ Range(pages[p].keys) \subseteq Keys
  /\ call.of \in {"none", "InsertInternal", "RemoveInternal"}
  /\ write_set \in Seq(DOMAIN pages)

-----------------------------------------------------------------------------
(***************************************************************************)
(* Searching a page and descending the tree.                               *)
(***************************************************************************)

\* The loop all four LowerBound and UpperBound functions share: the first place
\* from l on that is not in below.
BinarySearch(l, r, below) ==
  LET half(a, b) == LET mid == (a + b) \div 2 IN IF mid \in below THEN <<mid, b>> ELSE <<a, mid>>
      narrow[at \in (l .. r) \X (l .. r)] ==
        IF at[1] + 1 < at[2] THEN narrow[half(at[1], at[2])]
        ELSE IF at[1] \in below THEN at[2] ELSE at[1]
  IN IF r \in below THEN r + 1 ELSE narrow[<<l, r>>]

LeafLowerBound(page, key) ==
  BinarySearch(1, Len(page.entries), {i \in DOMAIN page.entries : page.entries[i].key < key})

LowerBound(page, key) == BinarySearch(1, Len(page.keys), {i \in DOMAIN page.keys : page.keys[i] < key})

\* Mutant: < where the code has <=.
UpperBoundStrict(page, key) ==
  BinarySearch(1, Len(page.keys), {i \in DOMAIN page.keys : page.keys[i] < key})

UpperBound(page, key) == BinarySearch(1, Len(page.keys), {i \in DOMAIN page.keys : page.keys[i] <= key})

HasKeyAt(page, pos, key) == pos <= Len(page.entries) /\ page.entries[pos].key = key

\* The pages from the root to the leaf in which the key is sought.
Path(key) ==
  LET from[p \in DOMAIN pages] ==
        IF pages[p].leaf THEN <<p>> ELSE <<p>> \o from[pages[p].children[UpperBound(pages[p], key)]]
  IN from[root]

\* Mutant: the safe page itself is dropped with its ancestors.
HeldAncestorsShort(path, safe) ==
  LET from == Max({1} \cup {j + 1 : j \in {i \in 1 .. Len(path) - 1 : path[i] \in safe}})
  IN SubSeq(path, from, Len(path) - 1)

\* What write_set_ holds after a descent: it is cleared at each page that is safe
\* for the change before that page is pushed.
HeldAncestors(path, safe) ==
  LET from == Max({1} \cup {j \in 1 .. Len(path) - 1 : path[j] \in safe})
  IN SubSeq(path, from, Len(path) - 1)

NewPageId(ps) == Min(1 .. Cardinality(DOMAIN ps) + 1 \ DOMAIN ps)

WithPage(ps, p, page) == [q \in DOMAIN ps \cup {p} |-> IF q = p THEN page ELSE ps[q]]

WithoutPage(ps, p) == Restrict(ps, DOMAIN ps \ {p})

Idle == call = NoCall

Done == call' = NoCall /\ write_set' = <<>>

-----------------------------------------------------------------------------
(***************************************************************************)
(* Insert.  A key that is there already changes nothing.                   *)
(***************************************************************************)
InsertFirst(key, value) ==
  /\ Idle
  /\ root = NoPage
  /\ pages' = WithPage(pages, NewPageId(pages), Leaf(<<[key |-> key, value |-> value]>>, NoPage))
  /\ root' = NewPageId(pages)
  /\ UNCHANGED <<write_set, call>>

\* The root has split into l and r: a new one is put above them.
GrowRoot(ps, l, key, r) ==
  LET top == NewPageId(ps)
  IN  /\ pages' = WithPage(ps, top, Internal(<<key>>, <<l, r>>))
      /\ root' = top
      /\ Done

\* What an insertion hands to the parent of the page it has split.
Promote(key, child, held) ==
  /\ call' = [of |-> "InsertInternal", key |-> key, child |-> child]
  /\ write_set' = held

\* Mutant: a full page is taken to have room.
HasRoomWhenFull(p) == Size(pages[p]) <= InternalMax

HasRoom(p) == Size(pages[p]) < InternalMax

Roomy == {p \in DOMAIN pages : HasRoom(p)}

InsertIntoLeaf(cur, all) ==
  /\ Len(all) <= LeafMax
  /\ pages' = [pages EXCEPT ![cur].entries = all]
  /\ UNCHANGED <<root, write_set, call>>

\* Mutant: a full page keeps all it can.
StaysLeftAll(max) == max

\* How many of the max + 1 entries of a page that splits stay in it.
StaysLeft(max) == (max + 1) \div 2

\* Mutant: the new leaf is not linked on to the leaf that followed.
SplitLeafUnlinked(path, all) ==
  LET cur  == Last(path)
      size == StaysLeft(LeafMax)
      new  == NewPageId(pages)
      left == Leaf(SubSeq(all, 1, size), new)
      right == Leaf(SubSeq(all, size + 1, Len(all)), NoPage)
      split == WithPage(WithPage(pages, new, right), cur, left)
  IN  /\ Len(all) > LeafMax
      /\ \/ cur = root /\ GrowRoot(split, cur, right.entries[1].key, new)
         \/ /\ cur # root
            /\ pages' = split
            /\ Promote(right.entries[1].key, new, HeldAncestors(path, Roomy))
            /\ UNCHANGED root

SplitLeaf(path, all) ==
  LET cur  == Last(path)
      size == StaysLeft(LeafMax)
      new  == NewPageId(pages)
      left == Leaf(SubSeq(all, 1, size), new)
      right == Leaf(SubSeq(all, size + 1, Len(all)), pages[cur].next)
      split == WithPage(WithPage(pages, new, right), cur, left)
  IN  /\ Len(all) > LeafMax
      /\ \/ cur = root /\ GrowRoot(split, cur, right.entries[1].key, new)
         \/ /\ cur # root
            /\ pages' = split
            /\ Promote(right.entries[1].key, new, HeldAncestors(path, Roomy))
            /\ UNCHANGED root

InsertKey(key, value) ==
  /\ Idle
  /\ root # NoPage
  /\ LET path == Path(key)
         leaf == pages[Last(path)]
         pos  == LeafLowerBound(leaf, key)
         all  == InsertAt(leaf.entries, pos, [key |-> key, value |-> value])
     IN  /\ ~HasKeyAt(leaf, pos, key)
         /\ InsertIntoLeaf(Last(path), all) \/ SplitLeaf(path, all)

InsertInternal ==
  LET cur      == Last(write_set)
      page     == pages[cur]
      pos      == LowerBound(page, call.key)
      keys     == InsertAt(page.keys, pos, call.key)
      children == InsertAt(page.children, pos + 1, call.child)
      size     == StaysLeft(InternalMax)
      new      == NewPageId(pages)
      left     == Internal(SubSeq(keys, 1, size - 1), SubSeq(children, 1, size))
      right    == Internal(SubSeq(keys, size + 1, Len(keys)), SubSeq(children, size + 1, Len(children)))
      split    == WithPage(WithPage(pages, new, right), cur, left)
  IN  /\ call.of = "InsertInternal"
      /\ \/ /\ HasRoom(cur)
            /\ pages' = [pages EXCEPT ![cur] = Internal(keys, children)]
            /\ Done
            /\ UNCHANGED root
         \/ /\ ~HasRoom(cur)
            /\ cur = root
            /\ GrowRoot(split, cur, keys[size], new)
         \/ /\ ~HasRoom(cur)
            /\ cur # root
            /\ pages' = split
            /\ Promote(keys[size], new, Front(write_set))
            /\ UNCHANGED root

-----------------------------------------------------------------------------
(***************************************************************************)
(* Remove.  A page that falls below half takes an entry from the sibling   *)
(* on its left or right if that can spare one, and is merged with one of   *)
(* them if neither can.  i is the place of the page among the children of  *)
(* up; entries, keys and children are what is left in it.                  *)
(***************************************************************************)
CanSpare(p) == Size(pages[p]) > MinSize(pages[p])

Sparing == {p \in DOMAIN pages : CanSpare(p)}

LeftSpares(up, i) == i > 1 /\ CanSpare(pages[up].children[i - 1])

RightSpares(up, i) == i < Len(pages[up].children) /\ CanSpare(pages[up].children[i + 1])

\* What a merge hands to the parent: the key before the page that went.
Demote(key, child, held) ==
  /\ call' = [of |-> "RemoveInternal", key |-> key, child |-> child]
  /\ write_set' = held

\* Mutant: the parent's key is not moved.
LeafFromLeftUnseparated(up, i, entries) ==
  LET l == pages[up].children[i - 1]
  IN  /\ LeftSpares(up, i)
      /\ pages' = [pages EXCEPT ![pages[up].children[i]].entries = <<Last(pages[l].entries)>> \o entries,
                                ![l].entries = Front(@)]
      /\ Done

LeafFromLeft(up, i, entries) ==
  LET l    == pages[up].children[i - 1]
      lent == Last(pages[l].entries)
  IN  /\ LeftSpares(up, i)
      /\ pages' = [pages EXCEPT ![pages[up].children[i]].entries = <<lent>> \o entries,
                                ![l].entries = Front(@),
                                ![up].keys[i - 1] = lent.key]
      /\ Done

LeafFromRight(up, i, entries) ==
  LET r == pages[up].children[i + 1]
  IN  /\ ~LeftSpares(up, i) /\ RightSpares(up, i)
      /\ pages' = [pages EXCEPT ![pages[up].children[i]].entries = Append(entries, Head(pages[r].entries)),
                                ![r].entries = Tail(@),
                                ![up].keys[i] = pages[r].entries[2].key]
      /\ Done

\* Mutant: what is in the right page is not copied.
MergeLeavesDropping(held, up, i, left, right, next) ==
  LET l == pages[up].children[i]
      r == pages[up].children[i + 1]
  IN  /\ pages' = WithoutPage([pages EXCEPT ![l] = Leaf(left, next)], r)
      /\ Demote(pages[up].keys[i], r, held)

\* The page at i + 1 goes into the page at i.
MergeLeaves(held, up, i, left, right, next) ==
  LET l == pages[up].children[i]
      r == pages[up].children[i + 1]
  IN  /\ pages' = WithoutPage([pages EXCEPT ![l] = Leaf(left \o right, next)], r)
      /\ Demote(pages[up].keys[i], r, held)

LeafUnderflows(held, up, i, entries) ==
  LET next(p) == pages[pages[up].children[p]].next
      of(p)   == pages[pages[up].children[p]].entries
  IN  \/ LeafFromLeft(up, i, entries)
      \/ LeafFromRight(up, i, entries)
      \/ /\ ~LeftSpares(up, i) /\ ~RightSpares(up, i)
         /\ \/ i > 1 /\ MergeLeaves(held, up, i - 1, of(i - 1), entries, next(i))
            \/ i = 1 /\ MergeLeaves(held, up, i, entries, of(i + 1), next(i + 1))

RemoveKey(key) ==
  /\ Idle
  /\ root # NoPage
  /\ LET path    == Path(key)
         cur     == Last(path)
         pos     == LeafLowerBound(pages[cur], key)
         entries == RemoveAt(pages[cur].entries, pos)
         held    == HeldAncestors(path, Sparing)
     IN  /\ HasKeyAt(pages[cur], pos, key)
         /\ \/ /\ Len(entries) >= MinSize(pages[cur]) \/ (cur = root /\ entries # <<>>)
               /\ pages' = [pages EXCEPT ![cur].entries = entries]
               /\ UNCHANGED <<root, write_set, call>>
            \/ /\ entries = <<>> /\ cur = root
               /\ pages' = WithoutPage(pages, cur)
               /\ root' = NoPage
               /\ UNCHANGED <<write_set, call>>
            \/ /\ cur # root /\ Len(entries) < MinSize(pages[cur])
               /\ LeafUnderflows(held, Last(held), UpperBound(pages[Last(held)], key), entries)
               /\ UNCHANGED root

InternalFromLeft(up, i, keys, children) ==
  LET l == pages[up].children[i - 1]
  IN  /\ LeftSpares(up, i)
      /\ pages' = [pages EXCEPT
           ![pages[up].children[i]] = Internal(<<pages[up].keys[i - 1]>> \o keys,
                                               <<Last(pages[l].children)>> \o children),
           ![up].keys[i - 1] = Last(pages[l].keys),
           ![l] = Internal(Front(@.keys), Front(@.children))]
      /\ Done

InternalFromRight(up, i, keys, children) ==
  LET r == pages[up].children[i + 1]
  IN  /\ ~LeftSpares(up, i) /\ RightSpares(up, i)
      /\ pages' = [pages EXCEPT
           ![pages[up].children[i]] = Internal(Append(keys, pages[up].keys[i]),
                                               Append(children, Head(pages[r].children))),
           ![up].keys[i] = Head(pages[r].keys),
           ![r] = Internal(Tail(@.keys), Tail(@.children))]
      /\ Done

MergeInternals(held, up, i, left, right) ==
  LET l   == pages[up].children[i]
      r   == pages[up].children[i + 1]
      key == pages[up].keys[i]
      all == Internal(left.keys \o <<key>> \o right.keys, left.children \o right.children)
  IN  /\ pages' = WithoutPage([pages EXCEPT ![l] = all], r)
      /\ Demote(key, r, held)

InternalUnderflows(held, up, i, rest) ==
  LET of(p) == pages[pages[up].children[p]]
  IN  \/ InternalFromLeft(up, i, rest.keys, rest.children)
      \/ InternalFromRight(up, i, rest.keys, rest.children)
      \/ /\ ~LeftSpares(up, i) /\ ~RightSpares(up, i)
         /\ \/ i > 1 /\ MergeInternals(held, up, i - 1, of(i - 1), rest)
            \/ i = 1 /\ MergeInternals(held, up, i, rest, of(i + 1))

\* Mutant: the old root is not given back.
ShrinkRootKeepingIt(cur) ==
  /\ cur = root /\ Size(pages[cur]) = 2
  /\ root' = IF pages[cur].children[1] = call.child
             THEN pages[cur].children[2] ELSE pages[cur].children[1]
  /\ UNCHANGED pages
  /\ Done

\* A root left with one child gives way to it.
ShrinkRoot(cur) ==
  /\ cur = root /\ Size(pages[cur]) = 2
  /\ root' = IF pages[cur].children[1] = call.child
             THEN pages[cur].children[2] ELSE pages[cur].children[1]
  /\ pages' = WithoutPage(pages, cur)
  /\ Done

RemoveInternal ==
  LET cur  == Last(write_set)
      held == Front(write_set)
      pos  == LowerBound(pages[cur], call.key)
      rest == Internal(RemoveAt(pages[cur].keys, pos), RemoveAt(pages[cur].children, pos + 1))
  IN  /\ call.of = "RemoveInternal"
      /\ \/ ShrinkRoot(cur)
         \/ /\ IF cur = root THEN Size(pages[cur]) > 2 ELSE Size(rest) >= MinSize(rest)
            /\ pages' = [pages EXCEPT ![cur] = rest]
            /\ Done
            /\ UNCHANGED root
         \/ /\ cur # root /\ Size(rest) < MinSize(rest)
            /\ \E i \in DOMAIN pages[Last(held)].children :
                 /\ pages[Last(held)].children[i] = cur
                 /\ InternalUnderflows(held, Last(held), i, rest)
            /\ UNCHANGED root

-----------------------------------------------------------------------------
Init == pages = <<>> /\ root = NoPage /\ write_set = <<>> /\ call = NoCall

Next ==
  \/ \E key \in Keys : RemoveKey(key) \/ \E value \in ValuesFor[key] : InsertFirst(key, value) \/ InsertKey(key, value)
  \/ InsertInternal
  \/ RemoveInternal

Spec == Init /\ [][Next]_treeVars

-----------------------------------------------------------------------------
(***************************************************************************)
(* Reading: GetValue, and a scan with LowerBound and the iterator, which   *)
(* is at position at of a leaf.                                            *)
(***************************************************************************)
GetValue(key) ==
  IF root = NoPage THEN {}
  ELSE LET leaf == pages[Last(Path(key))]
           pos  == LeafLowerBound(leaf, key)
       IN IF HasKeyAt(leaf, pos, key) THEN {leaf.entries[pos].value} ELSE {}

IsEnd(it) == pages[it.leaf].next = NoPage /\ it.at = Len(pages[it.leaf].entries)

Advanced(it) ==
  IF it.at = Len(pages[it.leaf].entries) /\ pages[it.leaf].next # NoPage
  THEN [leaf |-> pages[it.leaf].next, at |-> 1]
  ELSE [it EXCEPT !.at = @ + 1]

\* Where LowerBound puts an iterator, as a set; empty when it returns none.
LowerBoundOf(key) ==
  IF root = NoPage THEN {}
  ELSE LET leaf == Last(Path(key))
           pos  == LeafLowerBound(pages[leaf], key)
           last == [leaf |-> leaf, at |-> Len(pages[leaf].entries)]
       IN IF pos <= last.at THEN {[leaf |-> leaf, at |-> pos]}
          ELSE IF IsEnd(last) THEN {} ELSE {Advanced(last)}

Places == UNION {{[leaf |-> p, at |-> i] : i \in DOMAIN pages[p].entries} : p \in {q \in DOMAIN pages : pages[q].leaf}}

\* The entries a scan visits from key on.
Scan(key) ==
  LET from[it \in Places] ==
        <<pages[it.leaf].entries[it.at]>> \o (IF IsEnd(it) THEN <<>> ELSE from[Advanced(it)])
  IN IF LowerBoundOf(key) = {} THEN <<>> ELSE from[CHOOSE it \in LowerBoundOf(key) : TRUE]

-----------------------------------------------------------------------------
(***************************************************************************)
(* What the shape of the tree promises once a command is over.             *)
(***************************************************************************)
Under(top) ==
  LET under[p \in DOMAIN pages] ==
        {p} \cup (IF pages[p].leaf THEN {} ELSE UNION {under[c] : c \in Range(pages[p].children)})
  IN under[top]

KeysUnder(top) == UNION {{e.key : e \in Range(pages[p].entries)} : p \in {q \in Under(top) : pages[q].leaf}}

Height ==
  LET height[p \in DOMAIN pages] ==
        IF pages[p].leaf THEN 0 ELSE 1 + height[pages[p].children[1]]
  IN height

\* No page is ever over-full; after any sequence of insertions and removals every
\* page but the root is at least half full and all leaves are equally deep.
Balanced ==
  /\ TypeOK
  /\ Idle => \A p \in DOMAIN pages :
       /\ p # root => Size(pages[p]) >= MinSize(pages[p])
       /\ ~pages[p].leaf => \A c \in Range(pages[p].children) : Height[c] + 1 = Height[p]

\* b_plus_tree_internal_page.h:12: a pointer "points to a subtree in which all keys
\* K satisfy: K(i) <= K < K(i+1)", also where the key K(i) itself has been removed.
SubtreesSeparated ==
  Idle => \A p \in DOMAIN pages : ~pages[p].leaf =>
    \A i \in DOMAIN pages[p].keys :
      /\ \A k \in KeysUnder(pages[p].children[i]) : k < pages[p].keys[i]
      /\ \A k \in KeysUnder(pages[p].children[i + 1]) : pages[p].keys[i] <= k

\* Every page that was allocated is in the tree, under one parent: DeletePage is
\* called for each page that leaves it and for no other.
NoPageLost ==
  Idle => /\ root # NoPage => Under(root) = DOMAIN pages
          /\ root = NoPage => DOMAIN pages = {}
          /\ \A p, q \in DOMAIN pages : p # q /\ ~pages[p].leaf /\ ~pages[q].leaf =>
               Range(pages[p].children) \cap Range(pages[q].children) = {}

\* InsertInternal and RemoveInternal take write_set_.back() without asking whether
\* there is one.  The ancestors a descent keeps are a path that begins at the root
\* or at a page that can take the change, and a removal finds its key and page in
\* the last of them.
AncestorsSuffice ==
  ~Idle =>
    /\ write_set # <<>>
    /\ \A j \in 1 .. Len(write_set) - 1 : write_set[j + 1] \in Range(pages[write_set[j]].children)
    /\ \/ write_set[1] = root
       \/ IF call.of = "InsertInternal" THEN HasRoom(write_set[1]) ELSE CanSpare(write_set[1])
    /\ call.of = "RemoveInternal" =>
         \E i \in DOMAIN pages[Last(write_set)].keys :
           pages[Last(write_set)].keys[i] = call.key /\ pages[Last(write_set)].children[i + 1] = call.child

-----------------------------------------------------------------------------
(***************************************************************************)
(* What the leaves hold, from the first along the next pointers.           *)
(***************************************************************************)
Contents ==
  LET first[p \in DOMAIN pages] == IF pages[p].leaf THEN p ELSE first[pages[p].children[1]]
      along[p \in {q \in DOMAIN pages : pages[q].leaf}] ==
        pages[p].entries \o (IF pages[p].next = NoPage THEN <<>> ELSE along[pages[p].next])
  IN IF root = NoPage THEN <<>> ELSE along[first[root]]

\* The descent finds exactly what the leaves hold.
LookupComplete ==
  Idle => LET entries == Range(Contents)
          IN \A k \in Keys : GetValue(k) = {e.value : e \in {x \in entries : x.key = k}}

\* A scan from any key meets every key from there on that can be looked up, each
\* once and in order, across the ends of leaves, also when the key is beyond the
\* last one of its leaf.
ScansInOrder ==
  Idle => \A k \in Keys :
    LET scan == Scan(k)
        keys == [i \in DOMAIN scan |-> scan[i].key]
    IN  /\ \A i, j \in DOMAIN keys : i < j => keys[i] < keys[j]
        /\ Range(keys) = {x \in Keys : x >= k /\ GetValue(x) # {}}

-----------------------------------------------------------------------------
(***************************************************************************)
(* The tree is a map: an insertion or removal takes effect in its leaf,    *)
(* and the work on the ancestors that follows moves nothing.               *)
(***************************************************************************)
ContentsMap ==
  LET entries == Range(Contents)
  IN [k \in {e.key : e \in entries} |-> (CHOOSE e \in entries : e.key = k).value]

Map == INSTANCE OrderedMap WITH map <- ContentsMap

\* A client sees a map with unique keys, whatever splits, loans and merges an
\* operation causes.
ImplementsMap == Map!MapSpec
=============================================================================
