--------------------------- MODULE BPlusTreeShape ---------------------------
(***************************************************************************)
(* Trees of pages of any size: what a tree is, in terms of the region of the*)
(* numbers sought in each page, and that it stays one when two neighbours   *)
(* become one, a page becomes two, a border moves or the root changes; and  *)
(* what the searches and the operations on sequences do.                    *)
(***************************************************************************)
EXTENDS BPlusTree, FiniteSetTheorems, WellFoundedInduction, NaturalsInduction, TLAPS

-----------------------------------------------------------------------------
(* The shape of a tree.  V is a tree of pages with root rt, h the height of  *)
(* each page and R its region: the numbers that are sought in it.            *)

Entry == UNION {[key : {k}, value : ValuesFor[k]] : k \in Keys}

IsLeafPage(pg) ==
  pg = Leaf(pg.entries, pg.next) /\ pg.leaf = TRUE /\ pg.entries \in Seq(Entry)

IsInternalPage(pg) ==
  /\ pg = Internal(pg.keys, pg.children) /\ pg.leaf = FALSE
  /\ pg.keys \in Seq(Keys) /\ pg.children \in Seq(Nat) /\ Len(pg.children) = Len(pg.keys) + 1

Convex(A) == \A x, z \in A, y \in Int : x < y /\ y < z => y \in A

IsRegion(A) == A \subseteq Int /\ A # {} /\ Convex(A)

\* The part of region A that child i of a page with these keys is for.
Part(A, keys, i) == {k \in A : (i > 1 => keys[i - 1] <= k) /\ (i <= Len(keys) => k < keys[i])}

SortedKeys(keys) == \A i, j \in 1 .. Len(keys) : i < j => keys[i] < keys[j]

SortedEntries(entries) == \A i, j \in 1 .. Len(entries) : i < j => entries[i].key < entries[j].key

LeafIn(pg, A) ==
  /\ IsLeafPage(pg) /\ SortedEntries(pg.entries)
  /\ \A i \in 1 .. Len(pg.entries) : pg.entries[i].key \in A

KeysIn(pg, A) ==
  /\ IsInternalPage(pg) /\ SortedKeys(pg.keys)
  /\ \A i \in 1 .. Len(pg.keys) : pg.keys[i] \in A

ChildIn(V, h, R, p, i) ==
  LET c == V[p].children[i]
  IN c \in DOMAIN V /\ h[c] + 1 = h[p] /\ R[c] = Part(R[p], V[p].keys, i)

Node(V, h, R, p) ==
  /\ IsRegion(R[p])
  /\ \/ h[p] = 0 /\ LeafIn(V[p], R[p])
     \/ /\ h[p] \in Nat \ {0} /\ KeysIn(V[p], R[p])
        /\ \A i \in 1 .. Len(V[p].children) : ChildIn(V, h, R, p, i)

IsChild(V, p, i, c) == ~V[p].leaf /\ i \in 1 .. Len(V[p].children) /\ V[p].children[i] = c

Disjoint(V, h, R) == \A p, q \in DOMAIN V : p # q /\ h[p] = h[q] => R[p] \cap R[q] = {}

\* Every number has a page on every level.
Covered(V, rt, h, R) == \A n \in 0 .. h[rt], x \in Int : \E p \in DOMAIN V : h[p] = n /\ x \in R[p]

\* Region A ends where B begins.
Adjacent(A, B) == \A x \in A, z \in B : x < z /\ \A y \in Int : x < y /\ y < z => y \in A \cup B

Unbounded(A) == \A x \in A, y \in Int : x < y => y \in A

Linked(V, R, p) ==
  LET q == V[p].next
  IN IF q = NoPage THEN Unbounded(R[p]) ELSE q \in DOMAIN V /\ V[q].leaf /\ Adjacent(R[p], R[q])

Links(V, R) == \A p \in DOMAIN V : V[p].leaf => Linked(V, R, p)

Tree(V, rt, h, R) ==
  /\ IsFiniteSet(DOMAIN V) /\ DOMAIN V \subseteq Nat
  /\ rt \in DOMAIN V /\ R[rt] = Int
  /\ \A p \in DOMAIN V : Node(V, h, R, p) /\ h[p] <= h[rt]
  /\ Disjoint(V, h, R)
  /\ Covered(V, rt, h, R)
  /\ Links(V, R)

IsTree(V, rt) == \E h, R : Tree(V, rt, h, R)

\* t is s with x put in at place i.
PutIn(s, i, x, t) ==
  /\ i \in 1 .. Len(s) + 1 /\ Len(t) = Len(s) + 1 /\ t[i] = x
  /\ \A j \in 1 .. i - 1 : t[j] = s[j]
  /\ \A j \in i .. Len(s) : t[j + 1] = s[j]

Joins(left, right, all) ==
  /\ Len(all) = Len(left) + Len(right)
  /\ \A j \in 1 .. Len(left) : all[j] = left[j]
  /\ \A j \in 1 .. Len(right) : all[Len(left) + j] = right[j]

LeafJoin(left, right, all) ==
  /\ IsLeafPage(left) /\ IsLeafPage(right) /\ IsLeafPage(all)
  /\ Joins(left.entries, right.entries, all.entries) /\ all.next = right.next

KeysJoin(left, key, right, all) ==
  /\ Len(all) = Len(left) + 1 + Len(right)
  /\ \A j \in 1 .. Len(left) : all[j] = left[j]
  /\ all[Len(left) + 1] = key
  /\ \A j \in 1 .. Len(right) : all[Len(left) + 1 + j] = right[j]

InternalJoin(left, key, right, all) ==
  /\ IsInternalPage(left) /\ IsInternalPage(right) /\ IsInternalPage(all)
  /\ Joins(left.children, right.children, all.children)
  /\ KeysJoin(left.keys, key, right.keys, all.keys)

\* W is V with the pages a and b, children i and i + 1 of u, made one.
Merge(V, W, u, i, a, b) ==
  /\ u \in DOMAIN W /\ a \in DOMAIN W /\ u # a /\ b \notin DOMAIN W /\ DOMAIN V = DOMAIN W \cup {b}
  /\ \A p \in DOMAIN W : p # u /\ p # a => W[p] = V[p]
  /\ IsInternalPage(V[u]) /\ IsInternalPage(W[u])
  /\ i \in 1 .. Len(V[u].keys) /\ V[u].children[i] = a /\ V[u].children[i + 1] = b
  /\ PutIn(W[u].keys, i, V[u].keys[i], V[u].keys)
  /\ PutIn(W[u].children, i + 1, b, V[u].children)
  /\ LeafJoin(V[a], V[b], W[a]) \/ InternalJoin(V[a], V[u].keys[i], V[b], W[a])

\* What a leaf is made of.
LEMMA LeafKind ==
  ASSUME NEW pg, IsLeafPage(pg)
  PROVE  pg.leaf = TRUE /\ Len(pg.entries) \in Nat /\ \A j \in 1 .. Len(pg.entries) : pg.entries[j] \in Entry /\ pg.entries[j].key \in Int
<1>1. pg.leaf = TRUE
  BY DEF IsLeafPage
<1>2. \A e \in Entry : e.key \in Int
  BY TreeAssumption DEF Entry
<1> QED BY <1>1, <1>2 DEF IsLeafPage

\* The length of a sequence.
LEMMA LengthOf ==
  ASSUME NEW T, NEW s \in Seq(T)
  PROVE  Len(s) \in Nat
OBVIOUS

\* An entry is a key with one of its values.
LEMMA EntryParts ==
  ASSUME NEW e \in Entry
  PROVE  e.key \in Keys /\ e.value \in ValuesFor[e.key]
BY DEF Entry

\* What an internal page is made of: one child more than keys.
LEMMA InternalKind ==
  ASSUME NEW pg, IsInternalPage(pg)
  PROVE  /\ pg.leaf = FALSE /\ Len(pg.keys) \in Nat /\ Len(pg.children) = Len(pg.keys) + 1
         /\ \A j \in 1 .. Len(pg.keys) : pg.keys[j] \in Keys /\ pg.keys[j] \in Int
         /\ \A j \in 1 .. Len(pg.children) : pg.children[j] \in Nat
<1>1. pg.leaf = FALSE
  BY DEF IsInternalPage
<1> DEFINE keys == pg.keys
           children == pg.children
<1>2. keys \in Seq(Keys) /\ children \in Seq(Nat) /\ Len(children) = Len(keys) + 1
  BY DEF IsInternalPage
<1> HIDE DEF keys, children
<1>3. Len(keys) \in Nat
  BY <1>2
<1>4. \A j \in 1 .. Len(keys) : keys[j] \in Keys
  BY <1>2
<1>5. \A j \in 1 .. Len(keys) : keys[j] \in Int
  BY <1>4, TreeAssumption
<1>6. \A j \in 1 .. Len(children) : children[j] \in Nat
  BY <1>2
<1> QED BY <1>1, <1>2, <1>3, <1>4, <1>5, <1>6 DEF keys, children

\* A leaf of a tree lies at height 0, its keys sorted and in its region.
LEMMA LeafNode ==
  ASSUME NEW V, NEW h, NEW R, NEW p, Node(V, h, R, p), V[p].leaf
  PROVE  h[p] = 0 /\ LeafIn(V[p], R[p])
BY InternalKind DEF Node, KeysIn

\* An internal page of a tree has sorted keys and a child for each part of its
\* region.
LEMMA InternalNode ==
  ASSUME NEW V, NEW h, NEW R, NEW p, Node(V, h, R, p), ~V[p].leaf
  PROVE  /\ h[p] \in Nat \ {0} /\ KeysIn(V[p], R[p])
         /\ \A i \in 1 .. Len(V[p].children) : ChildIn(V, h, R, p, i)
BY LeafKind DEF Node, LeafIn

\* The leaves are the pages of height 0.
LEMMA NodeHeight ==
  ASSUME NEW V, NEW h, NEW R, NEW p, Node(V, h, R, p)
  PROVE  h[p] \in Nat /\ (V[p].leaf <=> h[p] = 0) /\ V[p].leaf \in BOOLEAN
<1>1. V[p].leaf \in BOOLEAN
  BY LeafKind, InternalKind DEF Node, LeafIn, KeysIn
<1> QED BY <1>1, LeafNode, InternalNode

\* Parts of one region, under sorted keys, are regions side by side.
LEMMA PartIn ==
  ASSUME NEW A \in SUBSET Int, NEW keys, NEW i, NEW k
  PROVE  k \in Part(A, keys, i)
           <=> k \in A /\ (i > 1 => keys[i - 1] <= k) /\ (i <= Len(keys) => k < keys[i])
BY DEF Part

\* A child lies one level lower and is for its part of its parent's region.
LEMMA ChildOfNode ==
  ASSUME NEW V, NEW rt, NEW h, NEW R, Tree(V, rt, h, R), NEW p \in DOMAIN V, NEW j, NEW c, IsChild(V, p, j, c)
  PROVE  /\ c \in DOMAIN V /\ h[c] + 1 = h[p] /\ R[c] = Part(R[p], V[p].keys, j) /\ h[c] < h[p]
         /\ h[c] \in Nat /\ h[p] \in Nat /\ j \in Nat \ {0} /\ c # rt /\ c # p
<1>1. Node(V, h, R, p)
  BY DEF Tree
<1>2. ChildIn(V, h, R, p, j) /\ IsInternalPage(V[p])
  BY <1>1, InternalNode DEF IsChild, KeysIn
<1>3. c \in DOMAIN V /\ h[c] + 1 = h[p] /\ R[c] = Part(R[p], V[p].keys, j)
  BY <1>2 DEF ChildIn, IsChild
<1>4. h[c] \in Nat /\ h[p] \in Nat /\ h[p] <= h[rt] /\ h[rt] \in Nat
  BY <1>1, <1>3, NodeHeight DEF Tree
<1>5. j \in Nat \ {0}
  BY <1>2, InternalKind DEF IsChild
<1>6. c # rt
  BY <1>3, <1>4
<1> QED BY <1>3, <1>4, <1>5, <1>6

\* Keys as the proofs about regions need them.
IsKeys(keys) == Len(keys) \in Nat /\ SortedKeys(keys) /\ \A j \in 1 .. Len(keys) : keys[j] \in Int

PartsMerged(A, K, L, i) ==
  /\ Part(A, L, i) = Part(A, K, i) \cup Part(A, K, i + 1)
  /\ \A j \in 1 .. i - 1 : Part(A, L, j) = Part(A, K, j)
  /\ \A j \in i + 1 .. Len(K) : Part(A, L, j) = Part(A, K, j + 1)

\* Without the key between two parts, they are one part and the later ones move up.
LEMMA PartsMerge ==
  ASSUME NEW A \in SUBSET Int, NEW K, NEW L, NEW i, IsKeys(K), IsKeys(L), PutIn(L, i, K[i], K)
  PROVE  PartsMerged(A, K, L, i)
<1>1. /\ Len(K) = Len(L) + 1 /\ i \in 1 .. Len(K) /\ Len(L) \in Nat
      /\ \A j \in 1 .. i - 1 : K[j] = L[j]
      /\ \A j \in i .. Len(L) : K[j + 1] = L[j]
      /\ \A j \in 1 .. Len(K) : K[j] \in Int
      /\ \A j, k \in 1 .. Len(K) : j < k => K[j] < K[k]
  BY DEF PutIn, IsKeys, SortedKeys
<1>2. Part(A, L, i) = Part(A, K, i) \cup Part(A, K, i + 1)
  <2>1. ASSUME NEW x \in A
        PROVE  x \in Part(A, L, i) <=> x \in Part(A, K, i) \/ x \in Part(A, K, i + 1)
    <3>1. /\ i > 1 => L[i - 1] = K[i - 1] /\ i - 1 \in 1 .. Len(K) /\ K[i - 1] \in Int /\ K[i - 1] < K[i]
          /\ i <= Len(L) => L[i] = K[i + 1] /\ K[i + 1] \in Int /\ K[i] < K[i + 1]
          /\ K[i] \in Int
      BY <1>1
    <3>2. (i + 1) - 1 = i /\ i + 1 > 1 /\ (i + 1 <= Len(K) <=> i <= Len(L)) /\ i <= Len(K) /\ x \in Int
      BY <1>1
    <3>3. x \in Part(A, L, i) <=> (i > 1 => L[i - 1] <= x) /\ (i <= Len(L) => x < L[i])
      BY PartIn
    <3>4. x \in Part(A, K, i) <=> (i > 1 => K[i - 1] <= x) /\ x < K[i]
      BY <3>2, PartIn
    <3>5. x \in Part(A, K, i + 1) <=> K[i] <= x /\ (i <= Len(L) => x < K[i + 1])
      BY <3>2, PartIn
    <3>6. x \in Part(A, K, i) => x \in Part(A, L, i)
      BY <1>1, <3>1, <3>2, <3>3, <3>4
    <3>7. x \in Part(A, K, i + 1) => x \in Part(A, L, i)
      BY <1>1, <3>1, <3>2, <3>3, <3>5
    <3>8. x \in Part(A, L, i) /\ x < K[i] => x \in Part(A, K, i)
      BY <3>1, <3>3, <3>4
    <3>9. x \in Part(A, L, i) /\ ~(x < K[i]) => x \in Part(A, K, i + 1)
      BY <3>1, <3>2, <3>3, <3>5
    <3> QED BY <3>6, <3>7, <3>8, <3>9
  <2> QED BY <2>1 DEF Part
<1>3. ASSUME NEW j \in 1 .. i - 1
      PROVE  Part(A, L, j) = Part(A, K, j)
  <2>1. j <= Len(L) /\ j <= Len(K) /\ L[j] = K[j] /\ (j > 1 => L[j - 1] = K[j - 1])
    BY <1>1
  <2> QED BY <2>1 DEF Part
<1>4. ASSUME NEW j \in i + 1 .. Len(K)
      PROVE  Part(A, L, j) = Part(A, K, j + 1)
  <2>1. /\ j > 1 /\ j + 1 > 1 /\ (j + 1) - 1 = j
        /\ j - 1 \in i .. Len(L) /\ (j <= Len(L) <=> j + 1 <= Len(K))
    BY <1>1
  <2>2. L[j - 1] = K[j] /\ (j <= Len(L) => L[j] = K[j + 1])
    <3>1. (j - 1) + 1 = j /\ (j <= Len(L) => j \in i .. Len(L))
      BY <1>1
    <3> QED BY <1>1, <2>1, <3>1
  <2> QED BY <2>1, <2>2 DEF Part
<1> QED BY <1>2, <1>3, <1>4 DEF PartsMerged

\* The parts of a region lie in the order of the children.
LEMMA PartsDisjoint ==
  ASSUME NEW A \in SUBSET Int, NEW K, IsKeys(K), NEW i \in 1 .. Len(K) + 1, NEW j \in 1 .. Len(K) + 1, i < j,
         NEW x \in Part(A, K, i), NEW y \in Part(A, K, j)
  PROVE  x < y /\ x \in A /\ y \in A /\ x \in Int /\ y \in Int
<1>1. x \in A /\ (i <= Len(K) => x < K[i])
  BY DEF Part
<1>2. y \in A /\ (j > 1 => K[j - 1] <= y)
  BY DEF Part
<1>3. i <= Len(K) /\ j > 1 /\ i \in 1 .. Len(K) /\ j - 1 \in 1 .. Len(K) /\ i <= j - 1 /\ K[i] \in Int /\ K[j - 1] \in Int
  BY DEF IsKeys
<1>4. K[i] <= K[j - 1]
  BY <1>3 DEF IsKeys, SortedKeys
<1> QED BY <1>1, <1>2, <1>3, <1>4

\* The keys of an internal page, as the lemmas about parts need them.
LEMMA KeysOf ==
  ASSUME NEW pg, NEW A, KeysIn(pg, A)
  PROVE  /\ IsKeys(pg.keys) /\ Len(pg.keys) \in Nat /\ Len(pg.children) = Len(pg.keys) + 1
         /\ \A j \in 1 .. Len(pg.keys) : pg.keys[j] \in A
         /\ pg.leaf = FALSE
BY InternalKind DEF KeysIn, IsKeys

\* A part of a convex region is convex.
LEMMA PartConvex ==
  ASSUME NEW A \in SUBSET Int, Convex(A), NEW K, IsKeys(K), NEW i \in 1 .. Len(K) + 1
  PROVE  Part(A, K, i) \subseteq Int /\ Convex(Part(A, K, i))
<1>1. Part(A, K, i) \subseteq Int
  BY DEF Part
<1>2. ASSUME NEW x \in Part(A, K, i), NEW z \in Part(A, K, i), NEW y \in Int, x < y, y < z
      PROVE  y \in Part(A, K, i)
  <2>1. y \in A /\ x \in Int /\ z \in Int
    BY <1>2 DEF Part, Convex
  <2>2. (i > 1 => i - 1 \in 1 .. Len(K) /\ K[i - 1] \in Int) /\ (i <= Len(K) => i \in 1 .. Len(K) /\ K[i] \in Int)
    BY DEF IsKeys
  <2>3. (i > 1 => K[i - 1] <= x) /\ (i <= Len(K) => z < K[i])
    BY DEF Part
  <2> QED BY <1>2, <2>1, <2>2, <2>3 DEF Part
<1> QED BY <1>1, <1>2 DEF Convex

\* A set of numbers has a least one.
LEMMA LeastNumber ==
  ASSUME NEW S \in SUBSET Nat, S # {}
  PROVE  \E n \in S : \A m \in S : n <= m
<1>1. PICK n \in S : \A m \in S : ~(<<m, n>> \in OpToRel(<, Nat))
  BY NatLessThanWellFounded, WFMin
<1>2. ASSUME NEW m \in S PROVE ~(m < n)
  BY <1>1 DEF OpToRel
<1> QED BY <1>2

\* What holds of x when it holds of all that measure less holds of all.
LEMMA MeasureInduction ==
  ASSUME NEW D, NEW m, \A x \in D : m[x] \in Nat,
         NEW S, \A x \in D : (\A y \in D : m[y] < m[x] => y \in S) => x \in S
  PROVE  D \subseteq S
<1> SUFFICES ASSUME ~(D \subseteq S) PROVE FALSE
  OBVIOUS
<1> DEFINE M == {m[x] : x \in D \ S}
<1>1. M \in SUBSET Nat /\ M # {}
  OBVIOUS
<1>2. PICK n \in M : \A k \in M : n <= k
  BY <1>1, LeastNumber
<1>3. PICK x \in D \ S : n = m[x]
  OBVIOUS
<1>4. ASSUME NEW y \in D, m[y] < m[x]
      PROVE  y \in S
  <2>1. m[y] \notin M
    BY <1>1, <1>2, <1>3, <1>4, SMTT(30)
  <2> QED BY <2>1
<1> QED BY <1>3, <1>4

\* Every number of a region is in the part of one child.
LEMMA PartCovers ==
  ASSUME NEW A \in SUBSET Int, NEW K, IsKeys(K), NEW x \in A
  PROVE  \E i \in 1 .. Len(K) + 1 : x \in Part(A, K, i)
<1> DEFINE S == {i \in 1 .. Len(K) + 1 : i <= Len(K) => x < K[i]}
<1>1. Len(K) \in Nat /\ \A j \in 1 .. Len(K) : K[j] \in Int
  BY DEF IsKeys
<1>2. Len(K) + 1 \in S /\ S \in SUBSET Nat
  BY <1>1
<1>3. PICK i \in S : \A j \in S : i <= j
  BY <1>2, LeastNumber
<1>4. i > 1 => K[i - 1] <= x
  <2> SUFFICES ASSUME i > 1 PROVE K[i - 1] <= x
    OBVIOUS
  <2>1. i - 1 \in 1 .. Len(K) /\ i - 1 < i
    BY <1>1
  <2>2. i - 1 \notin S
    BY <1>3, <2>1
  <2>3. ~(x < K[i - 1]) /\ K[i - 1] \in Int
    BY <1>1, <2>1, <2>2
  <2> QED BY <2>3
<1> QED BY <1>4, PartIn

\* What every page of a tree is.
LEMMA TreeNode ==
  ASSUME NEW V, NEW rt, NEW h, NEW R, Tree(V, rt, h, R), NEW p \in DOMAIN V
  PROVE  /\ Node(V, h, R, p) /\ h[p] \in Nat /\ h[rt] \in Nat /\ h[p] <= h[rt] /\ (V[p].leaf <=> h[p] = 0)
         /\ V[p].leaf \in BOOLEAN /\ R[p] \in SUBSET Int /\ R[p] # {} /\ Convex(R[p])
<1>1. Node(V, h, R, p) /\ Node(V, h, R, rt) /\ h[p] <= h[rt]
  BY DEF Tree
<1>2. R[p] \in SUBSET Int /\ R[p] # {} /\ Convex(R[p])
  BY <1>1 DEF Node, IsRegion
<1> QED BY <1>1, <1>2, NodeHeight

\* What every internal page of a tree is.
LEMMA InnerNode ==
  ASSUME NEW V, NEW rt, NEW h, NEW R, Tree(V, rt, h, R), NEW p \in DOMAIN V, ~V[p].leaf
  PROVE  /\ KeysIn(V[p], R[p]) /\ IsInternalPage(V[p]) /\ IsKeys(V[p].keys) /\ Len(V[p].keys) \in Nat
         /\ Len(V[p].children) = Len(V[p].keys) + 1
         /\ \A j \in 1 .. Len(V[p].keys) : V[p].keys[j] \in R[p]
<1>1. KeysIn(V[p], R[p])
  BY TreeNode, InternalNode
<1> QED BY <1>1, KeysOf DEF KeysIn

\* Pages on one level share no number.
LEMMA SamePage ==
  ASSUME NEW V, NEW rt, NEW h, NEW R, Tree(V, rt, h, R), NEW p \in DOMAIN V, NEW q \in DOMAIN V,
         NEW x \in R[p], x \in R[q], h[p] = h[q]
  PROVE  p = q
BY DEF Tree, Disjoint

\* The region of a child is inside its parent's.
LEMMA ChildInside ==
  ASSUME NEW V, NEW rt, NEW h, NEW R, Tree(V, rt, h, R), NEW p \in DOMAIN V, NEW j, NEW c, IsChild(V, p, j, c)
  PROVE  R[c] \subseteq R[p]
BY ChildOfNode DEF Part

\* No page is a child twice.
LEMMA OneParent ==
  ASSUME NEW V, NEW rt, NEW h, NEW R, Tree(V, rt, h, R), NEW p \in DOMAIN V, NEW q \in DOMAIN V, NEW i, NEW j, NEW c,
         IsChild(V, p, i, c), IsChild(V, q, j, c)
  PROVE  p = q /\ i = j
<1>1. /\ c \in DOMAIN V /\ h[p] = h[q] /\ R[c] = Part(R[p], V[p].keys, i) /\ R[c] = Part(R[q], V[q].keys, j)
  <2>1. h[c] + 1 = h[p] /\ h[c] + 1 = h[q]
    BY ChildOfNode
  <2> QED BY <2>1, ChildOfNode
<1>2. PICK x \in R[c] : TRUE
  BY <1>1, TreeNode
<1>3. p = q
  BY <1>1, <1>2, ChildInside, SamePage
<1>4. IsKeys(V[p].keys) /\ R[p] \in SUBSET Int
  BY <1>3, TreeNode, InnerNode DEF IsChild
<1>5. i \in 1 .. Len(V[p].keys) + 1 /\ j \in 1 .. Len(V[p].keys) + 1
  BY <1>3, InnerNode DEF IsChild
<1>6. x \in Part(R[p], V[p].keys, i) /\ x \in Part(R[p], V[p].keys, j)
  BY <1>1, <1>2, <1>3
<1>7. ASSUME i < j PROVE FALSE
  <2>1. x < x /\ x \in Int
    BY <1>4, <1>5, <1>6, <1>7, PartsDisjoint
  <2> QED BY <2>1
<1>8. ASSUME j < i PROVE FALSE
  <2>1. x < x /\ x \in Int
    BY <1>4, <1>5, <1>6, <1>8, PartsDisjoint
  <2> QED BY <2>1
<1>9. i \in Int /\ j \in Int
  BY <1>5, <1>4 DEF IsKeys
<1> QED BY <1>3, <1>7, <1>8, <1>9

\* The child in whose part a number is.
LEMMA ChildFor ==
  ASSUME NEW V, NEW rt, NEW h, NEW R, Tree(V, rt, h, R), NEW p \in DOMAIN V, ~V[p].leaf, NEW x \in R[p]
  PROVE  \E i, c : IsChild(V, p, i, c) /\ c \in DOMAIN V /\ x \in R[c] /\ h[c] + 1 = h[p]
<1>1. Node(V, h, R, p) /\ R[p] \in SUBSET Int
  BY TreeNode
<1>2. IsKeys(V[p].keys) /\ Len(V[p].children) = Len(V[p].keys) + 1
  BY InnerNode
<1>3. PICK i \in 1 .. Len(V[p].keys) + 1 : x \in Part(R[p], V[p].keys, i)
  BY <1>1, <1>2, PartCovers
<1>4. IsChild(V, p, i, V[p].children[i])
  BY <1>2 DEF IsChild
<1> QED BY <1>3, <1>4, ChildOfNode

\* Every page but the root is a child.
LEMMA SomeParent ==
  ASSUME NEW V, NEW rt, NEW h, NEW R, Tree(V, rt, h, R), NEW c \in DOMAIN V, c # rt
  PROVE  \E p \in DOMAIN V : \E i : IsChild(V, p, i, c)
<1>1. h[c] \in Nat /\ h[rt] \in Nat /\ h[c] <= h[rt] /\ R[rt] = Int /\ rt \in DOMAIN V /\ R[c] \in SUBSET Int /\ R[c] # {}
  BY TreeNode DEF Tree
<1>2. PICK x \in R[c] : x \in Int
  BY <1>1
<1>3. h[c] # h[rt]
  BY <1>1, <1>2, SamePage
<1>4. h[c] + 1 \in 0 .. h[rt]
  BY <1>1, <1>3
<1>5. PICK p \in DOMAIN V : h[p] = h[c] + 1 /\ x \in R[p]
  BY <1>2, <1>4 DEF Tree, Covered
<1>6. ~V[p].leaf
  BY <1>1, <1>5, TreeNode
<1>7. PICK i, d : IsChild(V, p, i, d) /\ d \in DOMAIN V /\ x \in R[d] /\ h[d] + 1 = h[p]
  BY <1>5, <1>6, ChildFor
<1>8. h[d] \in Nat
  BY <1>7, TreeNode
<1>9. h[d] = h[c]
  BY <1>1, <1>5, <1>7, <1>8
<1> QED BY <1>2, <1>7, <1>9, SamePage

\* Regions are nested like pages: of two that share a number, the one on the
\* lower level is inside the other.
LEMMA Nested ==
  ASSUME NEW V, NEW rt, NEW h, NEW R, Tree(V, rt, h, R), NEW p \in DOMAIN V
  PROVE  \A q \in DOMAIN V : h[q] <= h[p] /\ R[q] \cap R[p] # {} => R[q] \subseteq R[p]
<1> DEFINE m == [q \in DOMAIN V |-> h[rt] - h[q]]
           S == {q \in DOMAIN V : h[q] <= h[p] /\ R[q] \cap R[p] # {} => R[q] \subseteq R[p]}
<1>1. \A q \in DOMAIN V : m[q] \in Nat
  BY TreeNode
<1>2. ASSUME NEW q \in DOMAIN V, \A r \in DOMAIN V : m[r] < m[q] => r \in S
      PROVE  q \in S
  <2> SUFFICES ASSUME h[q] <= h[p], NEW x \in R[q], x \in R[p], h[q] # h[p] PROVE R[q] \subseteq R[p]
    BY SamePage
  <2>1. h[q] \in Nat /\ h[p] \in Nat /\ h[rt] \in Nat /\ h[p] <= h[rt]
    BY TreeNode
  <2>2. q # rt
    BY <2>1
  <2>3. PICK r \in DOMAIN V : \E i : IsChild(V, r, i, q)
    BY <2>2, SomeParent
  <2>4. R[q] \subseteq R[r] /\ h[q] + 1 = h[r]
    BY <2>3, ChildInside, ChildOfNode
  <2>5. r \in S
    BY <1>2, <2>1, <2>4
  <2> QED BY <2>1, <2>4, <2>5
<1>3. DOMAIN V \subseteq S
  <2> HIDE DEF m, S
  <2> QED BY <1>1, <1>2, MeasureInduction
<1> QED BY <1>3

-----------------------------------------------------------------------------
(* What two neighbouring pages hold, and what the page they make holds.      *)

\* A ends before k and B begins with it.
Sides(A, k, B) ==
  A \subseteq Int /\ B \subseteq Int /\ k \in B /\ (\A x \in A : x < k) /\ (\A x \in B : k <= x)

\* Two leaves side by side make one leaf for both regions.
LEMMA LeafJoined ==
  ASSUME NEW A, NEW k, NEW B, Sides(A, k, B), NEW left, NEW right, NEW all, LeafJoin(left, right, all),
         LeafIn(left, A), LeafIn(right, B)
  PROVE  LeafIn(all, A \cup B)
<1> DEFINE s == left.entries
           t == right.entries
           u == all.entries
<1>1. /\ Len(s) \in Nat /\ Len(t) \in Nat /\ Len(u) \in Nat /\ Joins(s, t, u) /\ IsLeafPage(all)
  BY LeafKind DEF LeafJoin
<1>2. /\ \A j \in 1 .. Len(s) : s[j].key \in A
      /\ \A j \in 1 .. Len(t) : t[j].key \in B
      /\ SortedEntries(s) /\ SortedEntries(t)
  BY DEF LeafIn
<1> HIDE DEF s, t, u
<1>3. \A j \in 1 .. Len(u) : j \in 1 .. Len(s) \/ (j - Len(s) \in 1 .. Len(t) /\ Len(s) + (j - Len(s)) = j /\ j > Len(s))
  BY <1>1 DEF Joins
<1>4. ASSUME NEW j \in 1 .. Len(u)
      PROVE  /\ j <= Len(s) => j \in 1 .. Len(s) /\ u[j] = s[j]
             /\ j > Len(s) => j - Len(s) \in 1 .. Len(t) /\ u[j] = t[j - Len(s)]
             /\ j \in Int /\ (j <= Len(s) \/ j > Len(s))
  <2>1. j <= Len(s) => u[j] = s[j]
    BY <1>1 DEF Joins
  <2>2. j > Len(s) => u[j] = t[j - Len(s)]
    <3> SUFFICES ASSUME j > Len(s) PROVE u[j] = t[j - Len(s)]
      OBVIOUS
    <3>1. j - Len(s) \in 1 .. Len(t) /\ Len(s) + (j - Len(s)) = j
      BY <1>1, <1>3
    <3> QED BY <1>1, <3>1 DEF Joins
  <2> QED BY <1>1, <1>3, <2>1, <2>2
<1>5. ASSUME NEW j \in 1 .. Len(u)
      PROVE  u[j].key \in A \cup B
  BY <1>2, <1>4
<1>6. ASSUME NEW j \in 1 .. Len(u), NEW l \in 1 .. Len(u), j < l
      PROVE  u[j].key < u[l].key
  <2>1. CASE l <= Len(s)
    <3>1. l \in 1 .. Len(s) /\ j \in 1 .. Len(s) /\ u[l] = s[l] /\ u[j] = s[j]
      BY <1>1, <1>4, <1>6, <2>1
    <3> QED BY <1>2, <1>6, <3>1 DEF SortedEntries
  <2>2. CASE j > Len(s)
    <3>1. j - Len(s) < l - Len(s) /\ l > Len(s)
      BY <1>1, <1>6, <2>2
    <3> QED BY <1>2, <1>4, <2>2, <3>1 DEF SortedEntries
  <2>3. CASE j <= Len(s) /\ l > Len(s)
    <3>1. u[j].key \in A /\ u[l].key \in B
      BY <1>2, <1>4, <2>3
    <3>2. u[j].key < k /\ k <= u[l].key /\ u[j].key \in Int /\ u[l].key \in Int /\ k \in Int
      BY <3>1 DEF Sides
    <3> QED BY <3>2
  <2> QED BY <1>4, <2>1, <2>2, <2>3
<1>7. SortedEntries(u)
  BY <1>6 DEF SortedEntries
<1> QED BY <1>1, <1>5, <1>7 DEF LeafIn, u

\* A and B are what region C has below k and from k on.
Parted(C, A, k, B) == A = {x \in C : x < k} /\ B = {x \in C : k <= x}

\* The halves of a leaf are leaves on both sides of the right one's first key.
LEMMA LeafParted ==
  ASSUME NEW C \in SUBSET Int, NEW left, NEW right, NEW all, LeafJoin(left, right, all), LeafIn(all, C),
         Len(left.entries) >= 1, Len(right.entries) >= 1, NEW k, k = right.entries[1].key
  PROVE  /\ \A A, B : Parted(C, A, k, B) => LeafIn(left, A) /\ LeafIn(right, B)
         /\ k \in C /\ \E x \in C : x < k
<1> DEFINE s == left.entries
           t == right.entries
           u == all.entries
<1>1. /\ Len(s) \in Nat /\ Len(t) \in Nat /\ Len(u) \in Nat /\ Joins(s, t, u) /\ IsLeafPage(left) /\ IsLeafPage(right)
      /\ Len(s) >= 1 /\ Len(t) >= 1
  BY LeafKind DEF LeafJoin
<1>2. /\ \A j \in 1 .. Len(u) : u[j].key \in C
      /\ \A j, l \in 1 .. Len(u) : j < l => u[j].key < u[l].key
  BY DEF LeafIn, SortedEntries
<1>3. k = t[1].key
  OBVIOUS
<1> HIDE DEF s, t, u
<1>4. \A j \in 1 .. Len(s) : j \in 1 .. Len(u) /\ s[j] = u[j]
  BY <1>1 DEF Joins
<1>5. \A j \in 1 .. Len(t) : Len(s) + j \in 1 .. Len(u) /\ t[j] = u[Len(s) + j]
  BY <1>1 DEF Joins
<1>6. k \in C /\ k = u[Len(s) + 1].key /\ Len(s) + 1 \in 1 .. Len(u) /\ k \in Int
  <2>1. 1 \in 1 .. Len(t)
    BY <1>1
  <2>2. k = u[Len(s) + 1].key /\ Len(s) + 1 \in 1 .. Len(u)
    BY <1>3, <1>5, <2>1
  <2> QED BY <1>2, <2>2
<1>7. ASSUME NEW j \in 1 .. Len(s)
      PROVE  s[j].key \in {x \in C : x < k}
  BY <1>1, <1>2, <1>4, <1>6
<1>8. ASSUME NEW j \in 1 .. Len(t)
      PROVE  t[j].key \in {x \in C : k <= x}
  <2>1. Len(s) + j \in 1 .. Len(u) /\ t[j].key = u[Len(s) + j].key /\ t[j].key \in C /\ t[j].key \in Int
    BY <1>2, <1>5
  <2>2. CASE j = 1
    BY <1>3, <1>6, <2>1, <2>2
  <2>3. CASE Len(s) + 1 < Len(s) + j
    <3>1. k < t[j].key
      BY <1>2, <1>6, <2>1, <2>3
    <3> QED BY <1>6, <2>1, <3>1
  <2> QED BY <1>1, <2>2, <2>3
<1>9. SortedEntries(s)
  BY <1>2, <1>4 DEF SortedEntries
<1>10. SortedEntries(t)
  <2> SUFFICES ASSUME NEW j \in 1 .. Len(t), NEW l \in 1 .. Len(t), j < l PROVE t[j].key < t[l].key
    BY DEF SortedEntries
  <2>1. Len(s) + j < Len(s) + l
    BY <1>1
  <2> QED BY <1>2, <1>5, <2>1
<1>11. LeafIn(left, {x \in C : x < k}) /\ LeafIn(right, {x \in C : k <= x})
  BY <1>1, <1>7, <1>8, <1>9, <1>10 DEF LeafIn, s, t
<1>13. \A A, B : Parted(C, A, k, B) => LeafIn(left, A) /\ LeafIn(right, B)
  BY <1>11 DEF Parted
<1>12. s[1].key \in {x \in C : x < k}
  BY <1>1, <1>7
<1> QED BY <1>6, <1>12, <1>13

-----------------------------------------------------------------------------
(* The keys of two neighbours, K and L, with k between them. *)

Within(K, A) == \A j \in 1 .. Len(K) : K[j] \in A

\* The keys of two neighbours with the key between them are sorted.
LEMMA JoinedKeys ==
  ASSUME NEW A, NEW k, NEW B, Sides(A, k, B), NEW K, NEW L, NEW M, IsKeys(K), IsKeys(L), Len(M) \in Nat, KeysJoin(K, k, L, M),
         \A j \in 1 .. Len(K) : K[j] \in A,
         \A j \in 1 .. Len(L) : L[j] \in B /\ k < L[j]
  PROVE  IsKeys(M) /\ \A j \in 1 .. Len(M) : M[j] \in A \cup B
<1>1. Len(K) \in Nat /\ Len(L) \in Nat /\ Len(M) = Len(K) + 1 + Len(L) /\ k \in B /\ k \in Int
  BY DEF IsKeys, KeysJoin, Sides
<1>2. ASSUME NEW j \in 1 .. Len(M)
      PROVE  \/ j \in 1 .. Len(K) /\ M[j] = K[j]
             \/ j = Len(K) + 1 /\ M[j] = k
             \/ j > Len(K) + 1 /\ j - (Len(K) + 1) \in 1 .. Len(L) /\ M[j] = L[j - (Len(K) + 1)]
  <2>1. CASE j \in 1 .. Len(K)
    BY <2>1 DEF KeysJoin
  <2>2. CASE j = Len(K) + 1
    BY <2>2 DEF KeysJoin
  <2>3. CASE j > Len(K) + 1
    <3>1. j - (Len(K) + 1) \in 1 .. Len(L) /\ Len(K) + 1 + (j - (Len(K) + 1)) = j
      BY <1>1, <2>3
    <3> QED BY <2>3, <3>1 DEF KeysJoin
  <2> QED BY <1>1, <2>1, <2>2, <2>3
<1>3. ASSUME NEW j \in 1 .. Len(M)
      PROVE  M[j] \in A \cup B /\ M[j] \in Int
  <2>1. M[j] \in A \cup B
    BY <1>1, <1>2
  <2> QED BY <2>1 DEF Sides
<1>4. ASSUME NEW j \in 1 .. Len(M), NEW l \in 1 .. Len(M), j < l
      PROVE  M[j] < M[l]
  <2>1. CASE j \in 1 .. Len(K) /\ M[j] = K[j]
    <3>1. K[j] < k /\ K[j] \in Int
      BY <2>1 DEF Sides, IsKeys
    <3>2. CASE l \in 1 .. Len(K) /\ M[l] = K[l]
      BY <1>4, <2>1, <3>2 DEF IsKeys, SortedKeys
    <3>3. CASE ~(l \in 1 .. Len(K) /\ M[l] = K[l])
      <4>1. k <= M[l] /\ M[l] \in Int
        BY <1>1, <1>2, <1>3, <3>3 DEF Sides, IsKeys
      <4> QED BY <1>1, <2>1, <3>1, <4>1
    <3> QED BY <3>2, <3>3
  <2>2. CASE j = Len(K) + 1 /\ M[j] = k
    BY <1>1, <1>2, <1>4, <2>2
  <2>3. CASE j > Len(K) + 1 /\ j - (Len(K) + 1) \in 1 .. Len(L) /\ M[j] = L[j - (Len(K) + 1)]
    <3>1. l > Len(K) + 1 /\ j - (Len(K) + 1) < l - (Len(K) + 1)
      BY <1>1, <1>4, <2>3
    <3>2. l - (Len(K) + 1) \in 1 .. Len(L) /\ M[l] = L[l - (Len(K) + 1)]
      BY <1>1, <1>2, <3>1
    <3> QED BY <2>3, <3>1, <3>2 DEF IsKeys, SortedKeys
  <2> QED BY <1>2, <2>1, <2>2, <2>3
<1> QED BY <1>3, <1>4 DEF IsKeys, SortedKeys

\* The children of the left neighbour keep their parts when it is joined with the
\* right one.
LEMMA LeftParts ==
  ASSUME NEW A, NEW k, NEW B, Sides(A, k, B), NEW K, NEW L, NEW M, IsKeys(K), IsKeys(L), KeysJoin(K, k, L, M),
         Within(K, A), NEW j \in 1 .. Len(K) + 1
  PROVE  Part(A \cup B, M, j) = Part(A, K, j)
<1>1. Len(K) \in Nat /\ Len(L) \in Nat /\ Len(M) = Len(K) + 1 + Len(L) /\ k \in Int
  BY DEF IsKeys, KeysJoin, Sides
<1>2. (j > 1 => j - 1 \in 1 .. Len(K) /\ M[j - 1] = K[j - 1]) /\ j <= Len(M)
  BY <1>1 DEF KeysJoin
<1>3. j <= Len(K) => M[j] = K[j] /\ K[j] \in A /\ K[j] < k /\ K[j] \in Int
  <2> SUFFICES ASSUME j <= Len(K) PROVE M[j] = K[j] /\ K[j] \in A /\ K[j] < k /\ K[j] \in Int
    OBVIOUS
  <2>1. j \in 1 .. Len(K)
    BY <1>1
  <2> QED BY <2>1 DEF KeysJoin, Sides, Within
<1>4. j > Len(K) => M[j] = k
  BY <1>1 DEF KeysJoin
<1>5. ASSUME NEW x \in A \cup B
      PROVE  x \in Part(A \cup B, M, j) <=> x \in Part(A, K, j)
  <2>1. x \in Int /\ A \cup B \in SUBSET Int /\ A \in SUBSET Int /\ (x < k <=> x \in A)
    BY <1>1 DEF Sides
  <2>2. x \in Part(A \cup B, M, j) <=> (j > 1 => K[j - 1] <= x) /\ x < M[j]
    BY <1>2, <2>1, PartIn
  <2>3. x \in Part(A, K, j) <=> x \in A /\ (j > 1 => K[j - 1] <= x) /\ (j <= Len(K) => x < K[j])
    BY <2>1, PartIn
  <2>4. x < M[j] <=> x \in A /\ (j <= Len(K) => x < K[j])
    <3>1. CASE j <= Len(K)
      BY <1>1, <1>3, <2>1, <3>1
    <3>2. CASE j > Len(K)
      BY <1>1, <1>4, <2>1, <3>2
    <3> QED BY <1>1, <3>1, <3>2
  <2> QED BY <2>2, <2>3, <2>4
<1> QED BY <1>5 DEF Part

\* l is the place of j when it comes after all children under the keys K.
Follows(K, j, l) == l = Len(K) + 1 + j

\* So do those of the right neighbour, which come after.
LEMMA RightParts ==
  ASSUME NEW A, NEW k, NEW B, Sides(A, k, B), NEW K, NEW L, NEW M, IsKeys(K), IsKeys(L), KeysJoin(K, k, L, M),
         Within(L, B), NEW j \in 1 .. Len(L) + 1, NEW l, Follows(K, j, l)
  PROVE  Part(A \cup B, M, l) = Part(B, L, j)
<1>1. Len(K) \in Nat /\ Len(L) \in Nat /\ Len(M) = Len(K) + 1 + Len(L) /\ k \in Int /\ l = Len(K) + 1 + j
  BY DEF IsKeys, KeysJoin, Sides, Follows
<1>2. l > 1 /\ (l <= Len(M) <=> j <= Len(L)) /\ l - 1 = Len(K) + j
  BY <1>1
<1>3. j <= Len(L) => M[l] = L[j]
  BY <1>1 DEF KeysJoin
<1>4. j > 1 => M[l - 1] = L[j - 1] /\ L[j - 1] \in B /\ k <= L[j - 1] /\ L[j - 1] \in Int
  <2> SUFFICES ASSUME j > 1 PROVE M[l - 1] = L[j - 1] /\ L[j - 1] \in B /\ k <= L[j - 1] /\ L[j - 1] \in Int
    OBVIOUS
  <2>1. j - 1 \in 1 .. Len(L) /\ l - 1 = Len(K) + 1 + (j - 1)
    BY <1>1
  <2> QED BY <2>1 DEF KeysJoin, Sides, Within
<1>5. j = 1 => M[l - 1] = k
  BY <1>1, <1>2 DEF KeysJoin
<1>6. ASSUME NEW x \in A \cup B
      PROVE  x \in Part(A \cup B, M, l) <=> x \in Part(B, L, j)
  <2>1. x \in Int /\ A \cup B \in SUBSET Int /\ B \in SUBSET Int /\ (k <= x <=> x \in B)
    BY <1>1 DEF Sides
  <2>2. x \in Part(A \cup B, M, l) <=> M[l - 1] <= x /\ (j <= Len(L) => x < L[j])
    BY <1>2, <1>3, <2>1, PartIn
  <2>3. x \in Part(B, L, j) <=> x \in B /\ (j > 1 => L[j - 1] <= x) /\ (j <= Len(L) => x < L[j])
    BY <2>1, PartIn
  <2>4. M[l - 1] <= x <=> x \in B /\ (j > 1 => L[j - 1] <= x)
    <3>1. CASE j > 1
      BY <1>1, <1>4, <2>1, <3>1
    <3>2. CASE j = 1
      BY <1>1, <1>5, <2>1, <3>2
    <3> QED BY <1>1, <3>1, <3>2
  <2> QED BY <2>2, <2>3, <2>4
<1> QED BY <1>6 DEF Part

\* The other way round: what the page that is split says of its halves.
LEMMA PartedKeys ==
  ASSUME NEW C \in SUBSET Int, NEW k, NEW K, NEW L, NEW M, IsKeys(M), Len(K) \in Nat, Len(L) \in Nat, KeysJoin(K, k, L, M),
         \A j \in 1 .. Len(M) : M[j] \in C
  PROVE  /\ IsKeys(K) /\ IsKeys(L) /\ k \in C
         /\ \A A, B : Parted(C, A, k, B) => Within(K, A) /\ Within(L, B)
<1>1. Len(M) = Len(K) + 1 + Len(L) /\ Len(K) + 1 \in 1 .. Len(M) /\ k = M[Len(K) + 1]
  BY DEF KeysJoin
<1>2. \A j \in 1 .. Len(K) : j \in 1 .. Len(M) /\ j < Len(K) + 1 /\ K[j] = M[j]
  BY <1>1 DEF KeysJoin
<1>3. \A j \in 1 .. Len(L) : Len(K) + 1 + j \in 1 .. Len(M) /\ Len(K) + 1 < Len(K) + 1 + j /\ L[j] = M[Len(K) + 1 + j]
  BY <1>1 DEF KeysJoin
<1>4. k \in C /\ k \in Int
  BY <1>1
<1>5. \A j \in 1 .. Len(K) : K[j] \in Int /\ K[j] \in C /\ K[j] < k
  BY <1>1, <1>2 DEF IsKeys, SortedKeys
<1>6. \A j \in 1 .. Len(L) : L[j] \in Int /\ L[j] \in C /\ k < L[j]
  BY <1>1, <1>3 DEF IsKeys, SortedKeys
<1>7. IsKeys(K)
  BY <1>2, <1>5 DEF IsKeys, SortedKeys
<1>8. IsKeys(L)
  <2> SUFFICES ASSUME NEW j \in 1 .. Len(L), NEW l \in 1 .. Len(L), j < l PROVE L[j] < L[l]
    BY <1>6 DEF IsKeys, SortedKeys
  <2>1. Len(K) + 1 + j < Len(K) + 1 + l
    OBVIOUS
  <2> QED BY <1>3, <2>1 DEF IsKeys, SortedKeys
<1>9. \A A, B : Parted(C, A, k, B) => Within(K, A) /\ Within(L, B)
  BY <1>4, <1>5, <1>6 DEF Parted, Within
<1> QED BY <1>4, <1>7, <1>8, <1>9

-----------------------------------------------------------------------------
(* Making two neighbours one. *)

\* The parts on both sides of a key.
LEMMA PartSides ==
  ASSUME NEW A \in SUBSET Int, NEW K, IsKeys(K), NEW i \in 1 .. Len(K), K[i] \in A
  PROVE  Sides(Part(A, K, i), K[i], Part(A, K, i + 1))
<1>1. K[i] \in Int /\ i \in Int /\ i + 1 > 1 /\ (i + 1) - 1 = i /\ i <= Len(K)
  BY DEF IsKeys
<1>2. i + 1 <= Len(K) => K[i] < K[i + 1]
  BY <1>1 DEF IsKeys, SortedKeys
<1>3. K[i] \in Part(A, K, i + 1)
  BY <1>1, <1>2, PartIn
<1>4. Part(A, K, i) \subseteq Int /\ Part(A, K, i + 1) \subseteq Int
  BY DEF Part
<1>5. \A x \in Part(A, K, i) : x < K[i]
  BY <1>1 DEF Part
<1>6. \A x \in Part(A, K, i + 1) : K[i] <= x
  BY <1>1 DEF Part
<1> QED BY <1>3, <1>4, <1>5, <1>6 DEF Sides

\* Where two pages that become one lie.
LEMMA MergeFacts ==
  ASSUME NEW V, NEW rt, NEW h, NEW R, Tree(V, rt, h, R), NEW W, NEW u, NEW i, NEW a, NEW b, Merge(V, W, u, i, a, b)
  PROVE  /\ u \in DOMAIN V /\ a \in DOMAIN V /\ b \in DOMAIN V /\ u # a /\ u # b /\ a # b /\ b # rt /\ a # rt
         /\ IsChild(V, u, i, a) /\ IsChild(V, u, i + 1, b) /\ h[a] = h[b] /\ h[a] + 1 = h[u]
         /\ R[a] = Part(R[u], V[u].keys, i) /\ R[b] = Part(R[u], V[u].keys, i + 1)
         /\ Sides(R[a], V[u].keys[i], R[b])
<1> DEFINE K == V[u].keys
<1>1. u \in DOMAIN V /\ a \in DOMAIN V /\ b \in DOMAIN V /\ u # a /\ u # b /\ a # b /\ i \in 1 .. Len(K)
  BY DEF Merge
<1>2. ~V[u].leaf /\ IsKeys(K) /\ Len(V[u].children) = Len(K) + 1 /\ Len(K) \in Nat /\ \A j \in 1 .. Len(K) : K[j] \in R[u]
  <2>1. ~V[u].leaf
    BY DEF Merge, IsInternalPage
  <2> QED BY <1>1, <2>1, InnerNode
<1>3. IsChild(V, u, i, a) /\ IsChild(V, u, i + 1, b)
  BY <1>1, <1>2 DEF IsChild, Merge
<1>4. /\ R[a] = Part(R[u], K, i) /\ R[b] = Part(R[u], K, i + 1) /\ b # rt /\ a # rt
      /\ h[a] + 1 = h[u] /\ h[b] + 1 = h[u] /\ h[a] \in Nat /\ h[b] \in Nat
  BY <1>1, <1>3, ChildOfNode
<1>5. R[u] \in SUBSET Int
  BY <1>1, TreeNode
<1>6. Sides(Part(R[u], K, i), K[i], Part(R[u], K, i + 1))
  BY <1>1, <1>2, <1>5, PartSides
<1> QED BY <1>1, <1>3, <1>4, <1>6

\* A page whose own page, region and children are untouched.
LEMMA SameNode ==
  ASSUME NEW V, NEW h, NEW R, NEW W, NEW g, NEW Q, NEW p, Node(V, h, R, p), W[p] = V[p], g[p] = h[p], Q[p] = R[p],
         \A j, c : IsChild(V, p, j, c) => c \in DOMAIN W /\ g[c] = h[c] /\ Q[c] = R[c]
  PROVE  Node(W, g, Q, p)
<1>1. IsRegion(Q[p])
  BY DEF Node
<1>2. CASE h[p] = 0 /\ LeafIn(V[p], R[p])
  BY <1>1, <1>2 DEF Node
<1>3. CASE /\ h[p] \in Nat \ {0} /\ KeysIn(V[p], R[p])
           /\ \A i \in 1 .. Len(V[p].children) : ChildIn(V, h, R, p, i)
  <2>1. ASSUME NEW j \in 1 .. Len(W[p].children) PROVE ChildIn(W, g, Q, p, j)
    <3>1. IsChild(V, p, j, V[p].children[j])
      BY <1>3, <2>1 DEF IsChild, KeysIn, IsInternalPage
    <3>2. ChildIn(V, h, R, p, j)
      BY <1>3, <2>1
    <3> QED BY <3>1, <3>2 DEF ChildIn
  <2> QED BY <1>1, <1>3, <2>1 DEF Node
<1> QED BY <1>2, <1>3 DEF Node

MergedRegions(W, R, a, b) == [p \in DOMAIN W |-> IF p = a THEN R[a] \cup R[b] ELSE R[p]]

\* The parent of two pages that become one, without the key between them.
LEMMA MergedKeys ==
  ASSUME NEW V, NEW rt, NEW h, NEW R, Tree(V, rt, h, R), NEW W, NEW u, NEW i, NEW a, NEW b, Merge(V, W, u, i, a, b)
  PROVE  /\ KeysIn(W[u], R[u]) /\ IsRegion(R[a] \cup R[b])
         /\ PartsMerged(R[u], V[u].keys, W[u].keys, i)
<1> DEFINE K == V[u].keys
           L == W[u].keys
<1>1. u \in DOMAIN V /\ ~V[u].leaf /\ a \in DOMAIN V /\ R[a] = Part(R[u], K, i) /\ R[b] = Part(R[u], K, i + 1)
  BY MergeFacts DEF IsChild
<1>2. IsKeys(K) /\ Len(K) \in Nat /\ (\A j \in 1 .. Len(K) : K[j] \in R[u]) /\ R[u] \in SUBSET Int /\ Convex(R[u]) /\ R[a] # {}
  BY <1>1, InnerNode, TreeNode
<1>3. /\ PutIn(L, i, K[i], K) /\ IsInternalPage(W[u]) /\ i \in 1 .. Len(K) /\ Len(L) \in Nat /\ Len(K) = Len(L) + 1
      /\ Len(W[u].children) = Len(L) + 1
  BY InternalKind DEF Merge, PutIn
<1> HIDE DEF K, L
<1>4. \A j \in 1 .. Len(L) : (j < i => L[j] = K[j] /\ j \in 1 .. Len(K)) /\ (~(j < i) => L[j] = K[j + 1] /\ j + 1 \in 1 .. Len(K))
  BY <1>3 DEF PutIn
<1>5. \A j \in 1 .. Len(L) : L[j] \in R[u] /\ L[j] \in Int
  BY <1>2, <1>4
<1>6. SortedKeys(L)
  <2> SUFFICES ASSUME NEW j \in 1 .. Len(L), NEW l \in 1 .. Len(L), j < l PROVE L[j] < L[l]
    BY DEF SortedKeys
  <2>1. CASE l < i
    <3>1. j \in 1 .. Len(K) /\ l \in 1 .. Len(K) /\ L[j] = K[j] /\ L[l] = K[l]
      BY <1>3, <1>4, <2>1
    <3> QED BY <1>2, <3>1 DEF IsKeys, SortedKeys
  <2>2. CASE j < i /\ ~(l < i)
    <3>1. j \in 1 .. Len(K) /\ l + 1 \in 1 .. Len(K) /\ j < l + 1 /\ L[j] = K[j] /\ L[l] = K[l + 1]
      BY <1>3, <1>4, <2>2
    <3> QED BY <1>2, <3>1 DEF IsKeys, SortedKeys
  <2>3. CASE ~(j < i)
    <3>1. j + 1 \in 1 .. Len(K) /\ l + 1 \in 1 .. Len(K) /\ j + 1 < l + 1 /\ L[j] = K[j + 1] /\ L[l] = K[l + 1]
      BY <1>3, <1>4, <2>3
    <3> QED BY <1>2, <3>1 DEF IsKeys, SortedKeys
  <2> QED BY <1>3, <2>1, <2>2, <2>3
<1>7. IsKeys(L)
  BY <1>3, <1>5, <1>6 DEF IsKeys
<1>8. PartsMerged(R[u], K, L, i)
  <2>1. R[u] \in SUBSET Int /\ IsKeys(K) /\ PutIn(L, i, K[i], K)
    BY <1>2, <1>3
  <2> QED BY <1>7, <2>1, PartsMerge
<1>9. IsRegion(R[a] \cup R[b])
  <2>1. i \in 1 .. Len(L) + 1
    BY <1>3
  <2>2. Part(R[u], L, i) \subseteq Int /\ Convex(Part(R[u], L, i))
    BY <1>2, <1>7, <2>1, PartConvex
  <2> QED BY <1>1, <1>2, <1>8, <2>2 DEF IsRegion, PartsMerged, K
<1>10. KeysIn(W[u], R[u])
  BY <1>3, <1>5, <1>6 DEF KeysIn, L
<1> QED BY <1>8, <1>9, <1>10 DEF K, L

\* The page that two neighbours make is a node above the children of both.
LEMMA MergedPage ==
  ASSUME NEW V, NEW rt, NEW h, NEW R, Tree(V, rt, h, R), NEW W, NEW u, NEW i, NEW a, NEW b, Merge(V, W, u, i, a, b)
  PROVE  Node(W, h, MergedRegions(W, R, a, b), a)
<1> DEFINE k == V[u].keys[i]
           Q == MergedRegions(W, R, a, b)
           C == R[a] \cup R[b]
<1>1. /\ u \in DOMAIN V /\ a \in DOMAIN V /\ b \in DOMAIN V /\ u # a /\ u # b /\ a # b
      /\ IsChild(V, u, i, a) /\ IsChild(V, u, i + 1, b) /\ h[a] = h[b] /\ h[a] + 1 = h[u]
      /\ Sides(R[a], k, R[b])
  BY MergeFacts
<1>2. IsRegion(C) /\ a \in DOMAIN W /\ b \notin DOMAIN W /\ DOMAIN V = DOMAIN W \cup {b}
  <2>1. a \in DOMAIN W /\ b \notin DOMAIN W /\ DOMAIN V = DOMAIN W \cup {b}
    BY DEF Merge
  <2> QED BY <2>1, MergedKeys
<1>3. Q[a] = C
  BY <1>2 DEF MergedRegions
<1>4. Node(V, h, R, a) /\ Node(V, h, R, b) /\ h[a] \in Nat
  BY <1>1, TreeNode
<1>5. CASE LeafJoin(V[a], V[b], W[a])
  <2>1. V[a].leaf /\ V[b].leaf
    BY <1>5, LeafKind DEF LeafJoin
  <2>2. h[a] = 0 /\ LeafIn(V[a], R[a]) /\ LeafIn(V[b], R[b])
    BY <1>4, <2>1, LeafNode
  <2>3. LeafIn(W[a], C)
    BY <1>1, <1>5, <2>2, LeafJoined
  <2> QED BY <1>2, <1>3, <2>2, <2>3 DEF Node
<1>6. CASE InternalJoin(V[a], k, V[b], W[a])
  <2> DEFINE K == V[a].keys
             L == V[b].keys
             M == W[a].keys
  <2>1. ~V[a].leaf /\ ~V[b].leaf /\ IsInternalPage(W[a]) /\ Joins(V[a].children, V[b].children, W[a].children) /\ KeysJoin(K, k, L, M)
    BY <1>6, InternalKind DEF InternalJoin
  <2>2. /\ IsKeys(K) /\ Len(K) \in Nat /\ Len(V[a].children) = Len(K) + 1 /\ \A j \in 1 .. Len(K) : K[j] \in R[a]
        /\ IsKeys(L) /\ Len(L) \in Nat /\ Len(V[b].children) = Len(L) + 1 /\ \A j \in 1 .. Len(L) : L[j] \in R[b]
    BY <1>1, <2>1, InnerNode
  <2>3. /\ h[a] \in Nat \ {0}
        /\ \A j \in 1 .. Len(V[a].children) : ChildIn(V, h, R, a, j)
        /\ \A j \in 1 .. Len(V[b].children) : ChildIn(V, h, R, b, j)
    BY <1>4, <2>1, InternalNode
  <2>4. ASSUME NEW j \in 1 .. Len(L) PROVE k < L[j]
    <3>1. ChildIn(V, h, R, b, 1)
      BY <2>2, <2>3
    <3>2. V[b].children[1] \in DOMAIN V /\ R[V[b].children[1]] = Part(R[b], L, 1)
      BY <3>1 DEF ChildIn
    <3>3. PICK x \in Part(R[b], L, 1) : TRUE
      BY <3>2, TreeNode
    <3>4. 1 \in 1 .. Len(L) /\ x \in R[b] /\ x < L[1]
      BY <2>2, <3>3 DEF Part
    <3>5. k <= x /\ k \in Int /\ x \in Int
      BY <1>1, <3>4 DEF Sides
    <3>6. L[1] \in Int /\ L[j] \in Int /\ (j = 1 \/ L[1] < L[j])
      BY <2>2, <3>4 DEF IsKeys, SortedKeys
    <3> QED BY <3>4, <3>5, <3>6
  <2>5. Len(M) \in Nat /\ Len(W[a].children) = Len(M) + 1
    BY <2>1, InternalKind
  <2>6. IsKeys(M) /\ \A j \in 1 .. Len(M) : M[j] \in C
    BY <1>1, <2>1, <2>2, <2>4, <2>5, JoinedKeys, SMTT(30)
  <2>7. KeysIn(W[a], C)
    BY <2>1, <2>6 DEF KeysIn, IsKeys
  <2>8. ASSUME NEW j, NEW p \in {a, b}, j \in 1 .. Len(V[p].children)
        PROVE  /\ V[p].children[j] \in DOMAIN W /\ Q[V[p].children[j]] = Part(R[p], V[p].keys, j)
               /\ h[V[p].children[j]] + 1 = h[a]
    <3> DEFINE c == V[p].children[j]
    <3>1. IsChild(V, p, j, c) /\ ChildIn(V, h, R, p, j)
      BY <2>1, <2>3, <2>8 DEF IsChild
    <3>2. c \in DOMAIN V /\ R[c] = Part(R[p], V[p].keys, j) /\ h[c] + 1 = h[a]
      BY <1>1, <3>1 DEF ChildIn
    <3>3. c # a /\ c # b
      BY <1>1, <3>1, OneParent
    <3> QED BY <1>2, <3>2, <3>3 DEF MergedRegions
  <2>9. ASSUME NEW j \in 1 .. Len(W[a].children) PROVE ChildIn(W, h, Q, a, j)
    <3>1. CASE j \in 1 .. Len(V[a].children)
      <4>1. W[a].children[j] = V[a].children[j]
        BY <2>1, <3>1 DEF Joins
      <4>2. Part(C, M, j) = Part(R[a], K, j)
        <5>1. j \in 1 .. Len(K) + 1
          BY <2>2, <3>1
        <5>2. Sides(R[a], k, R[b]) /\ IsKeys(K) /\ IsKeys(L) /\ KeysJoin(K, k, L, M) /\ Within(K, R[a])
          BY <1>1, <2>1, <2>2 DEF Within
        <5> HIDE DEF K, L, M, k
        <5> QED BY <5>1, <5>2, LeftParts
      <4> QED BY <1>3, <2>8, <3>1, <4>1, <4>2 DEF ChildIn
    <3>2. CASE j > Len(V[a].children)
      <4>1. PICK l \in 1 .. Len(V[b].children) : Len(V[a].children) + l = j /\ Len(K) + 1 + l = j
        <5>1. Len(W[a].children) = Len(V[a].children) + Len(V[b].children)
          BY <2>1 DEF Joins
        <5>2. ASSUME NEW m \in Nat, NEW n \in Nat, j \in 1 .. m + n, j > m
              PROVE  j - m \in 1 .. n /\ m + (j - m) = j
          BY <5>2
        <5>3. j - Len(V[a].children) \in 1 .. Len(V[b].children) /\ Len(V[a].children) + (j - Len(V[a].children)) = j
          <6>1. Len(V[a].children) \in Nat /\ Len(V[b].children) \in Nat
            BY <2>2
          <6>2. j \in 1 .. Len(V[a].children) + Len(V[b].children)
            BY <5>1
          <6> QED BY <3>2, <5>2, <6>1, <6>2
        <5> QED BY <2>2, <5>3
      <4>2. W[a].children[j] = V[b].children[l]
        BY <2>1, <4>1 DEF Joins
      <4>3. Part(C, M, j) = Part(R[b], L, l)
        <5>1. l \in 1 .. Len(L) + 1
          BY <2>2, <4>1
        <5>2. Follows(K, l, j)
          BY <4>1 DEF Follows
        <5>3. Sides(R[a], k, R[b]) /\ IsKeys(K) /\ IsKeys(L) /\ KeysJoin(K, k, L, M) /\ Within(L, R[b])
          BY <1>1, <2>1, <2>2 DEF Within
        <5> HIDE DEF K, L, M, k
        <5> QED BY <5>1, <5>2, <5>3, RightParts
      <4> QED BY <1>3, <2>8, <4>1, <4>2, <4>3 DEF ChildIn
    <3> QED BY <2>2, <3>1, <3>2
  <2> QED BY <1>2, <1>3, <2>3, <2>7, <2>9 DEF Node
<1> QED BY <1>5, <1>6 DEF Merge

\* The parent of two pages that become one stays a node.
LEMMA MergedParent ==
  ASSUME NEW V, NEW rt, NEW h, NEW R, Tree(V, rt, h, R), NEW W, NEW u, NEW i, NEW a, NEW b, Merge(V, W, u, i, a, b)
  PROVE  Node(W, h, MergedRegions(W, R, a, b), u)
<1> DEFINE Q == MergedRegions(W, R, a, b)
           K == V[u].keys
           L == W[u].keys
<1>1. /\ u \in DOMAIN V /\ a \in DOMAIN V /\ b \in DOMAIN V /\ u # a /\ u # b /\ a # b
      /\ IsChild(V, u, i, a) /\ IsChild(V, u, i + 1, b) /\ h[a] + 1 = h[u]
  BY MergeFacts
<1>2. /\ u \in DOMAIN W /\ a \in DOMAIN W /\ DOMAIN V = DOMAIN W \cup {b} /\ i \in 1 .. Len(K)
      /\ PutIn(W[u].children, i + 1, b, V[u].children) /\ W[u].children[i] = a
  <2>1. /\ u \in DOMAIN W /\ a \in DOMAIN W /\ DOMAIN V = DOMAIN W \cup {b} /\ i \in 1 .. Len(K)
        /\ PutIn(W[u].children, i + 1, b, V[u].children) /\ V[u].children[i] = a
    BY DEF Merge
  <2>2. i \in 1 .. (i + 1) - 1
    BY <2>1
  <2> QED BY <2>1, <2>2 DEF PutIn
<1>3. /\ KeysIn(W[u], R[u]) /\ Part(R[u], L, i) = R[a] \cup R[b]
      /\ PartsMerged(R[u], K, L, i)
  <2>1. KeysIn(W[u], R[u])
    BY MergedKeys
  <2>2. PartsMerged(R[u], K, L, i)
    BY MergedKeys
  <2>3. Part(R[u], L, i) = R[a] \cup R[b]
    BY <2>2, MergeFacts DEF PartsMerged
  <2> QED BY <2>1, <2>2, <2>3
<1>4. h[u] \in Nat \ {0} /\ IsRegion(R[u]) /\ ~V[u].leaf
  <2>1. ~V[u].leaf
    BY <1>1 DEF IsChild
  <2> QED BY <1>1, <2>1, TreeNode, InternalNode DEF Node
<1>5. Q[u] = R[u] /\ Q[a] = R[a] \cup R[b]
  BY <1>1, <1>2 DEF MergedRegions
<1>6. /\ Len(W[u].children) \in Nat /\ Len(V[u].children) \in Nat /\ Len(V[u].children) = Len(W[u].children) + 1
      /\ Len(V[u].children) = Len(K) + 1
  BY <1>1, <1>2, <1>3, <1>4, KeysOf, InnerNode DEF PutIn
<1>7. ASSUME NEW j \in 1 .. Len(V[u].children), j # i, j # i + 1
      PROVE  /\ V[u].children[j] \in DOMAIN W /\ h[V[u].children[j]] + 1 = h[u]
             /\ Q[V[u].children[j]] = Part(R[u], K, j)
  <2> DEFINE c == V[u].children[j]
  <2>1. IsChild(V, u, j, c)
    BY <1>4 DEF IsChild
  <2>2. c \in DOMAIN V /\ h[c] + 1 = h[u] /\ R[c] = Part(R[u], K, j)
    BY <1>1, <2>1, ChildOfNode
  <2>3. c # a /\ c # b
    BY <1>1, <1>7, <2>1, OneParent
  <2> QED BY <1>2, <2>2, <2>3 DEF MergedRegions
<1>8. ASSUME NEW j \in 1 .. Len(W[u].children)
      PROVE  ChildIn(W, h, Q, u, j)
  <2>1. CASE j = i
    BY <1>1, <1>2, <1>3, <1>5, <2>1 DEF ChildIn
  <2>2. CASE j \in 1 .. i - 1
    <3>1. W[u].children[j] = V[u].children[j] /\ j \in 1 .. Len(V[u].children) /\ j # i /\ j # i + 1
      BY <1>2, <1>6, <2>2, SMTT(30) DEF PutIn
    <3>2. Part(R[u], L, j) = Part(R[u], K, j)
      BY <1>3, <2>2 DEF PartsMerged
    <3> QED BY <1>5, <1>7, <3>1, <3>2 DEF ChildIn
  <2>3. CASE j \in i + 1 .. Len(W[u].children)
    <3>1. j + 1 \in 1 .. Len(V[u].children) /\ j + 1 # i /\ j + 1 # i + 1
      BY <1>2, <1>6, <2>3
    <3>2. W[u].children[j] = V[u].children[j + 1]
      BY <1>2, <2>3 DEF PutIn
    <3>3. Q[V[u].children[j + 1]] = Part(R[u], K, j + 1)
      BY <1>7, <3>1
    <3>4. Part(R[u], L, j) = Part(R[u], K, j + 1)
      BY <1>3, <1>6, <2>3 DEF PartsMerged
    <3> QED BY <1>5, <1>7, <3>1, <3>2, <3>3, <3>4 DEF ChildIn
  <2> QED BY <1>2, <1>6, <2>1, <2>2, <2>3
<1> QED BY <1>3, <1>4, <1>5, <1>8 DEF Node

\* Every page is a node when two have become one.
LEMMA MergedNode ==
  ASSUME NEW V, NEW rt, NEW h, NEW R, Tree(V, rt, h, R), NEW W, NEW u, NEW i, NEW a, NEW b, Merge(V, W, u, i, a, b),
         NEW p \in DOMAIN W
  PROVE  Node(W, h, MergedRegions(W, R, a, b), p)
<1> DEFINE Q == MergedRegions(W, R, a, b)
<1>1. CASE p = a
  BY <1>1, MergedPage
<1>2. CASE p = u
  BY <1>2, MergedParent
<1>3. CASE p # a /\ p # u
  <2>1. W[p] = V[p] /\ DOMAIN V = DOMAIN W \cup {b} /\ b \notin DOMAIN W
    BY <1>3 DEF Merge
  <2>2. Q[p] = R[p]
    BY <1>3 DEF MergedRegions
  <2>3. p \in DOMAIN V /\ Node(V, h, R, p)
    BY <2>1, TreeNode
  <2>4. ASSUME NEW j, NEW c, IsChild(V, p, j, c)
        PROVE  c \in DOMAIN W /\ Q[c] = R[c]
    <3>1. c \in DOMAIN V
      BY <2>3, <2>4, ChildOfNode
    <3>2. c # a /\ c # b
      BY <1>3, <2>3, <2>4, MergeFacts, OneParent
    <3> QED BY <2>1, <3>1, <3>2 DEF MergedRegions
  <2> QED BY <2>1, <2>2, <2>3, <2>4, SameNode
<1> QED BY <1>1, <1>2, <1>3

\* The levels stay disjoint and complete when two pages become one.
LEMMA MergedDisjoint ==
  ASSUME NEW V, NEW rt, NEW h, NEW R, Tree(V, rt, h, R), NEW W, NEW u, NEW i, NEW a, NEW b, Merge(V, W, u, i, a, b)
  PROVE  Disjoint(W, h, MergedRegions(W, R, a, b)) /\ Covered(W, rt, h, MergedRegions(W, R, a, b))
<1> DEFINE Q == MergedRegions(W, R, a, b)
<1>1. /\ DOMAIN V = DOMAIN W \cup {b} /\ b \notin DOMAIN W /\ a \in DOMAIN W /\ a \in DOMAIN V /\ h[a] = h[b]
      /\ b \in DOMAIN V
  <2>1. DOMAIN V = DOMAIN W \cup {b} /\ b \notin DOMAIN W /\ a \in DOMAIN W
    BY DEF Merge
  <2> QED BY <2>1, MergeFacts
<1>2. \A p \in DOMAIN W : Q[p] = IF p = a THEN R[a] \cup R[b] ELSE R[p]
  BY DEF MergedRegions
<1>3. ASSUME NEW p \in DOMAIN W, NEW q \in DOMAIN W, p # q, h[p] = h[q], NEW x \in Q[p], x \in Q[q]
      PROVE  FALSE
  <2>1. PICK r \in DOMAIN V : x \in R[r] /\ h[r] = h[p] /\ (r = p \/ (r = b /\ p = a))
    BY <1>1, <1>2, <1>3
  <2>2. PICK s \in DOMAIN V : x \in R[s] /\ h[s] = h[p] /\ (s = q \/ (s = b /\ q = a))
    BY <1>1, <1>2, <1>3
  <2>3. r = s
    BY <2>1, <2>2, SamePage
  <2> QED BY <1>1, <1>3, <2>1, <2>2, <2>3
<1>4. Disjoint(W, h, Q)
  BY <1>3 DEF Disjoint
<1>5. ASSUME NEW n \in 0 .. h[rt], NEW x \in Int
      PROVE  \E p \in DOMAIN W : h[p] = n /\ x \in Q[p]
  <2>1. PICK p \in DOMAIN V : h[p] = n /\ x \in R[p]
    BY DEF Tree, Covered
  <2>2. CASE p = b
    BY <1>1, <1>2, <2>1, <2>2
  <2>3. CASE p # b
    BY <1>1, <1>2, <2>1, <2>3
  <2> QED BY <2>2, <2>3
<1> QED BY <1>4, <1>5 DEF Covered

\* Links over regions that have grown to the right or to the left.
LEMMA AdjacentJoined ==
  ASSUME NEW A, NEW k, NEW B, Sides(A, k, B), Convex(A \cup B), A # {}, NEW C \in SUBSET Int
  PROVE  /\ Adjacent(B, C) => Adjacent(A \cup B, C)
         /\ Adjacent(C, A) => Adjacent(C, A \cup B)
         /\ Unbounded(B) => Unbounded(A \cup B)
<1>1. /\ A \subseteq Int /\ B \subseteq Int /\ k \in B /\ k \in Int /\ \A x \in A : x < k /\ x \in Int
      /\ \A x \in B : k <= x /\ x \in Int
  BY DEF Sides
<1>2. PICK a \in A : a \in Int /\ a < k
  BY <1>1
<1>3. ASSUME Adjacent(B, C), NEW x \in A \cup B, NEW z \in C, NEW y \in Int, x < y, y < z
      PROVE  y \in (A \cup B) \cup C
  <2>1. CASE x \in B
    BY <1>3, <2>1 DEF Adjacent
  <2>2. CASE x \in A /\ y > k
    BY <1>1, <1>3, <2>2 DEF Adjacent
  <2>3. CASE x \in A /\ y <= k
    <3>1. y = k \/ y < k
      BY <1>1, <2>3
    <3> QED BY <1>1, <1>3, <2>3, <3>1 DEF Convex
  <2> QED BY <1>1, <2>1, <2>2, <2>3
<1>4. ASSUME Adjacent(B, C), NEW x \in A \cup B, NEW z \in C
      PROVE  x < z
  <2>1. k < z /\ z \in Int /\ x \in Int
    BY <1>1, <1>4 DEF Adjacent
  <2>2. CASE x \in B
    BY <1>4, <2>2 DEF Adjacent
  <2>3. CASE x \in A
    BY <1>1, <2>1, <2>3
  <2> QED BY <2>2, <2>3
<1>5. ASSUME Adjacent(C, A), NEW x \in C, NEW z \in A \cup B, NEW y \in Int, x < y, y < z
      PROVE  y \in C \cup (A \cup B)
  <2>1. CASE z \in A
    BY <1>5, <2>1 DEF Adjacent
  <2>2. CASE z \in B /\ y < a
    BY <1>1, <1>2, <1>5, <2>2 DEF Adjacent
  <2>3. CASE z \in B /\ y >= a
    <3>1. y = a \/ a < y
      BY <1>2, <2>3
    <3> QED BY <1>2, <1>5, <2>3, <3>1 DEF Convex
  <2> QED BY <1>2, <2>1, <2>2, <2>3
<1>6. ASSUME Adjacent(C, A), NEW x \in C, NEW z \in A \cup B
      PROVE  x < z
  <2>1. x < a /\ x \in Int /\ z \in Int
    BY <1>1, <1>2, <1>6 DEF Adjacent
  <2>2. CASE z \in A
    BY <1>6, <2>2 DEF Adjacent
  <2>3. CASE z \in B
    BY <1>1, <1>2, <2>1, <2>3
  <2> QED BY <2>2, <2>3
<1>7. ASSUME Unbounded(B), NEW x \in A \cup B, NEW y \in Int, x < y
      PROVE  y \in A \cup B
  <2>1. CASE y = k \/ y > k
    BY <1>1, <1>7, <2>1 DEF Unbounded
  <2>2. CASE y < k
    BY <1>1, <1>7, <2>2 DEF Convex
  <2> QED BY <1>1, <2>1, <2>2
<1>8. Adjacent(B, C) => Adjacent(A \cup B, C)
  BY <1>3, <1>4 DEF Adjacent
<1>9. Adjacent(C, A) => Adjacent(C, A \cup B)
  BY <1>5, <1>6 DEF Adjacent
<1>10. Unbounded(B) => Unbounded(A \cup B)
  BY <1>7 DEF Unbounded
<1> QED BY <1>8, <1>9, <1>10

\* No page but its left neighbour can lead to the right one of two.
LEMMA OnlyNeighbourLeads ==
  ASSUME NEW A, NEW k, NEW B, Sides(A, k, B), Convex(A \cup B), A # {},
         NEW C \in SUBSET Int, C # {}, C \cap (A \cup B) = {}
  PROVE  ~Adjacent(C, B)
<1> SUFFICES ASSUME Adjacent(C, B) PROVE FALSE
  OBVIOUS
<1>1. \A a \in A : a \in Int /\ k \in Int /\ a < k /\ ~(k <= a)
  BY DEF Sides
<1>2. PICK a \in A : a \in Int /\ a < k /\ a \notin B
  BY <1>1 DEF Sides
<1>3. k \in B /\ k \in Int
  BY DEF Sides
<1>4. PICK x \in C : x \in Int /\ x < k
  BY <1>3 DEF Adjacent
<1>5. CASE x < a
  BY <1>2, <1>3, <1>4, <1>5 DEF Adjacent
<1>6. CASE x = a
  BY <1>2, <1>4, <1>6
<1>7. CASE a < x
  BY <1>2, <1>3, <1>4, <1>7 DEF Convex
<1> QED BY <1>2, <1>4, <1>5, <1>6, <1>7

\* The leaves stay linked in order when two pages become one.
LEMMA MergedLinks ==
  ASSUME NEW V, NEW rt, NEW h, NEW R, Tree(V, rt, h, R), NEW W, NEW u, NEW i, NEW a, NEW b, Merge(V, W, u, i, a, b)
  PROVE  Links(W, MergedRegions(W, R, a, b))
<1> DEFINE Q == MergedRegions(W, R, a, b)
           k == V[u].keys[i]
           C == R[a] \cup R[b]
<1>1. /\ DOMAIN V = DOMAIN W \cup {b} /\ b \notin DOMAIN W /\ a \in DOMAIN W
      /\ \A p \in DOMAIN W : p # u /\ p # a => W[p] = V[p]
      /\ LeafJoin(V[a], V[b], W[a]) \/ InternalJoin(V[a], k, V[b], W[a])
      /\ V[u].leaf = FALSE /\ W[u].leaf = FALSE
  BY DEF Merge, IsInternalPage
<1>2. a \in DOMAIN V /\ b \in DOMAIN V /\ a # b /\ u # a /\ u # b /\ h[a] = h[b] /\ Sides(R[a], k, R[b])
  BY MergeFacts
<1>3. Convex(C) /\ R[a] # {} /\ k \in R[b] /\ k \in Int
  <2>1. IsRegion(C)
    BY MergedKeys
  <2> QED BY <1>2, <2>1, TreeNode DEF IsRegion, Sides
<1>4. \A p \in DOMAIN W : Q[p] = IF p = a THEN C ELSE R[p]
  BY DEF MergedRegions
<1>5. \A p \in DOMAIN V : V[p].leaf => Linked(V, R, p)
  BY DEF Tree, Links
<1>6. CASE InternalJoin(V[a], k, V[b], W[a])
  <2>1. V[a].leaf = FALSE /\ V[b].leaf = FALSE /\ W[a].leaf = FALSE
    BY <1>6 DEF InternalJoin, IsInternalPage
  <2> SUFFICES ASSUME NEW p \in DOMAIN W, W[p].leaf PROVE Linked(W, Q, p)
    BY DEF Links
  <2>2. p # u /\ p # a /\ W[p] = V[p] /\ p \in DOMAIN V /\ Linked(V, R, p)
    BY <1>1, <1>5, <2>1
  <2>3. CASE V[p].next = NoPage
    BY <1>4, <2>2, <2>3 DEF Linked
  <2>4. CASE V[p].next # NoPage
    <3>1. V[p].next \in DOMAIN V /\ V[V[p].next].leaf /\ Adjacent(R[p], R[V[p].next])
      BY <2>2, <2>4 DEF Linked
    <3>2. V[p].next # a /\ V[p].next # b /\ V[p].next # u
      BY <1>1, <2>1, <3>1
    <3> QED BY <1>1, <1>4, <2>2, <2>4, <3>1, <3>2 DEF Linked
  <2> QED BY <2>3, <2>4
<1>7. CASE LeafJoin(V[a], V[b], W[a])
  <2>1. V[a].leaf = TRUE /\ V[b].leaf = TRUE /\ W[a].leaf = TRUE /\ W[a].next = V[b].next
    BY <1>7 DEF LeafJoin, IsLeafPage
  <2> SUFFICES ASSUME NEW p \in DOMAIN W, W[p].leaf PROVE Linked(W, Q, p)
    BY DEF Links
  <2>2. CASE p = a
    <3> DEFINE q == V[b].next
    <3>1. Linked(V, R, b)
      BY <1>2, <1>5, <2>1
    <3>2. CASE q = NoPage
      <4>1. Unbounded(R[b])
        BY <3>1, <3>2 DEF Linked
      <4>2. Unbounded(C)
        BY <1>2, <1>3, <4>1, AdjacentJoined
      <4> QED BY <1>4, <2>1, <2>2, <3>2, <4>2 DEF Linked
    <3>3. CASE q # NoPage
      <4>1. q \in DOMAIN V /\ V[q].leaf /\ Adjacent(R[b], R[q])
        BY <3>1, <3>3 DEF Linked
      <4>2. q # b
        <5>1. ~(k < k)
          BY <1>3
        <5> QED BY <1>3, <4>1, <5>1 DEF Adjacent
      <4>3. q # a
        <5>1. PICK x \in R[a] : TRUE
          BY <1>3
        <5>2. x < k /\ x \in Int
          BY <1>2 DEF Sides
        <5>3. ~(k < x)
          BY <1>3, <5>2
        <5> QED BY <1>3, <4>1, <5>1, <5>3 DEF Adjacent
      <4>4. q # u /\ q \in DOMAIN W /\ W[q] = V[q] /\ Q[q] = R[q]
        BY <1>1, <1>4, <4>1, <4>2, <4>3
      <4>5. R[q] \in SUBSET Int
        BY <4>1, TreeNode
      <4>6. Adjacent(C, R[q])
        BY <1>2, <1>3, <4>1, <4>5, AdjacentJoined
      <4>7. Q[p] = C /\ W[p].next = q
        BY <1>4, <2>1, <2>2
      <4> HIDE DEF q, C, Q
      <4> QED BY <3>3, <4>1, <4>4, <4>6, <4>7 DEF Linked
    <3> QED BY <3>2, <3>3
  <2>3. CASE p # a
    <3>1. p # u /\ W[p] = V[p] /\ p \in DOMAIN V /\ p # b /\ Linked(V, R, p) /\ Q[p] = R[p] /\ V[p].leaf
      BY <1>1, <1>4, <1>5, <2>3
    <3> DEFINE q == V[p].next
    <3>2. CASE q = NoPage
      BY <3>1, <3>2 DEF Linked
    <3>3. CASE q # NoPage
      <4>1. q \in DOMAIN V /\ V[q].leaf /\ Adjacent(R[p], R[q])
        BY <3>1, <3>3 DEF Linked
      <4>2. R[p] \in SUBSET Int /\ R[p] # {} /\ h[p] = 0 /\ h[a] = 0 /\ h[b] = 0
        BY <1>2, <2>1, <3>1, TreeNode
      <4>3. R[p] \cap C = {}
        BY <1>2, <2>3, <3>1, <4>2 DEF Tree, Disjoint
      <4>4. q # b
        BY <1>2, <1>3, <4>1, <4>2, <4>3, OnlyNeighbourLeads
      <4>5. q \in DOMAIN W /\ q # u
        BY <1>1, <4>1, <4>4
      <4>6. CASE q = a
        <5>1. Adjacent(R[p], C)
          BY <1>2, <1>3, <4>1, <4>2, <4>6, AdjacentJoined
        <5> QED BY <1>4, <2>1, <3>1, <4>5, <4>6, <5>1 DEF Linked
      <4>7. CASE q # a
        BY <1>1, <1>4, <3>1, <4>1, <4>5, <4>7 DEF Linked
      <4> QED BY <4>6, <4>7
    <3> QED BY <3>2, <3>3
  <2> QED BY <2>2, <2>3
<1> QED BY <1>1, <1>6, <1>7

\* A tree in which two neighbours become one stays a tree (Coalesce and its
\* callers).
LEMMA MergeTree ==
  ASSUME NEW V, NEW rt, NEW h, NEW R, Tree(V, rt, h, R), NEW W, NEW u, NEW i, NEW a, NEW b, Merge(V, W, u, i, a, b)
  PROVE  Tree(W, rt, h, MergedRegions(W, R, a, b))
<1> DEFINE Q == MergedRegions(W, R, a, b)
<1>1. DOMAIN V = DOMAIN W \cup {b}
  BY DEF Merge
<1>2. IsFiniteSet(DOMAIN W) /\ DOMAIN W \subseteq Nat
  BY <1>1, FS_Subset DEF Tree
<1>3. rt \in DOMAIN W /\ rt # a
  BY <1>1, MergeFacts DEF Tree
<1>4. Q[rt] = Int
  BY <1>3 DEF Tree, MergedRegions
<1>5. \A p \in DOMAIN W : Node(W, h, Q, p) /\ h[p] <= h[rt]
  BY <1>1, MergedNode DEF Tree
<1> HIDE DEF Q
<1> QED BY <1>2, <1>3, <1>4, <1>5, MergedDisjoint, MergedLinks DEF Tree, Q

-----------------------------------------------------------------------------
(* Making two neighbours of one page. *)

SplitRegions(V, R, u, i, a, b) ==
  [p \in DOMAIN V |-> IF p = a THEN Part(R[u], V[u].keys, i)
                      ELSE IF p = b THEN Part(R[u], V[u].keys, i + 1) ELSE R[p]]

SplitHeights(V, h, a, b) == [p \in DOMAIN V |-> IF p = b THEN h[a] ELSE h[p]]

\* A leaf is split between two of its entries.
SplitsEntries(V, u, i, a, b) ==
  V[a].leaf => /\ Len(V[a].entries) >= 1 /\ Len(V[b].entries) >= 1
               /\ V[u].keys[i] = V[b].entries[1].key /\ V[a].next = b

\* A page that splits lies below its parent, and the key between the halves cuts
\* its region.
LEMMA SplitPage ==
  ASSUME NEW W, NEW rt, NEW h, NEW R, Tree(W, rt, h, R), NEW V, NEW u, NEW i, NEW a, NEW b, Merge(V, W, u, i, a, b),
         SplitsEntries(V, u, i, a, b)
  PROVE  /\ a \in DOMAIN W /\ u \in DOMAIN W /\ u # a /\ IsChild(W, u, i, a) /\ V[u].keys[i] \in R[a]
         /\ \E x \in R[a] : x < V[u].keys[i]
<1> DEFINE k == V[u].keys[i]
<1>1. /\ a \in DOMAIN W /\ u \in DOMAIN W /\ u # a /\ b \notin DOMAIN W /\ DOMAIN V = DOMAIN W \cup {b} /\ W[u].leaf = FALSE
      /\ LeafJoin(V[a], V[b], W[a]) \/ InternalJoin(V[a], k, V[b], W[a])
      /\ PutIn(W[u].keys, i, k, V[u].keys)
      /\ PutIn(W[u].children, i + 1, b, V[u].children) /\ V[u].children[i] = a /\ i \in 1 .. Len(V[u].keys)
  BY DEF Merge, IsInternalPage
<1>2. Len(W[u].children) = Len(W[u].keys) + 1 /\ Len(W[u].keys) \in Nat /\ Len(V[u].keys) = Len(W[u].keys) + 1
  BY <1>1, InnerNode DEF PutIn
<1>3. IsChild(W, u, i, a)
  <2>1. i \in 1 .. (i + 1) - 1 /\ i \in 1 .. Len(W[u].children)
    BY <1>1, <1>2
  <2> QED BY <1>1, <2>1 DEF IsChild, PutIn
<1>4. Node(W, h, R, a) /\ R[a] \in SUBSET Int
  BY <1>1, TreeNode
<1>5. CASE LeafJoin(V[a], V[b], W[a])
  <2>1. V[a].leaf /\ W[a].leaf
    BY <1>5, LeafKind DEF LeafJoin
  <2>2. Len(V[a].entries) >= 1 /\ Len(V[b].entries) >= 1 /\ k = V[b].entries[1].key
    BY <2>1 DEF SplitsEntries
  <2>3. LeafIn(W[a], R[a])
    BY <1>4, <2>1, LeafNode
  <2>4. k \in R[a] /\ \E x \in R[a] : x < k
    BY <1>4, <1>5, <2>2, <2>3, LeafParted
  <2> QED BY <1>1, <1>3, <2>4
<1>6. CASE InternalJoin(V[a], k, V[b], W[a])
  <2> DEFINE M == W[a].keys
  <2>1. /\ ~W[a].leaf /\ KeysJoin(V[a].keys, k, V[b].keys, M) /\ Joins(V[a].children, V[b].children, W[a].children)
        /\ Len(V[a].keys) \in Nat /\ Len(V[b].keys) \in Nat
    BY <1>6, InternalKind DEF InternalJoin
  <2>2. IsKeys(M) /\ (\A j \in 1 .. Len(M) : M[j] \in R[a]) /\ Len(W[a].children) = Len(M) + 1 /\ Len(M) \in Nat
    BY <1>1, <2>1, InnerNode
  <2>3. Len(V[a].keys) + 1 \in 1 .. Len(M) /\ M[Len(V[a].keys) + 1] = k /\ 1 \in 1 .. Len(M)
    <3>1. Len(M) = Len(V[a].keys) + 1 + Len(V[b].keys) /\ M[Len(V[a].keys) + 1] = k
      BY <2>1 DEF KeysJoin
    <3>2. Len(V[a].keys) \in Nat /\ Len(V[b].keys) \in Nat
      BY <2>1
    <3>3. ASSUME NEW m \in Nat, NEW n \in Nat, NEW l, l = m + 1 + n
          PROVE  m + 1 \in 1 .. l /\ 1 \in 1 .. l
      BY <3>3
    <3> QED BY <3>1, <3>2, <3>3
  <2>4. IsChild(W, a, 1, W[a].children[1])
    BY <2>1, <2>2 DEF IsChild
  <2>5. W[a].children[1] \in DOMAIN W /\ R[W[a].children[1]] = Part(R[a], M, 1)
    BY <1>1, <2>4, ChildOfNode
  <2>6. PICK x \in Part(R[a], M, 1) : TRUE
    BY <2>5, TreeNode
  <2>7. x \in R[a] /\ x < M[1] /\ x \in Int /\ M[1] \in Int /\ k \in Int
    <3>1. x \in R[a] /\ x < M[1]
      BY <2>3, <2>6 DEF Part
    <3>2. M[1] \in Int /\ k \in Int
      BY <2>2, <2>3 DEF IsKeys
    <3> QED BY <1>4, <3>1, <3>2
  <2>8. M[1] = k \/ M[1] < k
    BY <2>1, <2>2, <2>3 DEF IsKeys, SortedKeys
  <2>9. x < k
    BY <2>7, <2>8
  <2> QED BY <1>1, <1>3, <2>2, <2>3, <2>7, <2>9
<1> QED BY <1>1, <1>5, <1>6

\* Where the key between the halves goes in the parent.
LEMMA SplitPlace ==
  ASSUME NEW W, NEW rt, NEW h, NEW R, Tree(W, rt, h, R), NEW u \in DOMAIN W, NEW i, NEW a, IsChild(W, u, i, a),
         NEW k \in R[a], NEW x \in R[a], x < k
  PROVE  /\ i \in 1 .. Len(W[u].keys) + 1 /\ k \in R[u] /\ k \in Int
         /\ i > 1 => W[u].keys[i - 1] < k
         /\ i <= Len(W[u].keys) => k < W[u].keys[i]
<1> DEFINE K == W[u].keys
<1>1. R[a] = Part(R[u], K, i) /\ R[u] \in SUBSET Int
  BY ChildOfNode, TreeNode
<1>2. i \in 1 .. Len(K) + 1 /\ IsKeys(K)
  BY InnerNode DEF IsChild
<1>3. k \in R[u] /\ x \in R[u] /\ k \in Int /\ x \in Int
  BY <1>1, PartIn
<1>4. i <= Len(K) => k < K[i]
  BY <1>1, PartIn
<1>5. i > 1 => K[i - 1] < k
  <2> SUFFICES ASSUME i > 1 PROVE K[i - 1] < k
    OBVIOUS
  <2>1. K[i - 1] <= x
    BY <1>1, PartIn
  <2>2. K[i - 1] \in Int
    BY <1>2 DEF IsKeys
  <2> QED BY <1>3, <2>1, <2>2
<1> QED BY <1>2, <1>3, <1>4, <1>5

\* A key put in where it belongs.
LEMMA KeysWith ==
  ASSUME NEW L, NEW K, NEW i, NEW k \in Int, IsKeys(L), PutIn(L, i, k, K),
         i > 1 => L[i - 1] < k, i <= Len(L) => k < L[i]
  PROVE  IsKeys(K)
<1>1. Len(L) \in Nat /\ Len(K) = Len(L) + 1 /\ i \in 1 .. Len(K) /\ K[i] = k
  BY DEF IsKeys, PutIn
<1>2. \A j \in 1 .. Len(L) : L[j] \in Int
  BY DEF IsKeys
<1>3. \A j, l \in 1 .. Len(L) : j < l => L[j] < L[l]
  BY DEF IsKeys, SortedKeys
<1>4. ASSUME NEW j \in 1 .. i - 1
      PROVE  j \in 1 .. Len(L) /\ K[j] = L[j] /\ K[j] < k /\ K[j] \in Int
  <2>1. j \in 1 .. Len(L) /\ i - 1 \in 1 .. Len(L) /\ (j = i - 1 \/ j < i - 1) /\ i > 1
    BY <1>1
  <2>2. L[j] <= L[i - 1] /\ L[j] \in Int /\ L[i - 1] \in Int
    BY <1>2, <1>3, <2>1
  <2>3. K[j] = L[j]
    BY DEF PutIn
  <2> QED BY <2>1, <2>2, <2>3
<1>5. ASSUME NEW j \in i + 1 .. Len(K)
      PROVE  j - 1 \in 1 .. Len(L) /\ K[j] = L[j - 1] /\ k < K[j] /\ K[j] \in Int
  <2>1. j - 1 \in i .. Len(L) /\ j - 1 \in 1 .. Len(L) /\ i \in 1 .. Len(L) /\ (j - 1 = i \/ i < j - 1) /\ (j - 1) + 1 = j /\ i <= Len(L)
    BY <1>1
  <2>2. L[i] <= L[j - 1] /\ L[i] \in Int /\ L[j - 1] \in Int
    BY <1>2, <1>3, <2>1
  <2>3. K[(j - 1) + 1] = L[j - 1]
    BY <2>1 DEF PutIn
  <2> QED BY <2>1, <2>2, <2>3
<1>6. \A j \in 1 .. Len(K) : j \in 1 .. i - 1 \/ j = i \/ j \in i + 1 .. Len(K)
  BY <1>1
<1>7. \A j \in 1 .. Len(K) : K[j] \in Int
  BY <1>1, <1>4, <1>5, <1>6
<1>8. ASSUME NEW j \in 1 .. Len(K), NEW l \in 1 .. Len(K), j < l
      PROVE  K[j] < K[l]
  <2>1. CASE l \in 1 .. i - 1
    <3>1. j \in 1 .. i - 1
      BY <1>1, <1>8, <2>1
    <3> QED BY <1>3, <1>4, <1>8, <2>1, <3>1
  <2>2. CASE j \in i + 1 .. Len(K)
    <3>1. l \in i + 1 .. Len(K) /\ j - 1 < l - 1
      BY <1>1, <1>8, <2>2
    <3> QED BY <1>3, <1>5, <2>2, <3>1
  <2>3. CASE j \in 1 .. i - 1 /\ (l = i \/ l \in i + 1 .. Len(K))
    BY <1>1, <1>4, <1>5, <2>3
  <2>4. CASE j = i /\ l \in i + 1 .. Len(K)
    BY <1>1, <1>5, <2>4
  <2> QED BY <1>1, <1>6, <1>8, <2>1, <2>2, <2>3, <2>4
<1> QED BY <1>1, <1>7, <1>8 DEF IsKeys, SortedKeys

\* Where the halves of a page that splits lie.
LEMMA SplitFacts ==
  ASSUME NEW W, NEW rt, NEW h, NEW R, Tree(W, rt, h, R), NEW V, NEW u, NEW i, NEW a, NEW b, Merge(V, W, u, i, a, b),
         SplitsEntries(V, u, i, a, b), NEW A, NEW B, A = Part(R[u], V[u].keys, i), B = Part(R[u], V[u].keys, i + 1)
  PROVE  /\ KeysIn(V[u], R[u]) /\ PartsMerged(R[u], V[u].keys, W[u].keys, i) /\ IsRegion(A) /\ IsRegion(B)
         /\ Sides(A, V[u].keys[i], B) /\ R[a] = A \cup B
<1> DEFINE K == V[u].keys
           L == W[u].keys
           k == K[i]
<1>1. /\ a \in DOMAIN W /\ u \in DOMAIN W /\ IsChild(W, u, i, a) /\ k \in R[a]
  BY SplitPage
<1>2. PICK x \in R[a] : x < k
  BY SplitPage
<1>3. /\ PutIn(L, i, k, K) /\ IsInternalPage(V[u]) /\ ~W[u].leaf /\ i \in 1 .. Len(K) /\ Len(K) \in Nat
  BY InternalKind DEF Merge, IsInternalPage
<1>4. /\ IsKeys(L) /\ (\A j \in 1 .. Len(L) : L[j] \in R[u]) /\ R[u] \in SUBSET Int /\ Convex(R[u])
      /\ R[a] = Part(R[u], L, i)
  BY <1>1, <1>3, InnerNode, TreeNode, ChildOfNode
<1>5. /\ k \in R[u] /\ k \in Int
      /\ i > 1 => L[i - 1] < k
      /\ i <= Len(L) => k < L[i]
  BY <1>1, <1>2, SplitPlace
<1> HIDE DEF K, L, k
<1>6. IsKeys(K)
  BY <1>3, <1>4, <1>5, KeysWith
<1>7. ASSUME NEW j \in 1 .. Len(K)
      PROVE  K[j] \in R[u]
  <2>1. CASE j < i
    <3>1. j \in 1 .. i - 1 /\ j \in 1 .. Len(L)
      BY <1>3, <2>1 DEF PutIn
    <3> QED BY <1>3, <1>4, <3>1 DEF PutIn
  <2>2. CASE j = i
    BY <1>5, <2>2 DEF k
  <2>3. CASE j > i
    <3>1. j - 1 \in i .. Len(L) /\ j - 1 \in 1 .. Len(L) /\ (j - 1) + 1 = j
      BY <1>3, <1>4, <2>3 DEF PutIn, IsKeys
    <3>2. K[(j - 1) + 1] = L[j - 1]
      BY <1>3, <3>1 DEF PutIn
    <3> QED BY <1>4, <3>1, <3>2
  <2> QED BY <1>3, <2>1, <2>2, <2>3
<1>8. KeysIn(V[u], R[u])
  BY <1>3, <1>6, <1>7 DEF KeysIn, IsKeys, K
<1>9. PartsMerged(R[u], K, L, i)
  <2>1. PutIn(L, i, K[i], K)
    BY <1>3 DEF k
  <2> QED BY <1>4, <1>6, <2>1, PartsMerge
<1>10. Sides(A, k, B)
  BY <1>3, <1>4, <1>6, <1>7, PartSides DEF k, K
<1>11. R[a] = A \cup B
  BY <1>4, <1>9 DEF PartsMerged, K
<1>12. k \in B /\ x \in A
  <2>1. k \in B /\ \A y \in B : k <= y /\ y \in Int
    BY <1>10 DEF Sides
  <2>2. x \notin B
    BY <1>2, <1>5, <2>1 DEF k, K
  <2> QED BY <1>11, <2>1, <2>2
<1>13. IsRegion(A) /\ IsRegion(B)
  <2>1. i \in 1 .. Len(K) + 1 /\ i + 1 \in 1 .. Len(K) + 1
    BY <1>3
  <2>2. A \subseteq Int /\ Convex(A) /\ B \subseteq Int /\ Convex(B)
    BY <1>4, <1>6, <2>1, PartConvex DEF K
  <2> QED BY <1>12, <2>2 DEF IsRegion
<1> QED BY <1>8, <1>9, <1>10, <1>11, <1>13 DEF k, K, L

\* Both halves of a page that splits are nodes.
LEMMA SplitHalves ==
  ASSUME NEW W, NEW rt, NEW h, NEW R, Tree(W, rt, h, R), NEW V, NEW u, NEW i, NEW a, NEW b, Merge(V, W, u, i, a, b),
         SplitsEntries(V, u, i, a, b), NEW Q, Q = SplitRegions(V, R, u, i, a, b), NEW g, g = SplitHeights(V, h, a, b)
  PROVE  Node(V, g, Q, a) /\ Node(V, g, Q, b)
<1> DEFINE k == V[u].keys[i]
           A == Part(R[u], V[u].keys, i)
           B == Part(R[u], V[u].keys, i + 1)
<1>1. /\ a \in DOMAIN W /\ u \in DOMAIN W /\ b \notin DOMAIN W /\ DOMAIN V = DOMAIN W \cup {b} /\ IsChild(W, u, i, a) /\ a # b
      /\ LeafJoin(V[a], V[b], W[a]) \/ InternalJoin(V[a], k, V[b], W[a])
  <2>1. /\ b \notin DOMAIN W /\ DOMAIN V = DOMAIN W \cup {b}
        /\ LeafJoin(V[a], V[b], W[a]) \/ InternalJoin(V[a], k, V[b], W[a])
    BY DEF Merge
  <2> QED BY <2>1, SplitPage
<1>2. IsRegion(A) /\ IsRegion(B) /\ Sides(A, k, B)
  BY SplitFacts
<1>3. R[a] = A \cup B
  BY SplitFacts
<1>4. Q[a] = A /\ Q[b] = B /\ g[a] = h[a] /\ g[b] = h[a]
  BY <1>1 DEF SplitRegions, SplitHeights
<1> HIDE DEF A, B
<1>5. Node(W, h, R, a) /\ R[a] \in SUBSET Int
  BY <1>1, TreeNode
<1>6. Parted(R[a], A, k, B)
  <2>1. k \in Int /\ (\A x \in A : x < k /\ x \in Int) /\ (\A x \in B : k <= x /\ x \in Int)
    BY <1>2 DEF Sides
  <2>2. (\A x \in A : ~(k <= x)) /\ (\A x \in B : ~(x < k))
    BY <2>1
  <2> QED BY <1>3, <2>1, <2>2 DEF Parted
<1>7. CASE LeafJoin(V[a], V[b], W[a])
  <2>1. V[a].leaf /\ V[b].leaf /\ W[a].leaf
    BY <1>7, LeafKind DEF LeafJoin
  <2>2. h[a] = 0 /\ LeafIn(W[a], R[a])
    BY <1>5, <2>1, LeafNode
  <2>3. Len(V[a].entries) >= 1 /\ Len(V[b].entries) >= 1 /\ k = V[b].entries[1].key
    BY <2>1 DEF SplitsEntries
  <2>4. LeafIn(V[a], A) /\ LeafIn(V[b], B)
    BY <1>5, <1>6, <1>7, <2>2, <2>3, LeafParted
  <2> QED BY <1>2, <1>4, <2>2, <2>4 DEF Node
<1>8. CASE InternalJoin(V[a], k, V[b], W[a])
  <2> DEFINE K == V[a].keys
             L == V[b].keys
             M == W[a].keys
  <2>1. /\ ~W[a].leaf /\ IsInternalPage(V[a]) /\ IsInternalPage(V[b])
        /\ Joins(V[a].children, V[b].children, W[a].children) /\ KeysJoin(K, k, L, M)
    BY <1>8, InternalKind DEF InternalJoin
  <2>2. /\ Len(K) \in Nat /\ Len(V[a].children) = Len(K) + 1
        /\ Len(L) \in Nat /\ Len(V[b].children) = Len(L) + 1
    BY <2>1, InternalKind
  <2>3. h[a] \in Nat \ {0} /\ \A j \in 1 .. Len(W[a].children) : ChildIn(W, h, R, a, j)
    BY <1>5, <2>1, InternalNode
  <2>4. IsKeys(M) /\ \A j \in 1 .. Len(M) : M[j] \in R[a]
    BY <1>1, <2>1, InnerNode
  <2>5. IsKeys(K) /\ IsKeys(L)
    BY <1>5, <2>1, <2>2, <2>4, PartedKeys, ZenonT(30)
  <2>6. Within(K, A) /\ Within(L, B)
    BY <1>5, <1>6, <2>1, <2>2, <2>4, PartedKeys
  <2>7. KeysIn(V[a], A) /\ KeysIn(V[b], B)
    BY <2>1, <2>5, <2>6 DEF KeysIn, IsKeys, Within
  <2>8. ASSUME NEW j \in 1 .. Len(W[a].children)
        PROVE  /\ W[a].children[j] \in DOMAIN V /\ g[W[a].children[j]] + 1 = h[a]
               /\ Q[W[a].children[j]] = Part(R[a], M, j)
    <3> DEFINE c == W[a].children[j]
    <3>1. IsChild(W, a, j, c)
      BY <2>1 DEF IsChild
    <3>2. c \in DOMAIN W /\ h[c] + 1 = h[a] /\ R[c] = Part(R[a], M, j)
      BY <1>1, <3>1, ChildOfNode
    <3>3. c # a /\ c # b
      BY <1>1, <3>1, <3>2, ChildOfNode
    <3> QED BY <1>1, <3>2, <3>3 DEF SplitRegions, SplitHeights
  <2>9. ASSUME NEW j \in 1 .. Len(V[a].children) PROVE ChildIn(V, g, Q, a, j)
    <3>1. j \in 1 .. Len(W[a].children) /\ W[a].children[j] = V[a].children[j]
      <4>1. Len(W[a].children) = Len(V[a].children) + Len(V[b].children)
        BY <2>1 DEF Joins
      <4>2. Len(V[a].children) \in Nat /\ Len(V[b].children) \in Nat
        BY <2>2
      <4>3. W[a].children[j] = V[a].children[j]
        BY <2>1 DEF Joins
      <4>4. ASSUME NEW m \in Nat, NEW n \in Nat, j \in 1 .. m PROVE j \in 1 .. m + n
        BY <4>4
      <4> QED BY <4>1, <4>2, <4>3, <4>4
    <3>2. Part(R[a], M, j) = Part(A, K, j)
      <4>1. j \in 1 .. Len(K) + 1
        BY <2>2
      <4> HIDE DEF K, L, M, k
      <4>2. Part(A \cup B, M, j) = Part(A, K, j)
        BY <1>2, <2>1, <2>5, <2>6, <4>1, LeftParts
      <4> QED BY <1>3, <4>2
    <3> QED BY <1>4, <2>8, <3>1, <3>2 DEF ChildIn
  <2>10. ASSUME NEW l \in 1 .. Len(V[b].children) PROVE ChildIn(V, g, Q, b, l)
    <3>1. PICK j \in 1 .. Len(W[a].children) : j = Len(V[a].children) + l
      <4>1. Len(W[a].children) = Len(V[a].children) + Len(V[b].children)
        BY <2>1 DEF Joins
      <4>2. Len(V[a].children) \in Nat /\ Len(V[b].children) \in Nat
        BY <2>2
      <4>3. ASSUME NEW m \in Nat, NEW n \in Nat, l \in 1 .. n PROVE m + l \in 1 .. m + n
        BY <4>3
      <4> QED BY <4>1, <4>2, <4>3
    <3>2. W[a].children[j] = V[b].children[l]
      BY <2>1, <3>1 DEF Joins
    <3>3. Part(R[a], M, j) = Part(B, L, l)
      <4>1. l \in 1 .. Len(L) + 1 /\ Follows(K, l, j)
        BY <2>2, <3>1 DEF Follows
      <4> HIDE DEF K, L, M, k
      <4>2. Part(A \cup B, M, j) = Part(B, L, l)
        BY <1>2, <2>1, <2>5, <2>6, <4>1, RightParts
      <4> QED BY <1>3, <4>2
    <3> QED BY <1>4, <2>8, <3>2, <3>3 DEF ChildIn
  <2> QED BY <1>2, <1>4, <2>3, <2>7, <2>9, <2>10 DEF Node
<1> QED BY <1>1, <1>7, <1>8

\* The parent of a page that splits stays a node.
LEMMA SplitParent ==
  ASSUME NEW W, NEW rt, NEW h, NEW R, Tree(W, rt, h, R), NEW V, NEW u, NEW i, NEW a, NEW b, Merge(V, W, u, i, a, b),
         SplitsEntries(V, u, i, a, b), NEW Q, Q = SplitRegions(V, R, u, i, a, b), NEW g, g = SplitHeights(V, h, a, b)
  PROVE  Node(V, g, Q, u)
<1> DEFINE K == V[u].keys
           L == W[u].keys
<1>1. a \in DOMAIN W /\ u \in DOMAIN W /\ u # a /\ IsChild(W, u, i, a)
  BY SplitPage
<1>2. /\ b \notin DOMAIN W /\ DOMAIN V = DOMAIN W \cup {b} /\ i \in 1 .. Len(K) /\ V[u].children[i] = a /\ V[u].children[i + 1] = b
      /\ PutIn(W[u].children, i + 1, b, V[u].children)
  BY DEF Merge
<1>3. KeysIn(V[u], R[u]) /\ PartsMerged(R[u], K, L, i)
  BY SplitFacts
<1>4. h[u] \in Nat \ {0} /\ IsRegion(R[u]) /\ ~W[u].leaf
  <2>1. ~W[u].leaf
    BY <1>1 DEF IsChild
  <2> QED BY <1>1, <2>1, TreeNode, InternalNode DEF Node
<1>5. Q[u] = R[u] /\ g[u] = h[u] /\ Q[a] = Part(R[u], K, i) /\ Q[b] = Part(R[u], K, i + 1) /\ g[a] = h[a] /\ g[b] = h[a]
  BY <1>1, <1>2 DEF SplitRegions, SplitHeights
<1>6. /\ Len(W[u].children) \in Nat /\ Len(V[u].children) \in Nat /\ Len(V[u].children) = Len(W[u].children) + 1
      /\ Len(V[u].children) = Len(K) + 1
  <2>1. Len(K) \in Nat /\ Len(V[u].children) = Len(K) + 1
    BY <1>3, KeysOf
  <2>2. Len(L) \in Nat /\ Len(W[u].children) = Len(L) + 1
    BY <1>1, <1>4, InnerNode
  <2>3. Len(V[u].children) = Len(W[u].children) + 1
    BY <1>2 DEF PutIn
  <2> QED BY <2>1, <2>2, <2>3
<1>7. h[a] + 1 = h[u]
  BY <1>1, ChildOfNode
<1>8. ASSUME NEW j \in 1 .. Len(W[u].children), j # i
      PROVE  /\ W[u].children[j] \in DOMAIN V /\ g[W[u].children[j]] + 1 = h[u]
             /\ Q[W[u].children[j]] = Part(R[u], L, j)
  <2> DEFINE c == W[u].children[j]
  <2>1. IsChild(W, u, j, c)
    BY <1>4 DEF IsChild
  <2>2. c \in DOMAIN W /\ h[c] + 1 = h[u] /\ R[c] = Part(R[u], L, j)
    BY <1>1, <2>1, ChildOfNode
  <2>3. c # a /\ c # b
    BY <1>1, <1>2, <1>8, <2>1, <2>2, OneParent
  <2> QED BY <1>2, <2>2, <2>3 DEF SplitRegions, SplitHeights
<1>9. ASSUME NEW j \in 1 .. Len(V[u].children)
      PROVE  ChildIn(V, g, Q, u, j)
  <2>1. CASE j = i
    BY <1>1, <1>2, <1>5, <1>7, <2>1 DEF ChildIn
  <2>2. CASE j = i + 1
    BY <1>1, <1>2, <1>5, <1>7, <2>2 DEF ChildIn
  <2>3. CASE j \in 1 .. i - 1
    <3>1. W[u].children[j] = V[u].children[j] /\ j \in 1 .. Len(W[u].children) /\ j # i
      BY <1>2, <1>6, <2>3, SMTT(30) DEF PutIn
    <3>2. Part(R[u], L, j) = Part(R[u], K, j)
      BY <1>3, <2>3 DEF PartsMerged
    <3> QED BY <1>5, <1>8, <3>1, <3>2 DEF ChildIn
  <2>4. CASE j \in i + 2 .. Len(V[u].children)
    <3>1. PICK l \in i + 1 .. Len(W[u].children) : l + 1 = j
      <4>1. j - 1 \in i + 1 .. Len(W[u].children) /\ (j - 1) + 1 = j
        BY <1>2, <1>6, <2>4
      <4> QED BY <4>1
    <3>2. W[u].children[l] = V[u].children[j]
      BY <1>2, <3>1 DEF PutIn
    <3>3. Part(R[u], L, l) = Part(R[u], K, j)
      <4>1. l \in i + 1 .. Len(K)
        BY <1>6, <3>1
      <4> QED BY <1>3, <3>1, <4>1 DEF PartsMerged
    <3>4. l \in 1 .. Len(W[u].children) /\ l # i
      BY <1>2, <1>6, <3>1
    <3> QED BY <1>5, <1>8, <3>2, <3>3, <3>4 DEF ChildIn
  <2> QED BY <1>2, <1>6, <2>1, <2>2, <2>3, <2>4
<1> QED BY <1>3, <1>4, <1>5, <1>9 DEF Node

\* Every page is a node when one has split.
LEMMA SplitNode ==
  ASSUME NEW W, NEW rt, NEW h, NEW R, Tree(W, rt, h, R), NEW V, NEW u, NEW i, NEW a, NEW b, Merge(V, W, u, i, a, b),
         SplitsEntries(V, u, i, a, b), NEW Q, Q = SplitRegions(V, R, u, i, a, b), NEW g, g = SplitHeights(V, h, a, b),
         NEW p \in DOMAIN V
  PROVE  Node(V, g, Q, p) /\ g[p] <= h[rt]
<1>1. a \in DOMAIN W /\ u \in DOMAIN W /\ u # a /\ IsChild(W, u, i, a)
  BY SplitPage
<1>2. b \notin DOMAIN W /\ DOMAIN V = DOMAIN W \cup {b}
  BY DEF Merge
<1>3. g[p] <= h[rt]
  BY <1>1, <1>2, TreeNode DEF SplitHeights
<1>4. CASE p = a \/ p = b
  BY <1>3, <1>4, SplitHalves
<1>5. CASE p = u
  BY <1>3, <1>5, SplitParent
<1>6. CASE p # a /\ p # b /\ p # u
  <2>1. p \in DOMAIN W /\ W[p] = V[p]
    BY <1>2, <1>6 DEF Merge
  <2>2. Q[p] = R[p] /\ g[p] = h[p]
    BY <1>6 DEF SplitRegions, SplitHeights
  <2>3. Node(W, h, R, p)
    BY <2>1, TreeNode
  <2>4. ASSUME NEW j, NEW c, IsChild(W, p, j, c)
        PROVE  c \in DOMAIN V /\ g[c] = h[c] /\ Q[c] = R[c]
    <3>1. c \in DOMAIN W
      BY <2>1, <2>4, ChildOfNode
    <3>2. c # a /\ c # b
      BY <1>1, <1>2, <1>6, <2>1, <2>4, <3>1, OneParent
    <3> QED BY <1>2, <3>1, <3>2 DEF SplitRegions, SplitHeights
  <2> QED BY <1>3, <2>1, <2>2, <2>3, <2>4, SameNode
<1> QED BY <1>4, <1>5, <1>6

\* The levels stay disjoint and complete when a page splits.
LEMMA SplitDisjoint ==
  ASSUME NEW W, NEW rt, NEW h, NEW R, Tree(W, rt, h, R), NEW V, NEW u, NEW i, NEW a, NEW b, Merge(V, W, u, i, a, b),
         SplitsEntries(V, u, i, a, b), NEW Q, Q = SplitRegions(V, R, u, i, a, b), NEW g, g = SplitHeights(V, h, a, b)
  PROVE  Disjoint(V, g, Q) /\ Covered(V, rt, g, Q)
<1> DEFINE k == V[u].keys[i]
           A == Part(R[u], V[u].keys, i)
           B == Part(R[u], V[u].keys, i + 1)
<1>1. a \in DOMAIN W /\ b \notin DOMAIN W /\ DOMAIN V = DOMAIN W \cup {b} /\ a # b
  <2>1. b \notin DOMAIN W /\ DOMAIN V = DOMAIN W \cup {b}
    BY DEF Merge
  <2> QED BY <2>1, SplitPage
<1>2. Sides(A, k, B) /\ R[a] = A \cup B
  BY SplitFacts
<1> HIDE DEF A, B, k
<1>3. A \cap B = {}
  <2>1. (\A x \in A : x < k /\ x \in Int) /\ (\A x \in B : k <= x /\ x \in Int) /\ k \in Int
    BY <1>2 DEF Sides
  <2>2. \A x \in A : ~(k <= x)
    BY <2>1
  <2> QED BY <2>1, <2>2
<1>4. /\ \A p \in DOMAIN V : Q[p] = IF p = a THEN A ELSE IF p = b THEN B ELSE R[p]
      /\ \A p \in DOMAIN V : g[p] = IF p = b THEN h[a] ELSE h[p]
  BY DEF SplitRegions, SplitHeights, A, B
<1>5. ASSUME NEW p \in DOMAIN V, NEW q \in DOMAIN V, p # q, g[p] = g[q], NEW x \in Q[p], x \in Q[q]
      PROVE  FALSE
  <2>1. PICK r \in DOMAIN W : x \in R[r] /\ h[r] = g[p] /\ (IF p \in {a, b} THEN r = a ELSE r = p)
    BY <1>1, <1>2, <1>4, <1>5
  <2>2. PICK s \in DOMAIN W : x \in R[s] /\ h[s] = g[p] /\ (IF q \in {a, b} THEN s = a ELSE s = q)
    BY <1>1, <1>2, <1>4, <1>5
  <2>3. r = s
    BY <2>1, <2>2, SamePage
  <2>4. p \in {a, b} /\ q \in {a, b}
    BY <1>5, <2>1, <2>2, <2>3
  <2> QED BY <1>1, <1>3, <1>4, <1>5, <2>4
<1>6. Disjoint(V, g, Q)
  BY <1>5 DEF Disjoint
<1>7. ASSUME NEW n \in 0 .. h[rt], NEW x \in Int
      PROVE  \E p \in DOMAIN V : g[p] = n /\ x \in Q[p]
  <2>1. PICK p \in DOMAIN W : h[p] = n /\ x \in R[p]
    BY DEF Tree, Covered
  <2>2. CASE p = a /\ x \in A
    BY <1>1, <1>4, <2>1, <2>2
  <2>3. CASE p = a /\ x \in B
    BY <1>1, <1>4, <2>1, <2>3
  <2>4. CASE p # a
    BY <1>1, <1>4, <2>1, <2>4
  <2> QED BY <1>2, <2>1, <2>2, <2>3, <2>4
<1>8. g[rt] = h[rt]
  <2>1. rt \in DOMAIN W
    BY DEF Tree
  <2> QED BY <1>1, <1>4, <2>1
<1> QED BY <1>6, <1>7, <1>8 DEF Covered

\* Links over a region that has been cut in two.
LEMMA AdjacentParted ==
  ASSUME NEW A, NEW k, NEW B, Sides(A, k, B), NEW C, C = A \cup B, Convex(C), A # {}, NEW D \in SUBSET Int
  PROVE  /\ Adjacent(A, B)
         /\ Adjacent(C, D) => Adjacent(B, D)
         /\ Adjacent(D, C) => Adjacent(D, A)
         /\ Unbounded(C) => Unbounded(B)
<1>1. /\ k \in B /\ k \in Int /\ \A x \in A : x < k /\ x \in Int
      /\ \A x \in B : k <= x /\ x \in Int
  BY DEF Sides
<1>2. ASSUME NEW x \in A, NEW z \in B
      PROVE  x < z /\ x \in Int /\ z \in Int
  BY <1>1
<1>3. Adjacent(A, B)
  BY <1>2 DEF Adjacent, Convex
<1>4. ASSUME Adjacent(C, D), NEW x \in B, NEW z \in D, NEW y \in Int, x < y, y < z
      PROVE  y \in B \cup D
  <2>1. y \in C \cup D
    BY <1>4 DEF Adjacent
  <2>2. y \notin A
    BY <1>2, <1>4
  <2> QED BY <2>1, <2>2
<1>5. Adjacent(C, D) => Adjacent(B, D)
  BY <1>4 DEF Adjacent
<1>6. ASSUME Adjacent(D, C), NEW x \in D, NEW z \in A, NEW y \in Int, x < y, y < z
      PROVE  y \in D \cup A
  <2>1. y \in D \cup C
    BY <1>6 DEF Adjacent
  <2>2. y \notin B
    BY <1>2, <1>6
  <2> QED BY <2>1, <2>2
<1>7. Adjacent(D, C) => Adjacent(D, A)
  BY <1>6 DEF Adjacent
<1>8. ASSUME Unbounded(C), NEW x \in B, NEW y \in Int, x < y
      PROVE  y \in B
  <2>1. y \in C
    BY <1>8 DEF Unbounded
  <2>2. y \notin A
    BY <1>2, <1>8
  <2> QED BY <2>1, <2>2
<1>9. Unbounded(C) => Unbounded(B)
  BY <1>8 DEF Unbounded
<1> QED BY <1>3, <1>5, <1>7, <1>9

\* The leaves stay linked in order when a page splits.
LEMMA SplitLinks ==
  ASSUME NEW W, NEW rt, NEW h, NEW R, Tree(W, rt, h, R), NEW V, NEW u, NEW i, NEW a, NEW b, Merge(V, W, u, i, a, b),
         SplitsEntries(V, u, i, a, b), NEW Q, Q = SplitRegions(V, R, u, i, a, b), b \in Nat
  PROVE  Links(V, Q)
<1> DEFINE k == V[u].keys[i]
           A == Part(R[u], V[u].keys, i)
           B == Part(R[u], V[u].keys, i + 1)
<1>1. /\ a \in DOMAIN W /\ b \notin DOMAIN W /\ DOMAIN V = DOMAIN W \cup {b} /\ a # b /\ u # a /\ u # b /\ u \in DOMAIN W
      /\ \A p \in DOMAIN W : p # u /\ p # a => W[p] = V[p]
      /\ V[u].leaf = FALSE /\ W[u].leaf = FALSE
      /\ LeafJoin(V[a], V[b], W[a]) \/ InternalJoin(V[a], k, V[b], W[a])
  <2>1. /\ a \in DOMAIN W /\ b \notin DOMAIN W /\ DOMAIN V = DOMAIN W \cup {b} /\ u # a
        /\ \A p \in DOMAIN W : p # u /\ p # a => W[p] = V[p]
        /\ V[u].leaf = FALSE /\ W[u].leaf = FALSE
        /\ LeafJoin(V[a], V[b], W[a]) \/ InternalJoin(V[a], k, V[b], W[a])
    BY DEF Merge, IsInternalPage
  <2> QED BY <2>1, SplitPage
<1>2. Sides(A, k, B) /\ R[a] = A \cup B /\ A # {} /\ Convex(R[a]) /\ R[a] # {} /\ R[a] \in SUBSET Int
  <2>1. IsRegion(A)
    BY SplitFacts
  <2>2. Sides(A, k, B) /\ R[a] = A \cup B
    BY SplitFacts
  <2> QED BY <1>1, <2>1, <2>2, TreeNode DEF IsRegion
<1> HIDE DEF A, B, k
<1>3. /\ Q[a] = A /\ Q[b] = B /\ \A p \in DOMAIN W : p # a => Q[p] = R[p]
  BY <1>1 DEF SplitRegions, A, B
<1>4. \A p \in DOMAIN W : W[p].leaf => Linked(W, R, p)
  BY DEF Tree, Links
<1> SUFFICES ASSUME NEW p \in DOMAIN V, V[p].leaf PROVE Linked(V, Q, p)
  BY DEF Links
<1>5. CASE InternalJoin(V[a], k, V[b], W[a])
  <2>1. V[a].leaf = FALSE /\ V[b].leaf = FALSE /\ W[a].leaf = FALSE
    BY <1>5 DEF InternalJoin, IsInternalPage
  <2>2. p # u /\ p # a /\ p # b /\ W[p] = V[p] /\ p \in DOMAIN W /\ Linked(W, R, p) /\ Q[p] = R[p]
    BY <1>1, <1>3, <1>4, <2>1
  <2>3. CASE V[p].next = NoPage
    BY <2>2, <2>3 DEF Linked
  <2>4. CASE V[p].next # NoPage
    <3>1. V[p].next \in DOMAIN W /\ W[V[p].next].leaf /\ Adjacent(R[p], R[V[p].next])
      BY <2>2, <2>4 DEF Linked
    <3>2. V[p].next # a /\ V[p].next # u
      BY <1>1, <2>1, <3>1
    <3> QED BY <1>1, <1>3, <2>2, <2>4, <3>1, <3>2 DEF Linked
  <2> QED BY <2>3, <2>4
<1>6. CASE LeafJoin(V[a], V[b], W[a])
  <2>1. V[a].leaf = TRUE /\ V[b].leaf = TRUE /\ W[a].leaf = TRUE /\ W[a].next = V[b].next /\ V[a].next = b
    BY <1>6 DEF LeafJoin, IsLeafPage, SplitsEntries
  <2>2. CASE p = a
    <3>1. Adjacent(A, B)
      BY <1>2, AdjacentParted
    <3>2. b # NoPage
      BY TreeAssumption
    <3> QED BY <1>1, <1>3, <2>1, <2>2, <3>1, <3>2 DEF Linked
  <2>3. CASE p = b
    <3> DEFINE q == V[b].next
    <3>1. Linked(W, R, a)
      BY <1>1, <1>4, <2>1
    <3>2. CASE q = NoPage
      <4>1. Unbounded(R[a])
        BY <2>1, <3>1, <3>2 DEF Linked
      <4>2. Unbounded(B)
        BY <1>2, <4>1, AdjacentParted
      <4> QED BY <1>3, <2>3, <3>2, <4>2 DEF Linked
    <3>3. CASE q # NoPage
      <4>1. q \in DOMAIN W /\ W[q].leaf /\ Adjacent(R[a], R[q])
        BY <2>1, <3>1, <3>3 DEF Linked
      <4>2. q # a
        <5>1. PICK x \in R[a] : x \in Int
          BY <1>2
        <5>2. ~(x < x)
          BY <5>1
        <5> QED BY <4>1, <5>1, <5>2 DEF Adjacent
      <4>3. q # u /\ q \in DOMAIN V /\ W[q] = V[q] /\ Q[q] = R[q] /\ R[q] \in SUBSET Int
        BY <1>1, <1>3, <4>1, <4>2, TreeNode
      <4>4. Adjacent(B, R[q])
        BY <1>2, <4>1, <4>3, AdjacentParted
      <4> HIDE DEF q
      <4>5. Q[p] = B /\ V[p].next = q
        BY <1>3, <2>3 DEF q
      <4> QED BY <3>3, <4>1, <4>3, <4>4, <4>5 DEF Linked
    <3> QED BY <3>2, <3>3
  <2>4. CASE p # a /\ p # b
    <3>1. p # u /\ W[p] = V[p] /\ p \in DOMAIN W /\ Linked(W, R, p) /\ Q[p] = R[p] /\ W[p].leaf
      BY <1>1, <1>3, <1>4, <2>4
    <3> DEFINE q == V[p].next
    <3>2. CASE q = NoPage
      BY <3>1, <3>2 DEF Linked
    <3>3. CASE q # NoPage
      <4>1. q \in DOMAIN W /\ W[q].leaf /\ Adjacent(R[p], R[q])
        BY <3>1, <3>3 DEF Linked
      <4>2. R[p] \in SUBSET Int /\ q # u /\ q \in DOMAIN V
        BY <1>1, <3>1, <4>1, TreeNode
      <4>3. CASE q = a
        <5>1. Adjacent(R[p], A)
          BY <1>2, <4>1, <4>2, <4>3, AdjacentParted
        <5> QED BY <1>3, <2>1, <3>1, <3>3, <4>2, <4>3, <5>1 DEF Linked
      <4>4. CASE q # a
        BY <1>1, <1>3, <3>1, <4>1, <4>2, <4>4 DEF Linked
      <4> QED BY <4>3, <4>4
    <3> QED BY <3>2, <3>3
  <2> QED BY <2>2, <2>3, <2>4
<1> QED BY <1>1, <1>5, <1>6

\* A tree in which a page becomes two neighbours stays a tree (Split).
LEMMA SplitTree ==
  ASSUME NEW W, NEW rt, NEW h, NEW R, Tree(W, rt, h, R), NEW V, NEW u, NEW i, NEW a, NEW b, Merge(V, W, u, i, a, b),
         SplitsEntries(V, u, i, a, b), b \in Nat
  PROVE  Tree(V, rt, SplitHeights(V, h, a, b), SplitRegions(V, R, u, i, a, b))
<1> DEFINE Q == SplitRegions(V, R, u, i, a, b)
           g == SplitHeights(V, h, a, b)
<1>1. b \notin DOMAIN W /\ DOMAIN V = DOMAIN W \cup {b}
  BY DEF Merge
<1>2. IsFiniteSet(DOMAIN V) /\ DOMAIN V \subseteq Nat
  BY <1>1, FS_AddElement DEF Tree
<1>3. rt \in DOMAIN V /\ rt # a /\ rt # b
  BY <1>1, SplitPage, ChildOfNode DEF Tree
<1>4. Q[rt] = Int /\ g[rt] = h[rt]
  BY <1>3 DEF Tree, SplitRegions, SplitHeights
<1>5. \A p \in DOMAIN V : Node(V, g, Q, p) /\ g[p] <= g[rt]
  BY <1>4, SplitNode
<1>6. Disjoint(V, g, Q) /\ Covered(V, rt, g, Q)
  BY SplitDisjoint
<1>7. Links(V, Q)
  BY SplitLinks
<1> HIDE DEF Q, g
<1> QED BY <1>2, <1>3, <1>4, <1>5, <1>6, <1>7 DEF Tree, Q, g

\* A leaf leads to the leaf its parent has next to it.
LEMMA NeighbourNext ==
  ASSUME NEW V, NEW rt, NEW h, NEW R, Tree(V, rt, h, R), NEW W, NEW u, NEW i, NEW a, NEW b, Merge(V, W, u, i, a, b), V[a].leaf
  PROVE  V[a].next = b
<1> DEFINE A == R[a]
           B == R[b]
           k == V[u].keys[i]
           q == V[a].next
<1>1. a \in DOMAIN V /\ b \in DOMAIN V /\ a # b /\ h[a] = h[b] /\ Sides(A, k, B)
  BY MergeFacts
<1>2. Linked(V, R, a)
  BY <1>1 DEF Tree, Links
<1>3. IsRegion(A \cup B)
  BY MergedKeys
<1>4. A # {} /\ A \cap B = {}
  BY <1>1, TreeNode DEF Tree, Disjoint
<1>5. PICK x \in A : TRUE
  BY <1>4
<1>6. k \in B /\ k \in Int /\ x \in Int /\ x < k
  BY <1>1, <1>5 DEF Sides
<1>7. q # NoPage
  <2> SUFFICES ASSUME q = NoPage PROVE FALSE
    OBVIOUS
  <2>1. k \in A
    BY <1>2, <1>5, <1>6 DEF Linked, Unbounded
  <2> QED BY <1>4, <1>6, <2>1
<1>8. q \in DOMAIN V /\ V[q].leaf /\ Adjacent(A, R[q])
  BY <1>2, <1>7 DEF Linked
<1>9. h[q] = h[a] /\ R[q] # {} /\ R[q] \in SUBSET Int
  BY <1>1, <1>8, TreeNode
<1>10. q # a
  BY <1>5, <1>6, <1>8 DEF Adjacent
<1> SUFFICES ASSUME q # b PROVE FALSE
  OBVIOUS
<1>11. R[q] \cap A = {} /\ R[q] \cap B = {}
  BY <1>1, <1>8, <1>9, <1>10 DEF Tree, Disjoint
<1>12. PICK z \in R[q] : z \in Int /\ x < z
  BY <1>5, <1>8, <1>9 DEF Adjacent
<1>13. CASE k < z
  BY <1>4, <1>5, <1>6, <1>8, <1>11, <1>12, <1>13 DEF Adjacent
<1>14. CASE z < k
  BY <1>3, <1>5, <1>6, <1>11, <1>12, <1>14 DEF IsRegion, Convex
<1> QED BY <1>6, <1>11, <1>12, <1>13, <1>14

-----------------------------------------------------------------------------
(* The entries of a leaf. *)

\* W is V with other entries in leaf p.
Fill(V, W, p) ==
  /\ p \in DOMAIN V /\ DOMAIN W = DOMAIN V /\ V[p].leaf /\ W[p].leaf = TRUE /\ W[p].next = V[p].next
  /\ \A q \in DOMAIN V : q # p => W[q] = V[q]

\* A tree stays one when a leaf gets other entries that fit its region.
LEMMA FillTree ==
  ASSUME NEW V, NEW rt, NEW h, NEW R, Tree(V, rt, h, R), NEW W, NEW p, Fill(V, W, p), LeafIn(W[p], R[p])
  PROVE  Tree(W, rt, h, R)
<1>1. /\ p \in DOMAIN V /\ DOMAIN W = DOMAIN V /\ V[p].leaf /\ W[p].leaf = TRUE /\ W[p].next = V[p].next
      /\ \A q \in DOMAIN V : q # p => W[q] = V[q]
  BY DEF Fill
<1>2. ASSUME NEW q \in DOMAIN V PROVE Node(W, h, R, q)
  <2>1. Node(V, h, R, q)
    BY TreeNode
  <2>2. CASE q = p
    <3>1. h[p] = 0
      BY <1>1, TreeNode
    <3> QED BY <2>1, <2>2, <3>1 DEF Node
  <2>3. CASE q # p
    <3>1. \A j, c : IsChild(V, q, j, c) => c \in DOMAIN W
      BY <1>1, ChildOfNode
    <3> QED BY <1>1, <2>1, <2>3, <3>1, SameNode
  <2> QED BY <2>2, <2>3
<1>3. Links(W, R)
  <2> SUFFICES ASSUME NEW q \in DOMAIN W, W[q].leaf PROVE Linked(W, R, q)
    BY DEF Links
  <2>1. V[q].leaf /\ W[q].next = V[q].next /\ \A r \in DOMAIN V : V[r].leaf => W[r].leaf
    BY <1>1
  <2>2. Linked(V, R, q)
    BY <1>1, <2>1 DEF Tree, Links
  <2> QED BY <1>1, <2>1, <2>2 DEF Linked
<1>4. Disjoint(W, h, R) /\ Covered(W, rt, h, R)
  BY <1>1 DEF Tree, Disjoint, Covered
<1> QED BY <1>1, <1>2, <1>3, <1>4 DEF Tree

-----------------------------------------------------------------------------
(* A root over the root. *)

\* W is V with page top above c, which is its only child.
Above(V, W, top, c) ==
  /\ top \notin DOMAIN V /\ top \in Nat /\ DOMAIN W = DOMAIN V \cup {top}
  /\ \A p \in DOMAIN V : W[p] = V[p]
  /\ IsInternalPage(W[top]) /\ Len(W[top].keys) = 0 /\ W[top].children[1] = c

\* The part of the only child is the whole region.
LEMMA OnlyPart ==
  ASSUME NEW keys, Len(keys) = 0
  PROVE  Part(Int, keys, 1) = Int
BY DEF Part

\* A root above the root makes a tree one level higher.
LEMMA GrowTree ==
  ASSUME NEW V, NEW c, NEW h, NEW R, Tree(V, c, h, R), NEW W, NEW top, Above(V, W, top, c)
  PROVE  IsTree(W, top)
<1> DEFINE Q == [p \in DOMAIN W |-> IF p = top THEN Int ELSE R[p]]
           g == [p \in DOMAIN W |-> IF p = top THEN h[c] + 1 ELSE h[p]]
<1>1. /\ top \notin DOMAIN V /\ top \in Nat /\ DOMAIN W = DOMAIN V \cup {top}
      /\ \A p \in DOMAIN V : W[p] = V[p]
      /\ IsInternalPage(W[top]) /\ Len(W[top].keys) = 0 /\ W[top].children[1] = c
  BY DEF Above
<1>2. c \in DOMAIN V /\ h[c] \in Nat /\ R[c] = Int
  BY TreeNode DEF Tree
<1>3. /\ Q[top] = Int /\ g[top] = h[c] + 1
      /\ \A p \in DOMAIN V : Q[p] = R[p] /\ g[p] = h[p]
  BY <1>1
<1>4. \A p \in DOMAIN V : h[p] \in Nat /\ h[p] <= h[c] /\ h[p] # h[c] + 1
  BY <1>2, TreeNode
<1> HIDE DEF Q, g
<1>5. ASSUME NEW p \in DOMAIN V PROVE Node(W, g, Q, p)
  <2>1. Node(V, h, R, p)
    BY TreeNode
  <2>2. \A j, d : IsChild(V, p, j, d) => d \in DOMAIN W /\ g[d] = h[d] /\ Q[d] = R[d]
    BY <1>1, <1>3, ChildOfNode
  <2> QED BY <1>1, <1>3, <2>1, <2>2, SameNode
<1>6. Node(W, g, Q, top)
  <2>1. Len(W[top].children) = 1 /\ W[top].leaf = FALSE
    <3>1. Len(W[top].children) = Len(W[top].keys) + 1 /\ W[top].leaf = FALSE
      BY <1>1 DEF IsInternalPage
    <3>2. Len(W[top].keys) = 0
      BY <1>1
    <3> QED BY <3>1, <3>2
  <2>2. KeysIn(W[top], Int)
    BY <1>1 DEF KeysIn, SortedKeys
  <2>3. ChildIn(W, g, Q, top, 1)
    BY <1>1, <1>2, <1>3, OnlyPart DEF ChildIn
  <2>4. IsRegion(Int)
    BY DEF IsRegion, Convex
  <2>5. \A j \in 1 .. Len(W[top].children) : j = 1
    BY <2>1
  <2> QED BY <1>2, <1>3, <2>2, <2>3, <2>4, <2>5 DEF Node
<1>7. \A p \in DOMAIN W : Node(W, g, Q, p) /\ g[p] <= g[top]
  BY <1>1, <1>2, <1>3, <1>4, <1>5, <1>6
<1>8. Disjoint(W, g, Q)
  BY <1>1, <1>3, <1>4 DEF Tree, Disjoint
<1>9. ASSUME NEW n \in 0 .. g[top], NEW x \in Int
      PROVE  \E p \in DOMAIN W : g[p] = n /\ x \in Q[p]
  <2>1. CASE n = g[top]
    BY <1>1, <1>3, <2>1
  <2>2. CASE n # g[top]
    <3>1. n \in 0 .. h[c]
      BY <1>2, <1>3, <2>2
    <3>2. PICK p \in DOMAIN V : h[p] = n /\ x \in R[p]
      BY <3>1 DEF Tree, Covered
    <3> QED BY <1>1, <1>3, <3>2
  <2> QED BY <2>1, <2>2
<1>10. Links(W, Q)
  <2> SUFFICES ASSUME NEW p \in DOMAIN W, W[p].leaf PROVE Linked(W, Q, p)
    BY DEF Links
  <2>1. p \in DOMAIN V /\ V[p].leaf
    BY <1>1, InternalKind
  <2>2. Linked(V, R, p)
    BY <2>1 DEF Tree, Links
  <2> QED BY <1>1, <1>3, <2>1, <2>2 DEF Linked
<1>11. IsFiniteSet(DOMAIN W) /\ DOMAIN W \subseteq Nat
  BY <1>1, FS_AddElement DEF Tree
<1>12. Tree(W, top, g, Q)
  BY <1>1, <1>3, <1>7, <1>8, <1>9, <1>10, <1>11 DEF Tree, Covered
<1> QED BY <1>12 DEF IsTree

\* Below a root with one child is a tree.
LEMMA ShrinkTree ==
  ASSUME NEW V, NEW c, NEW h, NEW R, NEW W, NEW top, Tree(W, top, h, R), Above(V, W, top, c)
  PROVE  Tree(V, c, h, R)
<1>1. /\ top \notin DOMAIN V /\ DOMAIN W = DOMAIN V \cup {top}
      /\ \A p \in DOMAIN V : W[p] = V[p]
      /\ IsInternalPage(W[top]) /\ Len(W[top].keys) = 0 /\ W[top].children[1] = c /\ R[top] = Int
  BY DEF Above, Tree
<1>2. Len(W[top].children) = 1 /\ W[top].leaf = FALSE
  <2>1. Len(W[top].children) = Len(W[top].keys) + 1 /\ W[top].leaf = FALSE
    BY <1>1 DEF IsInternalPage
  <2>2. Len(W[top].keys) = 0
    BY <1>1
  <2> QED BY <2>1, <2>2
<1>3. IsChild(W, top, 1, c)
  BY <1>1, <1>2 DEF IsChild
<1>4. c \in DOMAIN V /\ h[c] + 1 = h[top] /\ R[c] = Int /\ h[c] \in Nat /\ h[top] \in Nat
  BY <1>1, <1>3, ChildOfNode, OnlyPart DEF Tree
<1>5. ASSUME NEW p \in DOMAIN V PROVE Node(V, h, R, p) /\ h[p] <= h[c]
  <2>1. Node(W, h, R, p) /\ h[p] \in Nat /\ h[p] <= h[top] /\ R[p] \in SUBSET Int /\ R[p] # {}
    BY <1>1, TreeNode
  <2>2. h[p] # h[top]
    <3>1. PICK x \in R[p] : x \in Int
      BY <2>1
    <3> QED BY <1>1, <3>1, SamePage
  <2>3. \A j, d : IsChild(W, p, j, d) => d \in DOMAIN V
    BY <1>1, ChildOfNode
  <2>4. Node(V, h, R, p)
    BY <1>1, <2>1, <2>3, SameNode
  <2> QED BY <1>4, <2>1, <2>2, <2>4
<1>6. Disjoint(V, h, R)
  BY <1>1 DEF Tree, Disjoint
<1>7. ASSUME NEW n \in 0 .. h[c], NEW x \in Int
      PROVE  \E p \in DOMAIN V : h[p] = n /\ x \in R[p]
  <2>1. n \in 0 .. h[top] /\ n # h[top]
    BY <1>4
  <2>2. PICK p \in DOMAIN W : h[p] = n /\ x \in R[p]
    BY <2>1 DEF Tree, Covered
  <2> QED BY <1>1, <2>1, <2>2
<1>8. Links(V, R)
  <2> SUFFICES ASSUME NEW p \in DOMAIN V, V[p].leaf PROVE Linked(V, R, p)
    BY DEF Links
  <2>1. p \in DOMAIN W /\ W[p].leaf
    BY <1>1
  <2>2. Linked(W, R, p)
    BY <2>1 DEF Tree, Links
  <2> QED BY <1>1, <1>2, <2>1, <2>2 DEF Linked
<1>9. IsFiniteSet(DOMAIN V) /\ DOMAIN V \subseteq Nat
  BY <1>1, FS_Subset DEF Tree
<1> QED BY <1>4, <1>5, <1>6, <1>7, <1>8, <1>9 DEF Tree, Covered

-----------------------------------------------------------------------------
(* Functions defined by recursion on a measure, and the binary search.       *)

\* Where G only looks at what measures less, functions agree on it.
LooksBelow(D, X, m, G) ==
  /\ G \in [D \X [D -> X] -> X]
  /\ \A x \in D, f, g \in [D -> X] :
       (\A y \in D : m[y] < m[x] => f[y] = g[y]) => G[<<x, f>>] = G[<<x, g>>]

\* f is what G makes of it, for all that measures less than n.
SolvedBelow(D, m, G, f, n) == \A x \in D : m[x] < n => f[x] = G[<<x, f>>]

Solvable(D, X, G) == \E f \in [D -> X] : \A x \in D : f[x] = G[<<x, f>>]

\* A function that solves a recursive equation below n can be changed to solve it
\* up to n.
LEMMA SolvedFurther ==
  ASSUME NEW D, NEW X, NEW m, \A x \in D : m[x] \in Nat, NEW G, LooksBelow(D, X, m, G),
         NEW n \in Nat, NEW f \in [D -> X], SolvedBelow(D, m, G, f, n)
  PROVE  \E g \in [D -> X] : SolvedBelow(D, m, G, g, n + 1)
<1> DEFINE g == [x \in D |-> IF m[x] < n THEN f[x] ELSE G[<<x, f>>]]
<1>1. g \in [D -> X]
  BY DEF LooksBelow
<1>2. \A x \in D : g[x] = IF m[x] < n THEN f[x] ELSE G[<<x, f>>]
  OBVIOUS
<1> HIDE DEF g
<1>3. ASSUME NEW x \in D, m[x] < n + 1
      PROVE  g[x] = G[<<x, g>>]
  <2>1. ASSUME NEW y \in D, m[y] < m[x] PROVE f[y] = g[y]
    <3>1. m[y] \in Nat /\ m[x] \in Nat /\ m[y] < n
      BY <1>3, <2>1
    <3> QED
      BY <1>2, <3>1
  <2>2. G[<<x, f>>] = G[<<x, g>>]
    BY <1>1, <2>1 DEF LooksBelow
  <2> QED
    BY <1>2, <2>2 DEF SolvedBelow
<1> QED
  BY <1>1, <1>3 DEF SolvedBelow

\* A recursive equation whose right side only looks below has a solution.
LEMMA Recursion ==
  ASSUME NEW D, NEW X, X # {}, NEW m, NEW N \in Nat, \A x \in D : m[x] \in Nat /\ m[x] < N,
         NEW G, LooksBelow(D, X, m, G)
  PROVE  Solvable(D, X, G)
<1> DEFINE Solved(n) == \E f \in [D -> X] : SolvedBelow(D, m, G, f, n)
           S == {n \in Nat : ~Solved(n)}
<1>1. ~(0 \in S)
  <2> PICK x0 \in X : TRUE
    OBVIOUS
  <2> DEFINE f == [x \in D |-> x0]
  <2>1. f \in [D -> X]
    OBVIOUS
  <2>2. \A x \in D : ~(m[x] < 0)
    OBVIOUS
  <2>3. SolvedBelow(D, m, G, f, 0)
    BY <2>2 DEF SolvedBelow
  <2> HIDE DEF f
  <2> QED
    BY <2>1, <2>3
<1>2. ASSUME NEW n \in Nat, Solved(n)
      PROVE  Solved(n + 1)
  BY <1>2, SolvedFurther
<1>3. S = {}
  <2> SUFFICES ASSUME S # {} PROVE FALSE
    OBVIOUS
  <2>1. PICK n \in S : \A k \in S : n <= k
    BY LeastNumber
  <2>2. n # 0
    BY <1>1, <2>1
  <2>3. n - 1 \in Nat /\ ~(n - 1 \in S)
    BY <2>1, <2>2
  <2>4. Solved(n - 1)
    BY <2>3
  <2>5. Solved((n - 1) + 1)
    BY <1>2, <2>3, <2>4
  <2> QED
    BY <2>1, <2>5
<1>4. PICK f \in [D -> X] : SolvedBelow(D, m, G, f, N)
  BY <1>3
<1> QED
  BY <1>4 DEF SolvedBelow, Solvable

-----------------------------------------------------------------------------
Halving(a, b, below) == LET mid == (a + b) \div 2 IN IF mid \in below THEN <<mid, b>> ELSE <<a, mid>>

Narrowed(l, r, below) ==
  LET narrow[at \in (l .. r) \X (l .. r)] ==
        IF at[1] + 1 < at[2] THEN narrow[Halving(at[1], at[2], below)]
        ELSE IF at[1] \in below THEN at[2] ELSE at[1]
  IN narrow

Midway(a, b, below, mid) ==
  a < mid /\ mid < b /\ Halving(a, b, below) = IF mid \in below THEN <<mid, b>> ELSE <<a, mid>>

NarrowsTo(F, a, b, below) ==
  F[<<a, b>>] = IF a + 1 < b THEN F[Halving(a, b, below)] ELSE IF a \in below THEN b ELSE a

\* A step of the binary search makes the interval smaller.
LEMMA HalvingNarrows ==
  ASSUME NEW l \in Int, NEW r \in Int, NEW below, NEW a \in l .. r, NEW b \in l .. r, a + 1 < b
  PROVE  \E mid \in Int : mid \in l .. r /\ Midway(a, b, below, mid)
<1>1. (a + b) \div 2 \in Int /\ a < (a + b) \div 2 /\ (a + b) \div 2 < b
  OBVIOUS
<1> QED
  <2>1. PICK mid : mid = (a + b) \div 2
    OBVIOUS
  <2>2. Halving(a, b, below) = (IF mid \in below THEN <<mid, b>> ELSE <<a, mid>>)
    BY <2>1 DEF Halving
  <2>3. mid \in Int /\ a < mid /\ mid < b /\ mid \in l .. r
    BY <1>1, <2>1
  <2>4. Midway(a, b, below, mid)
    BY <2>2, <2>3 DEF Midway
  <2> QED
    BY <2>3, <2>4

Distance(l, r) == [at \in (l .. r) \X (l .. r) |-> IF at[1] < at[2] THEN at[2] - at[1] ELSE 0]

\* The binary search does what its recursive definition says.
LEMMA NarrowedSolves ==
  ASSUME NEW l \in Int, NEW r \in Int, l <= r, NEW below
  PROVE  \A a, b \in l .. r : NarrowsTo(Narrowed(l, r, below), a, b, below)
<1> DEFINE D == (l .. r) \X (l .. r)
           X == l .. r
           m == Distance(l, r)
           body(at, f) == IF at[1] + 1 < at[2] THEN f[Halving(at[1], at[2], below)]
                          ELSE IF at[1] \in below THEN at[2] ELSE at[1]
           G == [xf \in D \X [D -> X] |-> body(xf[1], xf[2])]
<1>1. \A at \in D : m[at] \in Nat /\ m[at] < (r - l) + 1
  BY DEF Distance
<1>2. ASSUME NEW at \in D, at[1] + 1 < at[2]
      PROVE  Halving(at[1], at[2], below) \in D /\ m[Halving(at[1], at[2], below)] < m[at]
  <2>0. PICK mid \in Int : mid \in l .. r /\ Midway(at[1], at[2], below, mid)
    <3>1. at[1] \in l .. r /\ at[2] \in l .. r
      OBVIOUS
    <3> QED
      BY <1>2, <3>1, HalvingNarrows
  <2>1. /\ at[1] < mid /\ mid < at[2] /\ mid \in l .. r
        /\ Halving(at[1], at[2], below) = IF mid \in below THEN <<mid, at[2]>> ELSE <<at[1], mid>>
    BY <2>0 DEF Midway
  <2>2. <<mid, at[2]>> \in D /\ <<at[1], mid>> \in D
    BY <2>1
  <2>3. m[<<mid, at[2]>>] < m[at] /\ m[<<at[1], mid>>] < m[at]
    BY <1>2, <2>1, <2>2 DEF Distance
  <2> QED
    BY <2>1, <2>2, <2>3
<1>3. \A at \in D, f \in [D -> X] : G[<<at, f>>] = body(at, f) /\ body(at, f) \in X
  BY <1>2
<1>4. LooksBelow(D, X, m, G)
  <2>1. G \in [D \X [D -> X] -> X]
    BY <1>3
  <2>2. ASSUME NEW x \in D, NEW f \in [D -> X], NEW g \in [D -> X], \A y \in D : m[y] < m[x] => f[y] = g[y]
        PROVE  G[<<x, f>>] = G[<<x, g>>]
    BY <1>2, <1>3, <2>2
  <2> HIDE DEF D, X, m, G
  <2> QED
    BY <2>1, <2>2 DEF LooksBelow
<1>5. Solvable(D, X, G)
  <2>1. X # {}
    OBVIOUS
  <2>2. PICK N \in Nat : N = (r - l) + 1
    OBVIOUS
  <2>3. \A at \in D : m[at] \in Nat /\ m[at] < N
    BY <1>1, <2>2
  <2> HIDE DEF D, G, m, X
  <2> QED
    BY <1>4, <2>1, <2>3, Recursion
<1> PICK f \in [D -> X] : \A x \in D : f[x] = G[<<x, f>>]
  BY <1>5 DEF Solvable
<1>6. \A x \in D : f[x] = body(x, f)
  BY <1>3
<1>7. f = [x \in D |-> body(x, f)]
  BY <1>6
<1> DEFINE F == Narrowed(l, r, below)
<1>8. F = [x \in D |-> body(x, F)]
  BY <1>7 DEF Narrowed
<1>9. \A x \in D : F[x] = body(x, F)
  BY <1>8
<1> QED
  BY <1>9 DEF NarrowsTo

\* Below a place of below, everything is in it.
DownClosed(below, l, r) == \A i, j \in l .. r : i < j /\ j \in below => i \in below

\* From any interval around the border, the search ends at the border.
LEMMA NarrowedFinds ==
  ASSUME NEW l \in Int, NEW r \in Int, l <= r, NEW below, DownClosed(below, l, r), r \notin below
  PROVE  \A at \in (l .. r) \X (l .. r) : at[1] <= at[2] /\ at[2] \notin below /\ (\A i \in l .. at[1] - 1 : i \in below) =>
           /\ Narrowed(l, r, below)[at] \in l .. r /\ Narrowed(l, r, below)[at] \notin below
           /\ \A i \in l .. Narrowed(l, r, below)[at] - 1 : i \in below
<1> DEFINE D == (l .. r) \X (l .. r)
           m == Distance(l, r)
           F == Narrowed(l, r, below)
           good(at) == at[1] <= at[2] /\ at[2] \notin below /\ (\A i \in l .. at[1] - 1 : i \in below) =>
                       F[at] \in l .. r /\ F[at] \notin below /\ \A i \in l .. F[at] - 1 : i \in below
           S == {at \in D : good(at)}
<1>1. \A at \in D : m[at] \in Nat
  BY DEF Distance
<1>2. ASSUME NEW at \in D, \A y \in D : m[y] < m[at] => y \in S,
             at[1] <= at[2], at[2] \notin below, \A i \in l .. at[1] - 1 : i \in below
      PROVE  F[at] \in l .. r /\ F[at] \notin below /\ \A i \in l .. F[at] - 1 : i \in below
  <2> PICK a \in l .. r, b \in l .. r : at = <<a, b>>
    OBVIOUS
  <2>1. F[at] = IF a + 1 < b THEN F[Halving(a, b, below)] ELSE IF a \in below THEN b ELSE a
    <3>1. NarrowsTo(F, a, b, below)
      BY NarrowedSolves
    <3> QED
      BY <3>1 DEF NarrowsTo
  <2>2. CASE ~(a + 1 < b)
    BY <1>2, <2>1, <2>2
  <2>3. CASE a + 1 < b
    <3>0. PICK mid \in Int : mid \in l .. r /\ Midway(a, b, below, mid)
      BY <2>3, HalvingNarrows
    <3>1. /\ a < mid /\ mid < b /\ mid \in l .. r
          /\ Halving(a, b, below) = IF mid \in below THEN <<mid, b>> ELSE <<a, mid>>
      BY <3>0 DEF Midway
    <3>2. <<mid, b>> \in D /\ <<a, mid>> \in D /\ m[<<mid, b>>] < m[at] /\ m[<<a, mid>>] < m[at]
      BY <2>3, <3>1 DEF Distance
    <3>3. good(<<mid, b>>) /\ good(<<a, mid>>)
      BY <1>2, <3>2
    <3>4. CASE mid \in below
      <4>1. F[at] = F[<<mid, b>>]
        BY <2>1, <2>3, <3>1, <3>4
      <4>2. \A i \in l .. mid - 1 : i \in below
        BY <3>1, <3>4 DEF DownClosed
      <4> QED
        BY <1>2, <3>1, <3>3, <4>1, <4>2
    <3>5. CASE mid \notin below
      <4>1. F[at] = F[<<a, mid>>]
        BY <2>1, <2>3, <3>1, <3>5
      <4> QED
        BY <1>2, <3>1, <3>3, <3>5, <4>1
    <3> QED
      BY <3>4, <3>5
  <2> QED
    BY <2>2, <2>3
<1>3. \A at \in D : (\A y \in D : m[y] < m[at] => y \in S) => at \in S
  BY <1>2
<1>4. D \subseteq S
  <2> HIDE DEF D, S, m
  <2> QED
    BY <1>1, <1>3, MeasureInduction
<1> QED
  BY <1>4

\* The binary search finds the first place that is not below.
LEMMA SearchFinds ==
  ASSUME NEW l \in Int, NEW r \in Int, l <= r, NEW below, DownClosed(below, l, r)
  PROVE  /\ BinarySearch(l, r, below) \in l .. r + 1
         /\ BinarySearch(l, r, below) # r + 1 => BinarySearch(l, r, below) \notin below
         /\ \A i \in l .. BinarySearch(l, r, below) - 1 : i \in below
<1>1. BinarySearch(l, r, below) = IF r \in below THEN r + 1 ELSE Narrowed(l, r, below)[<<l, r>>]
  BY DEF BinarySearch, Narrowed, Halving
<1>2. CASE r \in below
  BY <1>1, <1>2 DEF DownClosed
<1>3. CASE r \notin below
  <2>1. <<l, r>> \in (l .. r) \X (l .. r)
    OBVIOUS
  <2>2. Narrowed(l, r, below)[<<l, r>>] \in l .. r /\ Narrowed(l, r, below)[<<l, r>>] \notin below
          /\ \A i \in l .. Narrowed(l, r, below)[<<l, r>>] - 1 : i \in below
    BY <1>3, <2>1, NarrowedFinds
  <2> QED
    BY <1>1, <1>3, <2>2
<1> QED
  BY <1>2, <1>3

-----------------------------------------------------------------------------
(* Searching a page. *)

\* The binary search ends at the only border there is.
LEMMA SearchAt ==
  ASSUME NEW n \in Nat, n >= 1, NEW below, DownClosed(below, 1, n), NEW i \in 1 .. n + 1,
         i > 1 => i - 1 \in below, i <= n => i \notin below
  PROVE  BinarySearch(1, n, below) = i
<1>1. PICK b : b = BinarySearch(1, n, below)
  OBVIOUS
<1>2. b \in 1 .. n + 1 /\ (b # n + 1 => b \notin below) /\ \A j \in 1 .. b - 1 : j \in below
  <2>1. 1 \in Int /\ n \in Int /\ 1 <= n
    OBVIOUS
  <2> QED
    BY <1>1, <2>1, SearchFinds
<1>3. ~(b < i)
  BY <1>2 DEF DownClosed
<1>4. ~(i < b)
  BY <1>2
<1> QED
  BY <1>1, <1>2, <1>3, <1>4

\* LowerBound finds the first key that is not smaller.
LEMMA LowerBoundAt ==
  ASSUME NEW pg, IsKeys(pg.keys), pg.keys \in Seq(Keys), Len(pg.keys) >= 1, NEW k \in Int, NEW i \in 1 .. Len(pg.keys) + 1,
         i > 1 => pg.keys[i - 1] < k, i <= Len(pg.keys) => k <= pg.keys[i]
  PROVE  LowerBound(pg, k) = i
<1> DEFINE K == pg.keys
           below == {j \in DOMAIN K : K[j] < k}
<1>1. Len(K) \in Nat /\ DOMAIN K = 1 .. Len(K) /\ (\A j \in 1 .. Len(K) : K[j] \in Int)
        /\ \A j, l \in 1 .. Len(K) : j < l => K[j] < K[l]
  BY DEF IsKeys, SortedKeys
<1>2. DownClosed(below, 1, Len(K))
  BY <1>1 DEF DownClosed
<1>3. i > 1 => i - 1 \in below
  BY <1>1
<1>4. i <= Len(K) => i \notin below
  BY <1>1
<1>5. LowerBound(pg, k) = BinarySearch(1, Len(K), below)
  BY DEF LowerBound
<1> HIDE DEF below
<1> QED
  BY <1>1, <1>2, <1>3, <1>4, <1>5, SearchAt

\* UpperBound finds the child whose part the key is in.
LEMMA UpperBoundAt ==
  ASSUME NEW pg, IsKeys(pg.keys), pg.keys \in Seq(Keys), Len(pg.keys) >= 1, NEW A \in SUBSET Int, NEW i \in 1 .. Len(pg.keys) + 1,
         NEW k \in Part(A, pg.keys, i)
  PROVE  UpperBound(pg, k) = i
<1> DEFINE K == pg.keys
           below == {j \in DOMAIN K : K[j] <= k}
<1>1. Len(K) \in Nat /\ DOMAIN K = 1 .. Len(K) /\ (\A j \in 1 .. Len(K) : K[j] \in Int)
        /\ \A j, l \in 1 .. Len(K) : j < l => K[j] < K[l]
  BY DEF IsKeys, SortedKeys
<1>2. k \in Int /\ (i > 1 => K[i - 1] <= k) /\ (i <= Len(K) => k < K[i])
  BY DEF Part
<1>3. DownClosed(below, 1, Len(K))
  BY <1>1, <1>2 DEF DownClosed
<1>4. i > 1 => i - 1 \in below
  BY <1>1, <1>2
<1>5. i <= Len(K) => i \notin below
  BY <1>1, <1>2
<1>6. UpperBound(pg, k) = BinarySearch(1, Len(K), below)
  BY DEF UpperBound
<1> HIDE DEF below
<1> QED
  BY <1>1, <1>3, <1>4, <1>5, <1>6, SearchAt

\* i is where an entry with key k belongs.
LeafPlace(entries, k, i) ==
  /\ i \in 1 .. Len(entries) + 1
  /\ \A j \in 1 .. Len(entries) : IF j < i THEN entries[j].key < k ELSE k <= entries[j].key

\* LeafLowerBound finds where an entry with the key belongs.
LEMMA LeafLowerBoundAt ==
  ASSUME NEW pg, IsLeafPage(pg), SortedEntries(pg.entries), Len(pg.entries) >= 1, NEW k \in Int
  PROVE  LeafPlace(pg.entries, k, LeafLowerBound(pg, k))
<1> DEFINE s == pg.entries
           below == {j \in DOMAIN s : s[j].key < k}
<1>1. Len(s) \in Nat /\ DOMAIN s = 1 .. Len(s) /\ (\A j \in 1 .. Len(s) : s[j].key \in Int)
        /\ \A j, l \in 1 .. Len(s) : j < l => s[j].key < s[l].key
  <2>1. Len(s) \in Nat /\ \A j \in 1 .. Len(s) : s[j].key \in Int
    BY LeafKind
  <2>2. DOMAIN s = 1 .. Len(s)
    BY DEF IsLeafPage
  <2> QED
    BY <2>1, <2>2 DEF SortedEntries
<1>2. DownClosed(below, 1, Len(s))
  BY <1>1 DEF DownClosed
<1>3. PICK i : i = BinarySearch(1, Len(s), below)
  OBVIOUS
<1>4. i \in 1 .. Len(s) + 1 /\ (i # Len(s) + 1 => i \notin below) /\ \A j \in 1 .. i - 1 : j \in below
  <2>1. 1 \in Int /\ Len(s) \in Int /\ 1 <= Len(s)
    BY <1>1
  <2> HIDE DEF below, s
  <2> QED
    BY <1>2, <1>3, <2>1, SearchFinds
<1>5. ASSUME NEW j \in 1 .. Len(s)
      PROVE  IF j < i THEN s[j].key < k ELSE k <= s[j].key
  <2>1. CASE j < i
    BY <1>4, <2>1
  <2>2. CASE ~(j < i)
    <3>1. i \in 1 .. Len(s) /\ i \notin below
      BY <1>1, <1>4, <2>2
    <3>2. k <= s[i].key /\ s[i].key \in Int /\ s[j].key \in Int
      BY <1>1, <3>1
    <3>3. i = j \/ s[i].key < s[j].key
      BY <1>1, <2>2, <3>1
    <3> QED
      BY <2>2, <3>2, <3>3
  <2> QED
    BY <2>1, <2>2
<1>6. LeafLowerBound(pg, k) = i
  BY <1>3 DEF LeafLowerBound
<1> QED
  BY <1>4, <1>5, <1>6 DEF LeafPlace

-----------------------------------------------------------------------------
(* What the operations on sequences do. *)

\* One sequence after another.
LEMMA Chained ==
  ASSUME NEW S, NEW s \in Seq(S), NEW t \in Seq(S)
  PROVE  s \o t \in Seq(S) /\ Joins(s, t, s \o t)
BY DEF Joins

\* What InsertAt does.
LEMMA Inserted ==
  ASSUME NEW S, NEW s \in Seq(S), NEW i \in 1 .. Len(s) + 1, NEW x \in S
  PROVE  InsertAt(s, i, x) \in Seq(S) /\ PutIn(s, i, x, InsertAt(s, i, x))
<1> DEFINE n == Len(s)
           l == SubSeq(s, 1, i - 1)
           r == SubSeq(s, i, n)
           t == (l \o <<x>>) \o r
<1>1. l \in Seq(S) /\ Len(l) = i - 1 /\ \A j \in 1 .. i - 1 : l[j] = s[j]
  OBVIOUS
<1>2. r \in Seq(S) /\ Len(r) = n - i + 1 /\ \A j \in 1 .. n - i + 1 : r[j] = s[i + j - 1]
  OBVIOUS
<1>3. InsertAt(s, i, x) = t
  BY DEF InsertAt
<1> HIDE DEF l, r
<1>4. /\ l \o <<x>> \in Seq(S) /\ Len(l \o <<x>>) = i /\ (l \o <<x>>)[i] = x
      /\ \A j \in 1 .. i - 1 : (l \o <<x>>)[j] = s[j]
  BY <1>1
<1> PICK a : a = l \o <<x>>
  OBVIOUS
<1>5. /\ t \in Seq(S) /\ Len(t) = n + 1 /\ (\A j \in 1 .. i : t[j] = a[j])
      /\ \A j \in 1 .. n - i + 1 : t[i + j] = r[j]
  <2>1. a \o r \in Seq(S) /\ Joins(a, r, a \o r)
    BY <1>2, <1>4, Chained
  <2>2. t = a \o r
    OBVIOUS
  <2>3. Len(a) = i /\ Len(r) = n - i + 1 /\ i + (n - i + 1) = n + 1
    BY <1>2, <1>4
  <2> HIDE DEF t
  <2> QED
    BY <2>1, <2>2, <2>3 DEF Joins
<1> HIDE DEF t
<1>6. ASSUME NEW j \in i .. n
      PROVE  t[j + 1] = s[j]
  <2> PICK k \in 1 .. n - i + 1 : j = i + k - 1 /\ i + k = j + 1
    <3>1. j - i + 1 \in 1 .. n - i + 1 /\ j = i + (j - i + 1) - 1 /\ i + (j - i + 1) = j + 1
      OBVIOUS
    <3> QED
      BY <3>1
  <2> QED
    BY <1>2, <1>5
<1>7. t[i] = x /\ \A j \in 1 .. i - 1 : t[j] = s[j]
  BY <1>4, <1>5
<1> QED
  BY <1>3, <1>5, <1>6, <1>7 DEF PutIn

\* What RemoveAt does.
LEMMA Removed ==
  ASSUME NEW S, NEW s \in Seq(S), NEW i \in 1 .. Len(s)
  PROVE  RemoveAt(s, i) \in Seq(S) /\ PutIn(RemoveAt(s, i), i, s[i], s)
<1> DEFINE n == Len(s)
           l == SubSeq(s, 1, i - 1)
           r == SubSeq(s, i + 1, n)
           t == l \o r
<1>1. l \in Seq(S) /\ Len(l) = i - 1 /\ \A j \in 1 .. i - 1 : l[j] = s[j]
  OBVIOUS
<1>2. r \in Seq(S) /\ Len(r) = n - i /\ \A j \in 1 .. n - i : r[j] = s[i + j]
  OBVIOUS
<1>3. RemoveAt(s, i) = t
  BY DEF RemoveAt
<1> HIDE DEF l, r
<1>4. /\ t \in Seq(S) /\ Len(t) = n - 1 /\ (\A j \in 1 .. i - 1 : t[j] = s[j])
      /\ \A j \in 1 .. n - i : t[i - 1 + j] = r[j]
  <2>1. t \in Seq(S) /\ Joins(l, r, t)
    BY <1>1, <1>2, Chained
  <2>2. (i - 1) + (n - i) = n - 1
    OBVIOUS
  <2> HIDE DEF t
  <2> QED
    BY <1>1, <1>2, <2>1, <2>2 DEF Joins
<1> HIDE DEF t
<1>5. ASSUME NEW j \in i .. n - 1
      PROVE  s[j + 1] = t[j]
  <2> PICK k \in 1 .. n - i : i - 1 + k = j /\ i + k = j + 1
    <3>1. j - i + 1 \in 1 .. n - i /\ i - 1 + (j - i + 1) = j /\ i + (j - i + 1) = j + 1
      OBVIOUS
    <3> QED
      BY <3>1
  <2> QED
    BY <1>2, <1>4
<1>6. i \in 1 .. Len(t) + 1 /\ Len(s) = Len(t) + 1
  BY <1>4
<1> QED
  BY <1>3, <1>4, <1>5, <1>6 DEF PutIn

Halves(s, n, l, r) == l = SubSeq(s, 1, n) /\ r = SubSeq(s, n + 1, Len(s))

AreHalves(S, s, n, l, r) == l \in Seq(S) /\ r \in Seq(S) /\ Len(l) = n /\ Len(r) = Len(s) - n /\ Joins(l, r, s)

\* A sequence cut in two.
LEMMA Halved ==
  ASSUME NEW S, NEW s \in Seq(S), NEW n \in 0 .. Len(s), NEW l, NEW r, Halves(s, n, l, r)
  PROVE  AreHalves(S, s, n, l, r)
<1>1. l \in Seq(S) /\ Len(l) = n /\ \A j \in 1 .. n : l[j] = s[j]
  BY DEF Halves
<1>2. r \in Seq(S) /\ Len(r) = Len(s) - n /\ \A j \in 1 .. Len(s) - n : r[j] = s[n + j]
  BY DEF Halves
<1>3. Len(s) = n + (Len(s) - n)
  OBVIOUS
<1>4. Joins(l, r, s)
  BY <1>1, <1>2, <1>3 DEF Joins
<1> QED
  BY <1>1, <1>2, <1>4 DEF AreHalves

KeyHalves(s, n, l, r) == l = SubSeq(s, 1, n - 1) /\ r = SubSeq(s, n + 1, Len(s))

AreKeyHalves(S, s, n, l, r) ==
  l \in Seq(S) /\ r \in Seq(S) /\ Len(l) = n - 1 /\ Len(r) = Len(s) - n /\ KeysJoin(l, s[n], r, s)

\* A sequence of keys cut at a key that goes to neither half.
LEMMA KeysHalved ==
  ASSUME NEW S, NEW s \in Seq(S), NEW n \in 1 .. Len(s), NEW l, NEW r, KeyHalves(s, n, l, r)
  PROVE  AreKeyHalves(S, s, n, l, r)
<1>1. l \in Seq(S) /\ Len(l) = n - 1 /\ \A j \in 1 .. n - 1 : l[j] = s[j]
  BY DEF KeyHalves
<1>2. r \in Seq(S) /\ Len(r) = Len(s) - n /\ \A j \in 1 .. Len(s) - n : r[j] = s[n + j]
  BY DEF KeyHalves
<1>3. Len(s) = (n - 1) + 1 + (Len(s) - n) /\ (n - 1) + 1 = n
  OBVIOUS
<1>4. KeysJoin(l, s[n], r, s)
  BY <1>1, <1>2, <1>3 DEF KeysJoin
<1> QED
  BY <1>1, <1>2, <1>4 DEF AreKeyHalves

\* Two sequences of keys with a key between them.
LEMMA KeysChained ==
  ASSUME NEW S, NEW s \in Seq(S), NEW t \in Seq(S), NEW k \in S
  PROVE  s \o <<k>> \o t \in Seq(S) /\ KeysJoin(s, k, t, s \o <<k>> \o t)
BY DEF KeysJoin

-----------------------------------------------------------------------------
(* What is lent across the border of two neighbours. *)

LastGoes(s, t, l, r) == l = Front(s) /\ r = <<Last(s)>> \o t

LastGone(S, s, t, l, r) ==
  /\ l \in Seq(S) /\ r \in Seq(S) /\ Len(l) = Len(s) - 1 /\ Len(r) = Len(t) + 1 /\ r[1] = Last(s)
  /\ Last(s) \in S /\ Joins(l, r, s \o t)

\* The last element of one sequence goes to the front of the other.
LEMMA LastLent ==
  ASSUME NEW S, NEW s \in Seq(S), NEW t \in Seq(S), Len(s) >= 1, NEW l, NEW r, LastGoes(s, t, l, r)
  PROVE  LastGone(S, s, t, l, r)
<1>1. l \in Seq(S) /\ Len(l) = Len(s) - 1 /\ \A j \in 1 .. Len(s) - 1 : l[j] = s[j]
  BY DEF Front, LastGoes
<1>2. Last(s) \in S /\ Last(s) = s[Len(s)]
  BY DEF Last
<1>3. r \in Seq(S) /\ Len(r) = Len(t) + 1 /\ r[1] = Last(s) /\ \A j \in 1 .. Len(t) : r[j + 1] = t[j]
  BY <1>2 DEF LastGoes
<1>4. /\ Len(s \o t) = Len(s) + Len(t) /\ (\A j \in 1 .. Len(s) : (s \o t)[j] = s[j])
      /\ \A j \in 1 .. Len(t) : (s \o t)[Len(s) + j] = t[j]
  OBVIOUS
<1> PICK u : u = s \o t
  OBVIOUS
<1>5. \A j \in 1 .. Len(l) : u[j] = l[j]
  BY <1>1, <1>4
<1>6. ASSUME NEW j \in 1 .. Len(r)
      PROVE  u[Len(l) + j] = r[j]
  <2>1. CASE j = 1
    BY <1>1, <1>2, <1>3, <1>4, <2>1
  <2>2. CASE j # 1
    <3>1. j - 1 \in 1 .. Len(t) /\ Len(l) + j = Len(s) + (j - 1) /\ (j - 1) + 1 = j
      BY <1>1, <1>3, <2>2
    <3> QED
      BY <1>3, <1>4, <3>1, ZenonT(30)
  <2> QED
    BY <2>1, <2>2
<1>7. Len(u) = Len(l) + Len(r)
  BY <1>1, <1>3, <1>4
<1> QED
  BY <1>1, <1>2, <1>3, <1>5, <1>6, <1>7 DEF Joins, LastGone

FirstGoes(s, t, l, r) == l = Append(s, Head(t)) /\ r = Tail(t)

FirstGone(S, s, t, l, r) ==
  /\ l \in Seq(S) /\ r \in Seq(S) /\ Len(l) = Len(s) + 1 /\ Len(r) = Len(t) - 1
  /\ (\A j \in 1 .. Len(r) : r[j] = t[j + 1]) /\ Joins(l, r, s \o t)

\* The first element of one sequence goes to the end of the other.
LEMMA FirstLent ==
  ASSUME NEW S, NEW s \in Seq(S), NEW t \in Seq(S), Len(t) >= 1, NEW l, NEW r, FirstGoes(s, t, l, r)
  PROVE  FirstGone(S, s, t, l, r)
<1>1. l \in Seq(S) /\ Len(l) = Len(s) + 1 /\ (\A j \in 1 .. Len(s) : l[j] = s[j]) /\ l[Len(s) + 1] = t[1]
  BY DEF FirstGoes
<1>2. r \in Seq(S) /\ Len(r) = Len(t) - 1 /\ \A j \in 1 .. Len(r) : r[j] = t[j + 1]
  BY DEF FirstGoes
<1>4. /\ Len(s \o t) = Len(s) + Len(t) /\ (\A j \in 1 .. Len(s) : (s \o t)[j] = s[j])
      /\ \A j \in 1 .. Len(t) : (s \o t)[Len(s) + j] = t[j]
  OBVIOUS
<1> PICK u : u = s \o t
  OBVIOUS
<1>5. ASSUME NEW j \in 1 .. Len(l)
      PROVE  u[j] = l[j]
  <2>1. j \in 1 .. Len(s) \/ j = Len(s) + 1
    BY <1>1
  <2> QED
    BY <1>1, <1>4, <2>1
<1>6. ASSUME NEW j \in 1 .. Len(r)
      PROVE  u[Len(l) + j] = r[j]
  <2>1. j + 1 \in 1 .. Len(t) /\ Len(l) + j = Len(s) + (j + 1)
    BY <1>1, <1>2
  <2> QED
    BY <1>2, <1>4, <2>1
<1>7. Len(u) = Len(l) + Len(r)
  BY <1>1, <1>2, <1>4
<1> QED
  BY <1>1, <1>2, <1>5, <1>6, <1>7 DEF Joins, FirstGone

LastKeyGoes(s, k, t, l, r) == l = Front(s) /\ r = <<k>> \o t

LastKeyGone(S, s, k, t, l, r) ==
  /\ l \in Seq(S) /\ r \in Seq(S) /\ Len(l) = Len(s) - 1 /\ Len(r) = Len(t) + 1
  /\ Last(s) \in S /\ KeysJoin(l, Last(s), r, s \o <<k>> \o t)

\* The key between goes right and the last key of the left one takes its place.
LEMMA LastKeyLent ==
  ASSUME NEW S, NEW s \in Seq(S), NEW t \in Seq(S), NEW k \in S, Len(s) >= 1, NEW l, NEW r, LastKeyGoes(s, k, t, l, r)
  PROVE  LastKeyGone(S, s, k, t, l, r)
<1>1. l \in Seq(S) /\ Len(l) = Len(s) - 1 /\ \A j \in 1 .. Len(s) - 1 : l[j] = s[j]
  BY DEF Front, LastKeyGoes
<1>2. Last(s) \in S /\ Last(s) = s[Len(s)]
  BY DEF Last
<1>3. r \in Seq(S) /\ Len(r) = Len(t) + 1 /\ r[1] = k /\ \A j \in 1 .. Len(t) : r[j + 1] = t[j]
  BY DEF LastKeyGoes
<1> PICK u : u = s \o <<k>> \o t
  OBVIOUS
<1>4. /\ Len(u) = Len(s) + 1 + Len(t) /\ (\A j \in 1 .. Len(s) : u[j] = s[j]) /\ u[Len(s) + 1] = k
      /\ \A j \in 1 .. Len(t) : u[Len(s) + 1 + j] = t[j]
  BY KeysChained DEF KeysJoin
<1>5. \A j \in 1 .. Len(l) : u[j] = l[j]
  BY <1>1, <1>4
<1>6. ASSUME NEW j \in 1 .. Len(r)
      PROVE  u[Len(l) + 1 + j] = r[j]
  <2>1. CASE j = 1
    <3>1. Len(l) + 1 + j = Len(s) + 1
      BY <1>1, <2>1
    <3> QED
      BY <1>3, <1>4, <2>1, <3>1
  <2>2. CASE j # 1
    <3>1. j - 1 \in 1 .. Len(t) /\ Len(l) + 1 + j = Len(s) + 1 + (j - 1) /\ (j - 1) + 1 = j
      BY <1>1, <1>3, <2>2
    <3> QED
      BY <1>3, <1>4, <3>1
  <2> QED
    BY <2>1, <2>2
<1>7. Len(u) = Len(l) + 1 + Len(r) /\ u[Len(l) + 1] = Last(s)
  BY <1>1, <1>2, <1>3, <1>4
<1> QED
  BY <1>1, <1>2, <1>3, <1>5, <1>6, <1>7 DEF KeysJoin, LastKeyGone

FirstKeyGoes(s, k, t, l, r) == l = Append(s, k) /\ r = Tail(t)

FirstKeyGone(S, s, k, t, l, r) ==
  /\ l \in Seq(S) /\ r \in Seq(S) /\ Len(l) = Len(s) + 1 /\ Len(r) = Len(t) - 1
  /\ Head(t) \in S /\ KeysJoin(l, Head(t), r, s \o <<k>> \o t)

\* The key between goes left and the first key of the right one takes its place.
LEMMA FirstKeyLent ==
  ASSUME NEW S, NEW s \in Seq(S), NEW t \in Seq(S), NEW k \in S, Len(t) >= 1, NEW l, NEW r, FirstKeyGoes(s, k, t, l, r)
  PROVE  FirstKeyGone(S, s, k, t, l, r)
<1>1. l \in Seq(S) /\ Len(l) = Len(s) + 1 /\ (\A j \in 1 .. Len(s) : l[j] = s[j]) /\ l[Len(s) + 1] = k
  BY DEF FirstKeyGoes
<1>2. r \in Seq(S) /\ Len(r) = Len(t) - 1 /\ (\A j \in 1 .. Len(r) : r[j] = t[j + 1]) /\ Head(t) = t[1] /\ Head(t) \in S
  BY DEF FirstKeyGoes
<1> PICK u : u = s \o <<k>> \o t
  OBVIOUS
<1>4. /\ Len(u) = Len(s) + 1 + Len(t) /\ (\A j \in 1 .. Len(s) : u[j] = s[j]) /\ u[Len(s) + 1] = k
      /\ \A j \in 1 .. Len(t) : u[Len(s) + 1 + j] = t[j]
  BY KeysChained DEF KeysJoin
<1>5. ASSUME NEW j \in 1 .. Len(l)
      PROVE  u[j] = l[j]
  <2>1. j \in 1 .. Len(s) \/ j = Len(s) + 1
    BY <1>1
  <2> QED
    BY <1>1, <1>4, <2>1
<1>6. ASSUME NEW j \in 1 .. Len(r)
      PROVE  u[Len(l) + 1 + j] = r[j]
  <2>1. j + 1 \in 1 .. Len(t) /\ Len(l) + 1 + j = Len(s) + 1 + (j + 1)
    BY <1>1, <1>2
  <2> QED
    BY <1>2, <1>4, <2>1
<1>7. Len(u) = Len(l) + 1 + Len(r) /\ u[Len(l) + 1] = Head(t)
  <2>1. 1 \in 1 .. Len(t) /\ Len(l) + 1 = Len(s) + 1 + 1
    BY <1>1
  <2> QED
    BY <1>1, <1>2, <1>4, <2>1
<1> QED
  BY <1>1, <1>2, <1>5, <1>6, <1>7 DEF KeysJoin, FirstKeyGone

-----------------------------------------------------------------------------
(* New ids and least sizes. *)

\* NewPageId gives a page that is not in use.
LEMMA FreshPage ==
  ASSUME NEW ps, IsFiniteSet(DOMAIN ps)
  PROVE  NewPageId(ps) \in Nat /\ NewPageId(ps) \notin DOMAIN ps
<1> DEFINE D == DOMAIN ps
           n == Cardinality(D)
           S == 1 .. n + 1 \ D
<1>1. n \in Nat
  BY FS_CardinalityType
<1>2. S # {}
  <2> SUFFICES ASSUME S = {} PROVE FALSE
    OBVIOUS
  <2>1. 1 .. n + 1 \in SUBSET D
    OBVIOUS
  <2>2. Cardinality(1 .. n + 1) = n + 1
    BY <1>1, FS_Interval
  <2>3. Cardinality(1 .. n + 1) <= n
    BY <2>1, FS_Subset
  <2> QED
    BY <1>1, <2>2, <2>3
<1>3. S \in SUBSET Nat
  BY <1>1
<1>4. \E x \in S : \A y \in S : x <= y
  BY <1>2, <1>3, LeastNumber
<1>5. NewPageId(ps) \in S
  BY <1>4 DEF NewPageId, Min
<1> QED
  BY <1>3, <1>5

\* MinSize of an internal page.
LeastChildren == IF InternalMax \div 2 >= 2 THEN InternalMax \div 2 ELSE 2

\* The greater of two numbers.
LEMMA MaxOfTwo ==
  ASSUME NEW a \in Int, NEW b \in Int
  PROVE  Max({a, b}) = IF a >= b THEN a ELSE b
<1> DEFINE m == IF a >= b THEN a ELSE b
<1>1. m \in {a, b} /\ \A y \in {a, b} : m >= y
  OBVIOUS
<1>2. \A x \in {a, b} : (\A y \in {a, b} : x >= y) => x = m
  OBVIOUS
<1> QED
  BY <1>1, <1>2 DEF Max

\* MinSize and Size of both kinds of page.
LEMMA LeastSizes ==
  /\ \A pg : IsLeafPage(pg) => MinSize(pg) = LeafMax \div 2 /\ Size(pg) = Len(pg.entries)
  /\ \A pg : IsInternalPage(pg) => MinSize(pg) = LeastChildren /\ Size(pg) = Len(pg.children)
  /\ LeafMax \div 2 \in Nat /\ LeafMax \div 2 >= 1 /\ 2 * (LeafMax \div 2) <= LeafMax
  /\ LeastChildren \in Nat /\ LeastChildren >= 2 /\ 2 * LeastChildren <= InternalMax + 1
<1>1. LeafMax \div 2 \in Nat /\ LeafMax \div 2 >= 1 /\ 2 * (LeafMax \div 2) <= LeafMax
  BY TreeAssumption
<1>2. InternalMax \div 2 \in Nat /\ 2 * (InternalMax \div 2) <= InternalMax
  BY TreeAssumption
<1>3. LeastChildren \in Nat /\ LeastChildren >= 2 /\ 2 * LeastChildren <= InternalMax + 1
  BY <1>2, TreeAssumption DEF LeastChildren
<1>4. ASSUME NEW pg, IsLeafPage(pg)
      PROVE  MinSize(pg) = LeafMax \div 2 /\ Size(pg) = Len(pg.entries)
  BY <1>4 DEF MinSize, Size, IsLeafPage
<1>5. ASSUME NEW pg, IsInternalPage(pg)
      PROVE  MinSize(pg) = LeastChildren /\ Size(pg) = Len(pg.children)
  <2>1. Max({InternalMax \div 2, 2}) = LeastChildren
    BY <1>2, MaxOfTwo DEF LeastChildren
  <2>2. pg.leaf = FALSE
    BY <1>5 DEF IsInternalPage
  <2> QED
    BY <2>1, <2>2 DEF MinSize, Size
<1> QED
  BY <1>1, <1>3, <1>4, <1>5

\* How many stay in a page that splits.
LEMMA SplitSizes ==
  /\ StaysLeft(LeafMax) \in Nat /\ StaysLeft(LeafMax) >= 1 /\ StaysLeft(LeafMax) <= LeafMax
  /\ StaysLeft(LeafMax) >= LeafMax \div 2 /\ LeafMax + 1 - StaysLeft(LeafMax) >= LeafMax \div 2
  /\ StaysLeft(InternalMax) \in Nat /\ StaysLeft(InternalMax) >= 2 /\ StaysLeft(InternalMax) <= InternalMax - 1
  /\ StaysLeft(InternalMax) >= LeastChildren /\ InternalMax + 1 - StaysLeft(InternalMax) >= LeastChildren
<1>1. /\ (LeafMax + 1) \div 2 \in Nat /\ (LeafMax + 1) \div 2 >= 1 /\ (LeafMax + 1) \div 2 <= LeafMax
      /\ (LeafMax + 1) \div 2 >= LeafMax \div 2 /\ LeafMax + 1 - ((LeafMax + 1) \div 2) >= LeafMax \div 2
  BY TreeAssumption
<1>2. /\ (InternalMax + 1) \div 2 \in Nat /\ (InternalMax + 1) \div 2 >= 2 /\ (InternalMax + 1) \div 2 <= InternalMax - 1
      /\ (InternalMax + 1) \div 2 >= InternalMax \div 2 /\ InternalMax + 1 - ((InternalMax + 1) \div 2) >= InternalMax \div 2
      /\ InternalMax + 1 - ((InternalMax + 1) \div 2) >= 2
  BY TreeAssumption
<1> QED
  BY <1>1, <1>2 DEF StaysLeft, LeastChildren

-----------------------------------------------------------------------------
(* A child that comes and a child that goes. *)

Grown(page, key, child) ==
  LET pos == LowerBound(page, key)
  IN Internal(InsertAt(page.keys, pos, key), InsertAt(page.children, pos + 1, child))

Shrunk(page, key) ==
  LET pos == LowerBound(page, key)
  IN Internal(RemoveAt(page.keys, pos), RemoveAt(page.children, pos + 1))

\* big is small with child c and the key k before it, the one at i and the other at i + 1.
HasMore(small, i, k, c, big) ==
  /\ IsInternalPage(small) /\ IsInternalPage(big) /\ i \in 1 .. Len(big.keys)
  /\ PutIn(small.keys, i, k, big.keys) /\ PutIn(small.children, i + 1, c, big.children)

\* An internal page with a key and a child put in.
LEMMA GrownPage ==
  ASSUME NEW pg, IsInternalPage(pg), NEW i \in 1 .. Len(pg.keys) + 1, NEW k \in Keys, NEW b \in Nat,
         NEW big, big = Internal(InsertAt(pg.keys, i, k), InsertAt(pg.children, i + 1, b))
  PROVE  HasMore(pg, i, k, b, big)
<1>1. Len(pg.keys) \in Nat /\ Len(pg.children) = Len(pg.keys) + 1 /\ pg.keys \in Seq(Keys) /\ pg.children \in Seq(Nat)
  BY DEF IsInternalPage
<1>2. big.keys = InsertAt(pg.keys, i, k) /\ big.children = InsertAt(pg.children, i + 1, b) /\ big.leaf = FALSE
        /\ big = Internal(big.keys, big.children)
  BY DEF Internal
<1>3. big.keys \in Seq(Keys) /\ PutIn(pg.keys, i, k, big.keys)
  BY <1>1, <1>2, Inserted
<1>4. i + 1 \in 1 .. Len(pg.children) + 1
  BY <1>1
<1>5. big.children \in Seq(Nat) /\ PutIn(pg.children, i + 1, b, big.children)
  BY <1>1, <1>2, <1>4, Inserted
<1>6. Len(big.keys) = Len(pg.keys) + 1 /\ Len(big.children) = Len(pg.children) + 1
  BY <1>3, <1>5 DEF PutIn
<1>7. IsInternalPage(big)
  BY <1>1, <1>2, <1>3, <1>5, <1>6 DEF IsInternalPage
<1> QED
  BY <1>1, <1>3, <1>5, <1>6, <1>7 DEF HasMore

\* An internal page with a key and a child taken out.
LEMMA ShrunkPage ==
  ASSUME NEW pg, IsInternalPage(pg), NEW i \in 1 .. Len(pg.keys),
         NEW small, small = Internal(RemoveAt(pg.keys, i), RemoveAt(pg.children, i + 1))
  PROVE  HasMore(small, i, pg.keys[i], pg.children[i + 1], pg)
<1>1. Len(pg.keys) \in Nat /\ Len(pg.children) = Len(pg.keys) + 1 /\ pg.keys \in Seq(Keys) /\ pg.children \in Seq(Nat)
  BY DEF IsInternalPage
<1>2. small.keys = RemoveAt(pg.keys, i) /\ small.children = RemoveAt(pg.children, i + 1) /\ small.leaf = FALSE
        /\ small = Internal(small.keys, small.children)
  BY DEF Internal
<1>3. small.keys \in Seq(Keys) /\ PutIn(small.keys, i, pg.keys[i], pg.keys)
  BY <1>1, <1>2, Removed
<1>4. i + 1 \in 1 .. Len(pg.children)
  BY <1>1
<1>5. small.children \in Seq(Nat) /\ PutIn(small.children, i + 1, pg.children[i + 1], pg.children)
  BY <1>1, <1>2, <1>4, Removed
<1>6. Len(pg.keys) = Len(small.keys) + 1 /\ Len(pg.children) = Len(small.children) + 1
  BY <1>3, <1>5 DEF PutIn
<1>7. IsInternalPage(small)
  <2>1. Len(small.keys) \in Nat /\ Len(small.children) \in Nat
    BY <1>3, <1>5
  <2> QED
    BY <1>1, <1>2, <1>3, <1>5, <1>6, <2>1 DEF IsInternalPage
<1> QED
  BY <1>3, <1>5, <1>7 DEF HasMore

-----------------------------------------------------------------------------
(* The changes of the tree as the operations make them. *)

PageJoin(left, k, right, all) == LeafJoin(left, right, all) \/ InternalJoin(left, k, right, all)

\* left and right, which is to be page b, are what a page is split into at k.
PageHalves(left, k, right, all, b) ==
  /\ k \in Keys /\ PageJoin(left, k, right, all)
  /\ left.leaf => Len(left.entries) >= 1 /\ Len(right.entries) >= 1 /\ k = right.entries[1].key /\ left.next = b

SameBut(V, W, a) == \A p \in DOMAIN W : p # a => V[p] = W[p]

SameButTwo(V, W, a, u) == \A p \in DOMAIN W : p # u /\ p # a => V[p] = W[p]

\* A sequence with one element replaced.
LEMMA Altered ==
  ASSUME NEW S, NEW s \in Seq(S), NEW i \in 1 .. Len(s), NEW x \in S, NEW t, t = [s EXCEPT ![i] = x]
  PROVE  t \in Seq(S) /\ Len(t) = Len(s) /\ t[i] = x /\ \A j \in 1 .. Len(s) : j # i => t[j] = s[j]
OBVIOUS

\* A split is a merge seen backwards.
LEMMA SplitMerges ==
  ASSUME NEW W, NEW V, NEW u, NEW i, NEW a, NEW b, NEW k, IsChild(W, u, i, a), u \in DOMAIN W, a \in DOMAIN W, u # a,
         b \notin DOMAIN W, DOMAIN V = DOMAIN W \cup {b}, SameButTwo(V, W, a, u),
         HasMore(W[u], i, k, b, V[u]), PageHalves(V[a], k, V[b], W[a], b)
  PROVE  Merge(V, W, u, i, a, b) /\ SplitsEntries(V, u, i, a, b) /\ V[u].keys[i] = k
<1>1. V[u].keys[i] = k /\ V[u].children[i + 1] = b
  BY DEF HasMore, PutIn
<1>2. V[u].children[i] = a
  <2>1. i \in Nat \ {0} /\ W[u].children[i] = a
    BY InternalKind DEF HasMore, IsChild
  <2>2. i \in 1 .. (i + 1) - 1
    BY <2>1
  <2>3. PutIn(W[u].children, i + 1, b, V[u].children)
    BY DEF HasMore
  <2>4. V[u].children[i] = W[u].children[i]
    BY <2>2, <2>3 DEF PutIn
  <2> QED
    BY <2>1, <2>4
<1>3. \A p \in DOMAIN W : p # u /\ p # a => W[p] = V[p]
  BY DEF SameButTwo
<1>4. LeafJoin(V[a], V[b], W[a]) \/ InternalJoin(V[a], k, V[b], W[a])
  BY DEF PageHalves, PageJoin
<1>5. Merge(V, W, u, i, a, b)
  BY <1>1, <1>2, <1>3, <1>4 DEF Merge, HasMore
<1>6. SplitsEntries(V, u, i, a, b)
  BY <1>1 DEF SplitsEntries, PageHalves
<1> QED
  BY <1>1, <1>5, <1>6

NoKey(pg, k) == \A j \in 1 .. Len(pg.keys) : pg.keys[j] # k

\* Where the new key goes in the parent of a page that splits.
LEMMA SplitAt ==
  ASSUME NEW W, NEW rt, NEW h, NEW R, Tree(W, rt, h, R), NEW u \in DOMAIN W, NEW i, NEW a, IsChild(W, u, i, a),
         Len(W[u].keys) >= 1, NEW V, NEW b \in Nat, b \notin DOMAIN W, DOMAIN V = DOMAIN W \cup {b}, SameButTwo(V, W, a, u),
         NEW k, PageHalves(V[a], k, V[b], W[a], b), HasMore(W[u], i, k, b, V[u])
  PROVE  IsTree(V, rt) /\ LowerBound(W[u], k) = i /\ NoKey(W[u], k)
<1>1. a \in DOMAIN W /\ u # a
  BY ChildOfNode
<1>2. IsInternalPage(W[u]) /\ IsKeys(W[u].keys) /\ Len(W[u].keys) \in Nat /\ i \in 1 .. Len(W[u].keys) + 1
  BY InnerNode DEF IsChild
<1>3. k \in Keys /\ k \in Int
  BY TreeAssumption DEF PageHalves
<1>6. Merge(V, W, u, i, a, b) /\ SplitsEntries(V, u, i, a, b) /\ V[u].keys[i] = k
  BY <1>1, SplitMerges
<1>7. k \in R[a] /\ \E x \in R[a] : x < k
  BY <1>6, SplitPage
<1>8. /\ i > 1 => W[u].keys[i - 1] < k
      /\ i <= Len(W[u].keys) => k < W[u].keys[i]
  BY <1>7, SplitPlace
<1>9. \A j \in 1 .. Len(W[u].keys) : W[u].keys[j] \in Int /\ W[u].keys[j] # k
  <2> SUFFICES ASSUME NEW j \in 1 .. Len(W[u].keys)
               PROVE  W[u].keys[j] \in Int /\ W[u].keys[j] # k
    OBVIOUS
  <2>1. W[u].keys[j] \in Int
    BY <1>2 DEF IsKeys
  <2>2. CASE j < i
    <3>1. i > 1 /\ i - 1 \in 1 .. Len(W[u].keys) /\ (j = i - 1 \/ j < i - 1)
      BY <1>2, <2>2
    <3>2. W[u].keys[i - 1] \in Int /\ (j = i - 1 \/ W[u].keys[j] < W[u].keys[i - 1])
      BY <1>2, <3>1 DEF IsKeys, SortedKeys
    <3> QED
      BY <1>3, <1>8, <2>1, <3>1, <3>2
  <2>3. CASE ~(j < i)
    <3>1. i <= Len(W[u].keys) /\ i \in 1 .. Len(W[u].keys) /\ (j = i \/ i < j)
      BY <1>2, <2>3
    <3>2. W[u].keys[i] \in Int /\ (j = i \/ W[u].keys[i] < W[u].keys[j])
      BY <1>2, <3>1 DEF IsKeys, SortedKeys
    <3> QED
      BY <1>3, <1>8, <2>1, <3>1, <3>2
  <2> QED
    BY <2>2, <2>3
<1>10. LowerBound(W[u], k) = i
  <2>1. W[u].keys \in Seq(Keys)
    BY <1>2 DEF IsInternalPage
  <2>2. i <= Len(W[u].keys) => k <= W[u].keys[i]
    BY <1>2, <1>3, <1>8, <1>9
  <2> QED
    BY <1>2, <1>3, <1>8, <2>1, <2>2, LowerBoundAt
<1>14. IsTree(V, rt)
  BY <1>6, SplitTree DEF IsTree
<1> QED
  BY <1>9, <1>10, <1>14 DEF NoKey

\* A page that splits under its parent, which gets the new key and child.
LEMMA SplitUnder ==
  ASSUME NEW W, NEW rt, NEW h, NEW R, Tree(W, rt, h, R), NEW u \in DOMAIN W, NEW i, NEW a, IsChild(W, u, i, a),
         Len(W[u].keys) >= 1,
         NEW ps, NEW b \in Nat, b \notin DOMAIN W, DOMAIN ps = DOMAIN W \cup {b}, SameBut(ps, W, a),
         NEW k, PageHalves(ps[a], k, ps[b], W[a], b)
  PROVE  /\ IsTree([ps EXCEPT ![u] = Grown(@, k, b)], rt)
         /\ HasMore(W[u], i, k, b, Grown(ps[u], k, b)) /\ NoKey(W[u], k)
<1> DEFINE big == Internal(InsertAt(W[u].keys, i, k), InsertAt(W[u].children, i + 1, b))
           V == [ps EXCEPT ![u] = big]
<1>1. a \in DOMAIN W /\ u # a
  BY ChildOfNode
<1>2. IsInternalPage(W[u]) /\ i \in 1 .. Len(W[u].keys) + 1
  BY InnerNode DEF IsChild
<1>3. k \in Keys
  BY DEF PageHalves
<1>4. HasMore(W[u], i, k, b, big)
  BY <1>2, <1>3, GrownPage
<1> HIDE DEF big
<1>5. /\ DOMAIN V = DOMAIN W \cup {b} /\ V[u] = big /\ V[a] = ps[a] /\ V[b] = ps[b] /\ SameButTwo(V, W, a, u)
  BY <1>1 DEF SameBut, SameButTwo
<1> HIDE DEF V
<1>6. PageHalves(V[a], k, V[b], W[a], b) /\ HasMore(W[u], i, k, b, V[u])
  BY <1>4, <1>5
<1>7. IsTree(V, rt) /\ LowerBound(W[u], k) = i /\ NoKey(W[u], k)
  BY <1>5, <1>6, SplitAt
<1>8. ps[u] = W[u]
  BY <1>1 DEF SameBut
<1>9. Grown(ps[u], k, b) = big
  BY <1>7, <1>8 DEF Grown, big
<1>10. [ps EXCEPT ![u] = Grown(@, k, b)] = V
  BY <1>9 DEF V
<1> QED
  BY <1>4, <1>7, <1>9, <1>10

\* The page that is put above two halves of the old root.
LEMMA NewRoot ==
  ASSUME NEW l \in Nat, NEW r \in Nat, NEW k \in Keys, NEW pg, pg = Internal(<<k>>, <<l, r>>)
  PROVE  HasMore(Internal(<<>>, <<l>>), 1, k, r, pg)
<1>1. pg.keys = <<k>> /\ pg.children = <<l, r>> /\ pg.leaf = FALSE
  BY DEF Internal
<1> PICK s : s = <<k>>
  OBVIOUS
<1> PICK t : t = <<l, r>>
  OBVIOUS
<1>2. s \in Seq(Keys) /\ Len(s) = 1 /\ s[1] = k
  OBVIOUS
<1>3. t \in Seq(Nat) /\ Len(t) = 2 /\ t[1] = l /\ t[2] = r
  OBVIOUS
<1>4. IsInternalPage(pg)
  <2>1. pg = Internal(pg.keys, pg.children)
    BY <1>1
  <2>2. pg.keys = s /\ pg.children = t
    BY <1>1
  <2>3. Len(t) = Len(s) + 1
    BY <1>2, <1>3
  <2>4. pg.keys \in Seq(Keys) /\ pg.children \in Seq(Nat) /\ Len(pg.children) = Len(pg.keys) + 1
    BY <1>2, <1>3, <2>2, <2>3, Zenon
  <2> QED
    BY <1>1, <2>1, <2>4 DEF IsInternalPage
<1> PICK small : small = Internal(<<>>, <<l>>)
  OBVIOUS
<1>5. small.keys = <<>> /\ small.children = <<l>> /\ small.leaf = FALSE /\ small = Internal(small.keys, small.children)
  BY DEF Internal
<1>6. IsInternalPage(small)
  <2>1. <<l>> \in Seq(Nat) /\ Len(<<l>>) = 1
    OBVIOUS
  <2>0. <<>> \in Seq(Keys) /\ Len(<<l>>) = Len(<<>>) + 1
    OBVIOUS
  <2>2. small.keys \in Seq(Keys) /\ small.children \in Seq(Nat) /\ Len(small.children) = Len(small.keys) + 1
    BY <1>5, <2>0, <2>1, Zenon
  <2> QED
    BY <1>5, <2>2 DEF IsInternalPage
<1>7. PutIn(<<>>, 1, k, s) /\ PutIn(<<l>>, 1 + 1, r, t)
  BY <1>2, <1>3 DEF PutIn
<1>8. 1 \in 1 .. Len(s)
  BY <1>2
<1>9. pg.keys = s /\ pg.children = t
  BY <1>1
<1> QED
  BY <1>4, <1>5, <1>6, <1>7, <1>8, <1>9 DEF HasMore

\* The root splits and a new one is put above its halves.
LEMMA SplitRoot ==
  ASSUME NEW W, NEW rt, NEW h, NEW R, Tree(W, rt, h, R),
         NEW ps, NEW b \in Nat, NEW top \in Nat, b \notin DOMAIN W, top \notin DOMAIN W, b # top,
         DOMAIN ps = DOMAIN W \cup {b, top}, SameBut(ps, W, rt),
         NEW k, PageHalves(ps[rt], k, ps[b], W[rt], b), ps[top] = Internal(<<k>>, <<rt, b>>)
  PROVE  IsTree(ps, top)
<1> DEFINE small == Internal(<<>>, <<rt>>)
           U == [p \in DOMAIN W \cup {top} |-> IF p = top THEN small ELSE W[p]]
<1>1. rt \in DOMAIN W /\ rt \in Nat /\ rt # top /\ rt # b
  BY DEF Tree
<1>2. k \in Keys
  BY DEF PageHalves
<1>3. small.keys = <<>> /\ small.children = <<rt>> /\ small.leaf = FALSE /\ small = Internal(small.keys, small.children)
  BY DEF Internal
<1> HIDE DEF small
<1>5. IsInternalPage(small)
  BY <1>1, <1>3 DEF IsInternalPage
<1>7. HasMore(small, 1, k, b, ps[top])
  BY <1>1, <1>2, NewRoot DEF small
<1>8. DOMAIN U = DOMAIN W \cup {top} /\ U[top] = small /\ \A p \in DOMAIN W : U[p] = W[p]
  OBVIOUS
<1> HIDE DEF U
<1>9. Above(W, U, top, rt)
  <2>1. Len(small.keys) = 0 /\ small.children[1] = rt
    BY <1>3
  <2> QED
    BY <1>5, <1>8, <2>1 DEF Above
<1>10. PICK g, Q : Tree(U, top, g, Q)
  BY <1>9, GrowTree DEF IsTree
<1>11. IsChild(U, top, 1, rt)
  BY <1>3, <1>8 DEF IsChild
<1>12. /\ DOMAIN ps = DOMAIN U \cup {b} /\ top \in DOMAIN U /\ rt \in DOMAIN U /\ b \notin DOMAIN U /\ U[rt] = W[rt]
       /\ SameButTwo(ps, U, rt, top)
  BY <1>1, <1>8 DEF SameBut, SameButTwo
<1>13. Merge(ps, U, top, 1, rt, b) /\ SplitsEntries(ps, top, 1, rt, b)
  <2>1. HasMore(U[top], 1, k, b, ps[top]) /\ PageHalves(ps[rt], k, ps[b], U[rt], b)
    BY <1>7, <1>8, <1>12
  <2> QED
    BY <1>1, <1>11, <1>12, <2>1, SplitMerges
<1> QED
  BY <1>10, <1>13, SplitTree DEF IsTree

MergesInto(V, ps, u, i, a, b) ==
  DOMAIN ps = DOMAIN V \ {b} /\ SameBut(V, ps, a) /\ PageJoin(V[a], V[u].keys[i], V[b], ps[a])

MergeOutcome(V, rt, ps, u, i, a, b) ==
  /\ IsTree([ps EXCEPT ![u] = Shrunk(@, V[u].keys[i])], rt)
  /\ HasMore(Shrunk(ps[u], V[u].keys[i]), i, V[u].keys[i], b, V[u])
  /\ i \in 1 .. Len(V[u].keys) /\ u # a /\ u # b /\ a # b /\ b # rt
  /\ V[a].leaf => V[a].next = b

\* Two neighbours are made one and their parent is left to lose the key between them.
LEMMA MergeUnder ==
  ASSUME NEW V, NEW rt, NEW h, NEW R, Tree(V, rt, h, R), NEW u \in DOMAIN V, NEW i, NEW a, NEW b,
         IsChild(V, u, i, a), IsChild(V, u, i + 1, b),
         NEW ps, MergesInto(V, ps, u, i, a, b)
  PROVE  MergeOutcome(V, rt, ps, u, i, a, b)
<1> DEFINE k == V[u].keys[i]
           small == Internal(RemoveAt(V[u].keys, i), RemoveAt(V[u].children, i + 1))
           W == [ps EXCEPT ![u] = small]
<1>0. DOMAIN ps = DOMAIN V \ {b} /\ SameBut(V, ps, a) /\ PageJoin(V[a], V[u].keys[i], V[b], ps[a])
  BY DEF MergesInto
<1>1. a \in DOMAIN V /\ b \in DOMAIN V /\ u # a /\ u # b /\ i \in Nat \ {0} /\ i + 1 \in Nat /\ b # rt
  BY ChildOfNode
<1>2. a # b
  <2> SUFFICES ASSUME a = b PROVE FALSE
    OBVIOUS
  <2>1. i = i + 1
    BY OneParent
  <2> QED
    BY <1>1, <2>1
<1>3. IsInternalPage(V[u]) /\ IsKeys(V[u].keys) /\ Len(V[u].keys) \in Nat /\ i \in 1 .. Len(V[u].keys)
        /\ V[u].children[i] = a /\ V[u].children[i + 1] = b /\ V[u].leaf = FALSE
  <2>1. IsInternalPage(V[u]) /\ IsKeys(V[u].keys) /\ Len(V[u].keys) \in Nat /\ Len(V[u].children) = Len(V[u].keys) + 1
          /\ V[u].leaf = FALSE
    BY InnerNode, InternalKind DEF IsChild
  <2>2. i + 1 \in 1 .. Len(V[u].children) /\ V[u].children[i] = a /\ V[u].children[i + 1] = b
    BY DEF IsChild
  <2> QED
    BY <1>1, <2>1, <2>2
<1>4. HasMore(small, i, k, b, V[u])
  BY <1>3, ShrunkPage
<1> HIDE DEF small
<1>5. /\ DOMAIN W = DOMAIN V \ {b} /\ W[u] = small /\ W[a] = ps[a]
      /\ \A p \in DOMAIN W : p # u /\ p # a => W[p] = V[p]
  BY <1>0, <1>1 DEF SameBut
<1> HIDE DEF W
<1>6. Merge(V, W, u, i, a, b)
  <2>1. LeafJoin(V[a], V[b], W[a]) \/ InternalJoin(V[a], k, V[b], W[a])
    BY <1>0, <1>5 DEF PageJoin
  <2>2. DOMAIN V = DOMAIN W \cup {b} /\ u \in DOMAIN W /\ a \in DOMAIN W /\ b \notin DOMAIN W
    BY <1>1, <1>2, <1>5
  <2>3. /\ IsInternalPage(W[u]) /\ PutIn(W[u].keys, i, k, V[u].keys) /\ PutIn(W[u].children, i + 1, b, V[u].children)
    BY <1>4, <1>5 DEF HasMore
  <2> QED
    BY <1>1, <1>3, <1>5, <2>1, <2>2, <2>3 DEF Merge
<1>7. IsTree(W, rt)
  BY <1>6, MergeTree DEF IsTree
<1>8. LowerBound(V[u], k) = i
  <2>1. V[u].keys \in Seq(Keys) /\ k \in Int /\ k <= V[u].keys[i]
    BY <1>3 DEF IsInternalPage, IsKeys
  <2>2. i > 1 => V[u].keys[i - 1] < k
    BY <1>3 DEF IsKeys, SortedKeys
  <2>3. Len(V[u].keys) >= 1 /\ i \in 1 .. Len(V[u].keys) + 1
    BY <1>3
  <2> QED
    BY <1>3, <2>1, <2>2, <2>3, LowerBoundAt
<1>9. ps[u] = V[u]
  BY <1>0, <1>1 DEF SameBut
<1>10. Shrunk(ps[u], k) = small
  BY <1>8, <1>9 DEF Shrunk, small
<1>11. [ps EXCEPT ![u] = Shrunk(@, k)] = W
  BY <1>10 DEF W
<1>12. V[a].leaf => V[a].next = b
  BY <1>6, NeighbourNext
<1> QED
  BY <1>1, <1>2, <1>3, <1>4, <1>7, <1>10, <1>11, <1>12 DEF MergeOutcome

SameButThree(V, W, a, b, u) == \A p \in DOMAIN W : p # a /\ p # b /\ p # u => V[p] = W[p]

\* The border between two neighbours is moved.
LEMMA LendUnder ==
  ASSUME NEW V, NEW rt, NEW h, NEW R, Tree(V, rt, h, R), NEW u \in DOMAIN V, NEW i, NEW a, NEW b,
         IsChild(V, u, i, a), IsChild(V, u, i + 1, b),
         NEW ps, DOMAIN ps = DOMAIN V, SameButThree(ps, V, a, b, u),
         NEW k, NEW all, PageJoin(V[a], V[u].keys[i], V[b], all), PageHalves(ps[a], k, ps[b], all, b),
         ps[u] = Internal([V[u].keys EXCEPT ![i] = k], V[u].children)
  PROVE  IsTree(ps, rt)
<1> DEFINE old == V[u].keys[i]
           small == Internal(RemoveAt(V[u].keys, i), RemoveAt(V[u].children, i + 1))
           W == [p \in DOMAIN V \ {b} |-> IF p = u THEN small ELSE IF p = a THEN all ELSE V[p]]
<1>1. a \in DOMAIN V /\ b \in DOMAIN V /\ u # a /\ u # b /\ i \in Nat \ {0} /\ b # rt
  BY ChildOfNode
<1>2. a # b
  <2> SUFFICES ASSUME a = b PROVE FALSE
    OBVIOUS
  <2>1. i = i + 1
    BY OneParent
  <2> QED
    BY <1>1, <2>1
<1>3. IsInternalPage(V[u]) /\ IsKeys(V[u].keys) /\ Len(V[u].keys) \in Nat /\ i \in 1 .. Len(V[u].keys)
        /\ V[u].children[i] = a /\ V[u].children[i + 1] = b /\ V[u].leaf = FALSE /\ Len(V[u].children) = Len(V[u].keys) + 1
  <2>1. IsInternalPage(V[u]) /\ IsKeys(V[u].keys) /\ Len(V[u].keys) \in Nat /\ Len(V[u].children) = Len(V[u].keys) + 1
          /\ V[u].leaf = FALSE
    BY InnerNode, InternalKind DEF IsChild
  <2>2. i + 1 \in 1 .. Len(V[u].children) /\ V[u].children[i] = a /\ V[u].children[i + 1] = b
    BY DEF IsChild
  <2> QED
    BY <1>1, <2>1, <2>2
<1>4. HasMore(small, i, old, b, V[u])
  BY <1>3, ShrunkPage
<1> HIDE DEF small
<1>5. /\ DOMAIN W = DOMAIN V \ {b} /\ W[u] = small /\ W[a] = all
      /\ \A p \in DOMAIN W : p # u /\ p # a => W[p] = V[p]
  BY <1>1, <1>2
<1> HIDE DEF W
<1>6. DOMAIN V = DOMAIN W \cup {b} /\ u \in DOMAIN W /\ a \in DOMAIN W /\ b \notin DOMAIN W
  BY <1>1, <1>2, <1>5
<1>7. Merge(V, W, u, i, a, b)
  <2>1. LeafJoin(V[a], V[b], W[a]) \/ InternalJoin(V[a], old, V[b], W[a])
    BY <1>5 DEF PageJoin
  <2>2. /\ IsInternalPage(W[u]) /\ PutIn(W[u].keys, i, old, V[u].keys) /\ PutIn(W[u].children, i + 1, b, V[u].children)
    BY <1>4, <1>5 DEF HasMore
  <2> QED
    BY <1>1, <1>3, <1>5, <1>6, <2>1, <2>2 DEF Merge
<1>8. PICK g, Q : Tree(W, rt, g, Q)
  BY <1>7, MergeTree DEF IsTree
<1>9. ps[u].keys = [V[u].keys EXCEPT ![i] = k] /\ ps[u].children = V[u].children /\ ps[u].leaf = FALSE
        /\ ps[u] = Internal(ps[u].keys, ps[u].children)
  BY DEF Internal
<1>10. HasMore(small, i, k, b, ps[u])
  <2>1. k \in Keys
    BY DEF PageHalves
  <2>2. V[u].keys \in Seq(Keys) /\ V[u].children \in Seq(Nat)
    BY <1>3 DEF IsInternalPage
  <2> PICK new : new = [V[u].keys EXCEPT ![i] = k]
    OBVIOUS
  <2>0. new \in Seq(Keys) /\ Len(new) = Len(V[u].keys) /\ new[i] = k /\ \A j \in 1 .. Len(V[u].keys) : j # i => new[j] = V[u].keys[j]
    BY <1>3, <2>1, <2>2, Altered
  <2>3. /\ ps[u].keys \in Seq(Keys) /\ Len(ps[u].keys) = Len(V[u].keys) /\ ps[u].keys[i] = k
        /\ \A j \in 1 .. Len(V[u].keys) : j # i => ps[u].keys[j] = V[u].keys[j]
    BY <1>9, <2>0
  <2>4. IsInternalPage(ps[u])
    BY <1>3, <1>9, <2>2, <2>3 DEF IsInternalPage
  <2>5. /\ i \in 1 .. Len(small.keys) + 1 /\ Len(V[u].keys) = Len(small.keys) + 1 /\ Len(small.keys) \in Nat
        /\ \A j \in 1 .. i - 1 : V[u].keys[j] = small.keys[j]
        /\ \A j \in i .. Len(small.keys) : V[u].keys[j + 1] = small.keys[j]
    BY <1>4, InternalKind DEF HasMore, PutIn
  <2>6. \A j \in 1 .. i - 1 : j \in 1 .. Len(V[u].keys) /\ j # i
    BY <1>3
  <2>7. \A j \in i .. Len(small.keys) : j + 1 \in 1 .. Len(V[u].keys) /\ j + 1 # i
    BY <1>3, <2>5
  <2>8. PutIn(small.keys, i, k, ps[u].keys)
    BY <2>3, <2>5, <2>6, <2>7 DEF PutIn
  <2> QED
    BY <1>3, <1>4, <1>9, <2>3, <2>4, <2>8 DEF HasMore
<1>11. IsChild(W, u, i, a)
  <2>1. i \in 1 .. (i + 1) - 1
    BY <1>1
  <2>2. PutIn(small.children, i + 1, b, V[u].children) /\ IsInternalPage(small)
    BY <1>4 DEF HasMore
  <2>3. small.children[i] = a /\ i \in 1 .. Len(small.children)
    <3>1. V[u].children[i] = small.children[i] /\ i + 1 \in 1 .. Len(small.children) + 1 /\ Len(small.children) \in Nat
      BY <2>1, <2>2, InternalKind DEF PutIn
    <3> QED
      BY <1>1, <1>3, <3>1
  <2> QED
    BY <1>5, <2>2, <2>3, InternalKind DEF IsChild
<1>12. SameButTwo(ps, W, a, u)
  BY <1>5 DEF SameButTwo, SameButThree
<1>13. DOMAIN ps = DOMAIN W \cup {b}
  BY <1>6
<1>14. Merge(ps, W, u, i, a, b) /\ SplitsEntries(ps, u, i, a, b)
  <2>1. HasMore(W[u], i, k, b, ps[u]) /\ PageHalves(ps[a], k, ps[b], W[a], b)
    BY <1>5, <1>10
  <2> QED
    BY <1>1, <1>6, <1>11, <1>12, <1>13, <2>1, SplitMerges
<1>15. b \in Nat
  BY <1>1 DEF Tree
<1> QED
  BY <1>8, <1>14, <1>15, SplitTree DEF IsTree

-----------------------------------------------------------------------------
(* What the leaves hold. *)

HasElement(s, e) == \E j \in 1 .. Len(s) : s[j] = e

\* Page pg is a leaf with entry e.
HoldsEntry(pg, e) == pg.leaf = TRUE /\ HasElement(pg.entries, e)

HasEntry(V, e) == \E p \in DOMAIN V : HoldsEntry(V[p], e)

SameEntries(V, W) == \A e : HasEntry(V, e) <=> HasEntry(W, e)

\* What is in one sequence after another.
LEMMA JoinedElements ==
  ASSUME NEW l, NEW r, NEW a, Len(l) \in Nat, Len(r) \in Nat, Joins(l, r, a), NEW e
  PROVE  HasElement(a, e) <=> HasElement(l, e) \/ HasElement(r, e)
<1>1. \A m, n \in Nat : \A j \in 1 .. m + n : ~(j \in 1 .. m) => j - m \in 1 .. n /\ m + (j - m) = j
  OBVIOUS
<1>2. \A m, n \in Nat : (\A j \in 1 .. m : j \in 1 .. m + n) /\ (\A j \in 1 .. n : m + j \in 1 .. m + n)
  OBVIOUS
<1>3. /\ Len(a) = Len(l) + Len(r)
      /\ \A j \in 1 .. Len(l) : a[j] = l[j]
      /\ \A j \in 1 .. Len(r) : a[Len(l) + j] = r[j]
  BY DEF Joins
<1> PICK m, n : m = Len(l) /\ n = Len(r)
  OBVIOUS
<1>4. /\ m \in Nat /\ n \in Nat /\ Len(a) = m + n
      /\ \A j \in 1 .. m : a[j] = l[j]
      /\ \A j \in 1 .. n : a[m + j] = r[j]
  BY <1>3
<1>5. ASSUME NEW j \in 1 .. m PROVE j \in 1 .. Len(a) /\ a[j] = l[j]
  BY <1>2, <1>4
<1>6. ASSUME NEW j \in 1 .. n PROVE m + j \in 1 .. Len(a) /\ a[m + j] = r[j]
  BY <1>2, <1>4
<1>7. ASSUME NEW j \in 1 .. Len(a), ~(j \in 1 .. m) PROVE \E i \in 1 .. n : a[j] = r[i]
  <2>1. j - m \in 1 .. n /\ m + (j - m) = j
    BY <1>1, <1>4, <1>7
  <2>2. a[m + (j - m)] = r[j - m]
    BY <1>4, <2>1
  <2> QED
    BY <2>1, <2>2
<1>8. (\E j \in 1 .. Len(a) : a[j] = e) <=> (\E j \in 1 .. m : l[j] = e) \/ (\E j \in 1 .. n : r[j] = e)
  <2>1. ASSUME NEW j \in 1 .. Len(a), a[j] = e PROVE (\E i \in 1 .. m : l[i] = e) \/ (\E i \in 1 .. n : r[i] = e)
    BY <1>5, <1>7, <2>1
  <2>2. ASSUME NEW j \in 1 .. m, l[j] = e PROVE \E i \in 1 .. Len(a) : a[i] = e
    BY <1>5, <2>2
  <2>3. ASSUME NEW j \in 1 .. n, r[j] = e PROVE \E i \in 1 .. Len(a) : a[i] = e
    BY <1>6, <2>3
  <2> QED
    BY <2>1, <2>2, <2>3
<1> QED
  BY <1>8 DEF HasElement

\* A leaf made of two holds what they hold.
LEMMA LeafJoinHolds ==
  ASSUME NEW left, NEW right, NEW all, LeafJoin(left, right, all), NEW e
  PROVE  HoldsEntry(all, e) <=> HoldsEntry(left, e) \/ HoldsEntry(right, e)
<1>1. left.leaf = TRUE /\ right.leaf = TRUE /\ all.leaf = TRUE /\ Joins(left.entries, right.entries, all.entries)
  BY DEF LeafJoin, IsLeafPage
<1>2. Len(left.entries) \in Nat /\ Len(right.entries) \in Nat
  BY LeafKind DEF LeafJoin
<1>3. HasElement(all.entries, e) <=> HasElement(left.entries, e) \/ HasElement(right.entries, e)
  BY <1>1, <1>2, JoinedElements
<1> QED
  BY <1>1, <1>3 DEF HoldsEntry

\* So does a page made of two of any kind.
LEMMA PageJoinHolds ==
  ASSUME NEW left, NEW k, NEW right, NEW all, PageJoin(left, k, right, all), NEW e
  PROVE  HoldsEntry(all, e) <=> HoldsEntry(left, e) \/ HoldsEntry(right, e)
<1>1. CASE LeafJoin(left, right, all)
  BY <1>1, LeafJoinHolds
<1>2. CASE InternalJoin(left, k, right, all)
  <2>1. left.leaf = FALSE /\ right.leaf = FALSE /\ all.leaf = FALSE
    BY <1>2, InternalKind DEF InternalJoin
  <2> QED
    BY <2>1 DEF HoldsEntry
<1> QED
  BY <1>1, <1>2 DEF PageJoin

\* An internal page holds no entry.
LEMMA InternalHolds ==
  ASSUME NEW pg, pg.leaf = FALSE, NEW e
  PROVE  ~HoldsEntry(pg, e)
BY DEF HoldsEntry

\* Where two sets of pages differ in one page without entries, they hold the same.
LEMMA SameOutside ==
  ASSUME NEW V, NEW W, NEW u, DOMAIN V = DOMAIN W, SameBut(V, W, u), V[u].leaf = FALSE, W[u].leaf = FALSE
  PROVE  SameEntries(V, W)
BY DEF SameEntries, HasEntry, HoldsEntry, SameBut

\* What holds the same as what holds the same holds the same.
LEMMA EntriesTransitive ==
  ASSUME NEW U, NEW V, NEW W, SameEntries(U, V), SameEntries(V, W)
  PROVE  SameEntries(U, W)
BY DEF SameEntries

\* A page without entries is put in.
LEMMA AddedHolds ==
  ASSUME NEW V, NEW W, NEW p, p \notin DOMAIN V, DOMAIN W = DOMAIN V \cup {p}, \A q \in DOMAIN V : W[q] = V[q],
         W[p].leaf = FALSE
  PROVE  SameEntries(V, W)
BY DEF SameEntries, HasEntry, HoldsEntry

\* A page without entries is given back.
LEMMA DroppedHolds ==
  ASSUME NEW V, NEW W, NEW p, W = WithoutPage(V, p), V[p].leaf = FALSE
  PROVE  SameEntries(V, W)
<1>1. DOMAIN W = DOMAIN V \ {p} /\ \A q \in DOMAIN W : W[q] = V[q]
  BY DEF WithoutPage, Restrict
<1> QED
  BY <1>1 DEF SameEntries, HasEntry, HoldsEntry

\* A page splits.
LEMMA SplitHolds ==
  ASSUME NEW W, NEW V, NEW a, NEW b, NEW k, a \in DOMAIN W, b \notin DOMAIN W, DOMAIN V = DOMAIN W \cup {b},
         SameBut(V, W, a), PageJoin(V[a], k, V[b], W[a])
  PROVE  SameEntries(W, V)
<1> SUFFICES ASSUME NEW e PROVE HasEntry(W, e) <=> HasEntry(V, e)
  BY DEF SameEntries
<1>1. HoldsEntry(W[a], e) <=> HoldsEntry(V[a], e) \/ HoldsEntry(V[b], e)
  BY PageJoinHolds
<1>2. \A p \in DOMAIN W : p # a => V[p] = W[p]
  BY DEF SameBut
<1> QED
  BY <1>1, <1>2 DEF HasEntry

\* Two neighbours merge.
LEMMA MergeHolds ==
  ASSUME NEW V, NEW ps, NEW u, NEW i, NEW a, NEW b, MergesInto(V, ps, u, i, a, b), a # b, a \in DOMAIN V, b \in DOMAIN V
  PROVE  SameEntries(V, ps)
<1> SUFFICES ASSUME NEW e PROVE HasEntry(V, e) <=> HasEntry(ps, e)
  BY DEF SameEntries
<1>1. DOMAIN ps = DOMAIN V \ {b} /\ SameBut(V, ps, a) /\ PageJoin(V[a], V[u].keys[i], V[b], ps[a])
  BY DEF MergesInto
<1>2. HoldsEntry(ps[a], e) <=> HoldsEntry(V[a], e) \/ HoldsEntry(V[b], e)
  BY <1>1, PageJoinHolds
<1>3. \A p \in DOMAIN ps : p # a => V[p] = ps[p]
  BY <1>1 DEF SameBut
<1> QED
  BY <1>1, <1>2, <1>3 DEF HasEntry

\* Two neighbours share what they hold anew.
LEMMA LoanHolds ==
  ASSUME NEW V, NEW W, NEW a, NEW b, NEW u, DOMAIN W = DOMAIN V, SameButThree(W, V, a, b, u),
         a \in DOMAIN V, b \in DOMAIN V, u \in DOMAIN V, u # a, u # b, a # b, V[u].leaf = FALSE, W[u].leaf = FALSE,
         NEW all, NEW j, NEW k, PageJoin(V[a], j, V[b], all), PageJoin(W[a], k, W[b], all)
  PROVE  SameEntries(V, W)
<1> SUFFICES ASSUME NEW e PROVE HasEntry(V, e) <=> HasEntry(W, e)
  BY DEF SameEntries
<1>1. HoldsEntry(V[a], e) \/ HoldsEntry(V[b], e) <=> HoldsEntry(W[a], e) \/ HoldsEntry(W[b], e)
  BY PageJoinHolds
<1>2. ~HoldsEntry(V[u], e) /\ ~HoldsEntry(W[u], e)
  BY InternalHolds
<1>3. \A p \in DOMAIN V : p # a /\ p # b /\ p # u => W[p] = V[p]
  BY DEF SameButThree
<1> QED
  BY <1>1, <1>2, <1>3 DEF HasEntry

-----------------------------------------------------------------------------
(* The leaves, joined along their links. *)

LeavesOf(ps) == {p \in DOMAIN ps : ps[p].leaf}

EntriesIn(ps, S) == UNION {Range(ps[p].entries) : p \in S}

\* The entries of all leaves.
Held(ps) == EntriesIn(ps, LeavesOf(ps))

\* f joins the items met from x on.
LinksJoin(D, item, stop, nxt, f) == f = [x \in D |-> item[x] \o (IF stop[x] THEN <<>> ELSE f[nxt[x]])]

\* Following links that lead to what measures less comes to an end.
LEMMA LinksFollowed ==
  ASSUME NEW D, NEW T, NEW item, \A x \in D : item[x] \in Seq(T), NEW stop, NEW nxt,
         NEW m, NEW N \in Nat, \A x \in D : m[x] \in Nat /\ m[x] < N,
         \A x \in D : ~stop[x] => nxt[x] \in D /\ m[nxt[x]] < m[x]
  PROVE  \E f : LinksJoin(D, item, stop, nxt, f)
<1> DEFINE X == Seq(T)
           body(x, f) == item[x] \o (IF stop[x] THEN <<>> ELSE f[nxt[x]])
           G == [xf \in D \X [D -> X] |-> body(xf[1], xf[2])]
<1>1. \A x \in D, f \in [D -> X] : G[<<x, f>>] = body(x, f) /\ body(x, f) \in X
  <2> SUFFICES ASSUME NEW x \in D, NEW f \in [D -> X] PROVE G[<<x, f>>] = body(x, f) /\ body(x, f) \in X
    OBVIOUS
  <2>1. G[<<x, f>>] = body(x, f)
    OBVIOUS
  <2>2. item[x] \in Seq(T)
    OBVIOUS
  <2>3. CASE stop[x]
    <3>1. body(x, f) = item[x] \o <<>>
      BY <2>3
    <3>2. item[x] \o <<>> \in Seq(T)
      BY <2>2
    <3> HIDE DEF body, G
    <3> QED
      BY <2>1, <3>1, <3>2
  <2>4. CASE ~stop[x]
    <3>1. f[nxt[x]] \in Seq(T)
      BY <2>4
    <3>2. body(x, f) = item[x] \o f[nxt[x]]
      BY <2>4
    <3>3. item[x] \o f[nxt[x]] \in Seq(T)
      BY <2>2, <3>1
    <3> QED
      BY <2>1, <3>2, <3>3
  <2> QED
    BY <2>3, <2>4
<1>2. LooksBelow(D, X, m, G)
  <2>1. G \in [D \X [D -> X] -> X]
    BY <1>1
  <2>2. ASSUME NEW x \in D, NEW f \in [D -> X], NEW g \in [D -> X], \A y \in D : m[y] < m[x] => f[y] = g[y]
        PROVE  G[<<x, f>>] = G[<<x, g>>]
    <3>1. ~stop[x] => f[nxt[x]] = g[nxt[x]]
      BY <2>2
    <3>2. body(x, f) = body(x, g)
      BY <3>1
    <3> QED
      BY <1>1, <3>2
  <2> HIDE DEF X, G
  <2> QED
    BY <2>1, <2>2 DEF LooksBelow
<1>3. X # {}
  <2>1. <<>> \in X
    OBVIOUS
  <2> QED
    BY <2>1
<1>4. Solvable(D, X, G)
  <2> HIDE DEF X, G
  <2> QED
    BY <1>2, <1>3, Recursion
<1> PICK f \in [D -> X] : \A x \in D : f[x] = G[<<x, f>>]
  BY <1>4 DEF Solvable
<1>5. \A x \in D : f[x] = body(x, f)
  BY <1>1
<1>6. f = [x \in D |-> body(x, f)]
  BY <1>5
<1> QED
  BY <1>6 DEF LinksJoin

\* What the leaves and their regions are in a tree.
LeafRegions(ps, R) ==
  /\ IsFiniteSet(LeavesOf(ps))
  /\ \A p \in LeavesOf(ps) : LeafIn(ps[p], R[p]) /\ IsRegion(R[p])
  /\ \A p, q \in LeavesOf(ps), x \in Int : x \in R[p] /\ x \in R[q] => p = q
  /\ \A p \in LeavesOf(ps) :
       IF ps[p].next = NoPage THEN Unbounded(R[p]) ELSE ps[p].next \in LeavesOf(ps) /\ Adjacent(R[p], R[ps[p].next])

\* The leaves of a tree, seen in pages that differ from it elsewhere.
LEMMA TreeLeaves ==
  ASSUME NEW V, NEW rt, NEW h, NEW R, Tree(V, rt, h, R), NEW ps, DOMAIN ps = DOMAIN V,
         \A p \in DOMAIN ps : (V[p].leaf <=> ps[p].leaf) /\ (ps[p].leaf => ps[p] = V[p])
  PROVE  LeafRegions(ps, R)
<1>1. IsFiniteSet(LeavesOf(ps))
  <2>1. LeavesOf(ps) \subseteq DOMAIN V /\ IsFiniteSet(DOMAIN V)
    BY DEF LeavesOf, Tree
  <2> QED
    BY <2>1, FS_Subset
<1>2. ASSUME NEW p \in LeavesOf(ps)
      PROVE  p \in DOMAIN V /\ ps[p] = V[p] /\ V[p].leaf /\ h[p] = 0 /\ LeafIn(V[p], R[p]) /\ IsRegion(R[p])
  <2>1. p \in DOMAIN V /\ ps[p] = V[p] /\ V[p].leaf
    BY DEF LeavesOf
  <2>2. Node(V, h, R, p) /\ h[p] = 0
    BY <2>1, TreeNode
  <2>3. LeafIn(V[p], R[p]) /\ IsRegion(R[p])
    BY <2>1, <2>2, LeafNode DEF Node
  <2> QED
    BY <2>1, <2>2, <2>3
<1>3. ASSUME NEW p \in LeavesOf(ps), NEW q \in LeavesOf(ps), NEW x \in Int, x \in R[p], x \in R[q]
      PROVE  p = q
  BY <1>2, <1>3, SamePage
<1>4. ASSUME NEW p \in LeavesOf(ps)
      PROVE  IF ps[p].next = NoPage THEN Unbounded(R[p]) ELSE ps[p].next \in LeavesOf(ps) /\ Adjacent(R[p], R[ps[p].next])
  <2>1. p \in DOMAIN V /\ ps[p] = V[p] /\ V[p].leaf
    BY <1>2
  <2>2. Linked(V, R, p)
    BY <2>1 DEF Tree, Links
  <2> QED
    BY <2>1, <2>2 DEF Linked, LeavesOf
<1> QED
  BY <1>1, <1>2, <1>3, <1>4 DEF LeafRegions

After(A, B) == \A x \in A, z \in B : x < z

\* The leaves whose regions lie after that of p.
Beyond(ps, R, p) == {q \in LeavesOf(ps) : After(R[p], R[q])}

\* What LeafRegions says of one leaf.
LEMMA OneLeaf ==
  ASSUME NEW ps, NEW R, LeafRegions(ps, R), NEW p \in LeavesOf(ps)
  PROVE  /\ p \in DOMAIN ps /\ IsLeafPage(ps[p]) /\ ps[p].entries \in Seq(Entry) /\ LeafIn(ps[p], R[p])
         /\ R[p] \in SUBSET Int /\ R[p] # {} /\ Convex(R[p])
<1>1. LeafIn(ps[p], R[p]) /\ IsRegion(R[p])
  BY DEF LeafRegions
<1> QED
  BY <1>1 DEF LeavesOf, LeafIn, IsLeafPage, IsRegion

\* Where no leaf comes next, none lies beyond.
LEMMA NoneBeyond ==
  ASSUME NEW ps, NEW R, LeafRegions(ps, R), NEW p \in LeavesOf(ps), ps[p].next = NoPage
  PROVE  Beyond(ps, R, p) = {}
<1> SUFFICES ASSUME NEW q \in LeavesOf(ps), After(R[p], R[q]) PROVE FALSE
  BY DEF Beyond
<1>1. Unbounded(R[p])
  BY DEF LeafRegions
<1>2. PICK x \in R[p], z \in R[q] : x \in Int /\ z \in Int
  BY OneLeaf
<1>3. x < z
  BY DEF After
<1>4. z \in R[p]
  BY <1>1, <1>2, <1>3 DEF Unbounded
<1>5. z < z
  BY <1>4 DEF After
<1> QED
  BY <1>2, <1>5

\* The leaves beyond a leaf are the next one and those beyond it.
LEMMA NextBeyond ==
  ASSUME NEW ps, NEW R, LeafRegions(ps, R), NEW p \in LeavesOf(ps), NEW q, q = ps[p].next, q # NoPage
  PROVE  /\ q \in LeavesOf(ps) /\ q \in Beyond(ps, R, p) /\ q \notin Beyond(ps, R, q)
         /\ Beyond(ps, R, p) = {q} \cup Beyond(ps, R, q)
<1>1. q \in LeavesOf(ps) /\ Adjacent(R[p], R[q])
  BY DEF LeafRegions
<1>2. After(R[p], R[q])
  BY <1>1 DEF Adjacent, After
<1>3. ~After(R[q], R[q])
  <2>1. PICK x \in R[q] : x \in Int
    BY <1>1, OneLeaf
  <2>2. ~(x < x)
    BY <2>1
  <2> QED
    BY <2>2 DEF After
<1>4. ASSUME NEW r \in LeavesOf(ps), After(R[p], R[r]), r # q
      PROVE  After(R[q], R[r])
  <2> SUFFICES ASSUME NEW x \in R[q], NEW z \in R[r], ~(x < z) PROVE FALSE
    BY DEF After
  <2>1. x \in Int /\ z \in Int
    BY <1>1, OneLeaf
  <2>2. PICK y \in R[p] : y \in Int
    BY OneLeaf
  <2>3. y < z
    BY <1>4 DEF After
  <2>4. x # z
    BY <1>1, <1>4, <2>1 DEF LeafRegions
  <2>5. z < x
    BY <2>1, <2>4
  <2>6. z \in R[p] \/ z \in R[q]
    BY <1>1, <2>1, <2>2, <2>3, <2>5 DEF Adjacent
  <2>7. z \notin R[q]
    BY <1>1, <1>4, <2>1 DEF LeafRegions
  <2>8. z < z
    BY <1>4, <2>6, <2>7 DEF After
  <2> QED
    BY <2>1, <2>8
<1>5. ASSUME NEW r \in LeavesOf(ps), After(R[q], R[r])
      PROVE  After(R[p], R[r])
  <2> SUFFICES ASSUME NEW x \in R[p], NEW z \in R[r] PROVE x < z
    BY DEF After
  <2>1. PICK y \in R[q] : y \in Int
    BY <1>1, OneLeaf
  <2>2. x < y /\ y < z
    BY <1>2, <1>5 DEF After
  <2>3. x \in Int /\ z \in Int
    BY OneLeaf
  <2> QED
    BY <2>1, <2>2, <2>3
<1> QED
  BY <1>1, <1>2, <1>3, <1>4, <1>5 DEF Beyond

Ahead(ps, R) == [p \in LeavesOf(ps) |-> Cardinality(Beyond(ps, R, p))]

\* There are fewer leaves beyond the next one.
LEMMA FewerBeyond ==
  ASSUME NEW ps, NEW R, LeafRegions(ps, R)
  PROVE  /\ Cardinality(LeavesOf(ps)) + 1 \in Nat
         /\ \A p \in LeavesOf(ps) :
              /\ Ahead(ps, R)[p] \in Nat /\ Ahead(ps, R)[p] < Cardinality(LeavesOf(ps)) + 1
              /\ ps[p].next # NoPage => ps[p].next \in LeavesOf(ps) /\ Ahead(ps, R)[ps[p].next] < Ahead(ps, R)[p]
<1>1. IsFiniteSet(LeavesOf(ps))
  BY DEF LeafRegions
<1>2. Cardinality(LeavesOf(ps)) \in Nat
  BY <1>1, FS_CardinalityType
<1>3. ASSUME NEW p \in LeavesOf(ps)
      PROVE  /\ IsFiniteSet(Beyond(ps, R, p)) /\ Ahead(ps, R)[p] = Cardinality(Beyond(ps, R, p))
             /\ Ahead(ps, R)[p] \in Nat /\ Ahead(ps, R)[p] <= Cardinality(LeavesOf(ps))
  <2>1. Beyond(ps, R, p) \subseteq LeavesOf(ps)
    BY DEF Beyond
  <2>2. IsFiniteSet(Beyond(ps, R, p)) /\ Cardinality(Beyond(ps, R, p)) <= Cardinality(LeavesOf(ps))
    BY <1>1, <2>1, FS_Subset
  <2>3. Cardinality(Beyond(ps, R, p)) \in Nat
    BY <2>2, FS_CardinalityType
  <2>4. Ahead(ps, R)[p] = Cardinality(Beyond(ps, R, p))
    BY DEF Ahead
  <2> QED
    BY <2>2, <2>3, <2>4
<1>4. ASSUME NEW p \in LeavesOf(ps), NEW q, q = ps[p].next, q # NoPage
      PROVE  q \in LeavesOf(ps) /\ Ahead(ps, R)[q] < Ahead(ps, R)[p]
  <2>1. q \in LeavesOf(ps) /\ q \notin Beyond(ps, R, q) /\ Beyond(ps, R, p) = Beyond(ps, R, q) \cup {q}
    BY <1>4, NextBeyond
  <2>2. Cardinality(Beyond(ps, R, q) \cup {q}) = Cardinality(Beyond(ps, R, q)) + 1
    BY <1>3, <2>1, FS_AddElement
  <2>3. Ahead(ps, R)[p] = Ahead(ps, R)[q] + 1 /\ Ahead(ps, R)[q] \in Nat
    BY <1>3, <2>1, <2>2
  <2> QED
    BY <2>1, <2>3
<1>5. Cardinality(LeavesOf(ps)) + 1 \in Nat /\ \A n \in Nat : n <= Cardinality(LeavesOf(ps)) => n < Cardinality(LeavesOf(ps)) + 1
  BY <1>2
<1> QED
  BY <1>3, <1>4, <1>5

\* What joining the entries of the leaves along the links is.
Joined(ps, f) ==
  f = [p \in LeavesOf(ps) |-> ps[p].entries \o (IF ps[p].next = NoPage THEN <<>> ELSE f[ps[p].next])]

\* Links that end somewhere are joined by some function.
LEMMA JoinedExists ==
  ASSUME NEW ps, NEW R, LeafRegions(ps, R)
  PROVE  \E f : Joined(ps, f)
<1> PICK D : D = LeavesOf(ps)
  OBVIOUS
<1> PICK item : item = [p \in D |-> ps[p].entries]
  OBVIOUS
<1> PICK stop : stop = [p \in D |-> ps[p].next = NoPage]
  OBVIOUS
<1> PICK nxt : nxt = [p \in D |-> ps[p].next]
  OBVIOUS
<1>1. \A p \in D : item[p] \in Seq(Entry)
  BY OneLeaf
<1>2. \A p \in D : ~stop[p] => nxt[p] \in D /\ Ahead(ps, R)[nxt[p]] < Ahead(ps, R)[p]
  BY FewerBeyond
<1>3. PICK f : LinksJoin(D, item, stop, nxt, f)
  <2> PICK N \in Nat : N = Cardinality(LeavesOf(ps)) + 1
    BY FewerBeyond
  <2> PICK m : m = Ahead(ps, R)
    OBVIOUS
  <2>1. \A p \in D : m[p] \in Nat /\ m[p] < N
    BY FewerBeyond
  <2> QED
    BY <1>1, <1>2, <2>1, LinksFollowed
<1>4. f = [p \in D |-> item[p] \o (IF stop[p] THEN <<>> ELSE f[nxt[p]])]
  BY <1>3 DEF LinksJoin
<1>5. \A p \in D : item[p] \o (IF stop[p] THEN <<>> ELSE f[nxt[p]])
                     = ps[p].entries \o (IF ps[p].next = NoPage THEN <<>> ELSE f[ps[p].next])
  OBVIOUS
<1>6. f = [p \in D |-> ps[p].entries \o (IF ps[p].next = NoPage THEN <<>> ELSE f[ps[p].next])]
  BY <1>4, <1>5
<1> QED
  BY <1>6 DEF Joined

\* What a joined sequence holds.
LEMMA JoinedRange ==
  ASSUME NEW T, NEW s \in Seq(T), NEW t \in Seq(T)
  PROVE  s \o t \in Seq(T) /\ Range(s \o t) = Range(s) \cup Range(t)
<1> PICK u : u = s \o t
  OBVIOUS
<1>1. u \in Seq(T) /\ Len(u) = Len(s) + Len(t) /\ Len(s) \in Nat /\ Len(t) \in Nat
  OBVIOUS
<1>2. DOMAIN u = 1 .. Len(s) + Len(t) /\ DOMAIN s = 1 .. Len(s) /\ DOMAIN t = 1 .. Len(t)
  BY <1>1
<1>3. \A i \in 1 .. Len(s) : i \in 1 .. Len(s) + Len(t) /\ u[i] = s[i]
  BY <1>1
<1>4. \A i \in 1 .. Len(t) : Len(s) + i \in 1 .. Len(s) + Len(t) /\ u[Len(s) + i] = t[i]
  BY <1>1
<1>5. \A i \in 1 .. Len(s) + Len(t) : i \in 1 .. Len(s) \/ \E j \in 1 .. Len(t) : i = Len(s) + j
  <2> SUFFICES ASSUME NEW i \in 1 .. Len(s) + Len(t), i \notin 1 .. Len(s) PROVE \E j \in 1 .. Len(t) : i = Len(s) + j
    OBVIOUS
  <2>1. i - Len(s) \in 1 .. Len(t) /\ i = Len(s) + (i - Len(s))
    BY <1>1
  <2> QED
    BY <2>1
<1>6. \A i \in 1 .. Len(s) + Len(t) : u[i] \in Range(s) \cup Range(t)
  BY <1>2, <1>3, <1>4, <1>5 DEF Range
<1>7. Range(s) \subseteq Range(u) /\ Range(t) \subseteq Range(u)
  BY <1>2, <1>3, <1>4 DEF Range
<1>8. Range(u) \subseteq Range(s) \cup Range(t)
  BY <1>2, <1>6 DEF Range
<1> QED
  BY <1>1, <1>7, <1>8

\* The leaves joined from p on have the entries of p and of the leaves beyond.
LEMMA JoinedHolds ==
  ASSUME NEW ps, NEW R, LeafRegions(ps, R), NEW f, Joined(ps, f)
  PROVE  \A p \in LeavesOf(ps) : f[p] \in Seq(Entry) /\ Range(f[p]) = EntriesIn(ps, {p} \cup Beyond(ps, R, p))
<1> DEFINE D == LeavesOf(ps)
           m == Ahead(ps, R)
           S == {p \in D : f[p] \in Seq(Entry) /\ Range(f[p]) = EntriesIn(ps, {p} \cup Beyond(ps, R, p))}
<1>1. \A p \in D : f[p] = ps[p].entries \o (IF ps[p].next = NoPage THEN <<>> ELSE f[ps[p].next])
  BY DEF Joined
<1>2. ASSUME NEW p \in D, \A q \in D : m[q] < m[p] => q \in S
      PROVE  p \in S
  <2>1. ps[p].entries \in Seq(Entry)
    BY OneLeaf
  <2>2. EntriesIn(ps, {p} \cup Beyond(ps, R, p)) = Range(ps[p].entries) \cup EntriesIn(ps, Beyond(ps, R, p))
    BY DEF EntriesIn
  <2>3. CASE ps[p].next = NoPage
    <3>1. f[p] = ps[p].entries \o <<>>
      BY <1>1, <2>3
    <3>2. ps[p].entries \o <<>> = ps[p].entries
      BY <2>1
    <3>3. EntriesIn(ps, Beyond(ps, R, p)) = {}
      BY <2>3, NoneBeyond DEF EntriesIn
    <3> QED
      BY <2>1, <2>2, <3>1, <3>2, <3>3
  <2>4. CASE ps[p].next # NoPage
    <3> PICK q : q = ps[p].next
      OBVIOUS
    <3>1. q \in D /\ m[q] < m[p]
      BY <2>4, FewerBeyond
    <3>2. f[q] \in Seq(Entry) /\ Range(f[q]) = EntriesIn(ps, {q} \cup Beyond(ps, R, q))
      BY <1>2, <3>1
    <3>3. Beyond(ps, R, p) = {q} \cup Beyond(ps, R, q)
      BY <2>4, NextBeyond
    <3>4. f[p] = ps[p].entries \o f[q]
      BY <1>1, <2>4
    <3>5. f[p] \in Seq(Entry) /\ Range(f[p]) = Range(ps[p].entries) \cup Range(f[q])
      BY <2>1, <3>2, <3>4, JoinedRange
    <3> QED
      BY <2>2, <3>2, <3>3, <3>5
  <2> QED
    BY <2>3, <2>4
<1>3. \A p \in D : m[p] \in Nat
  BY FewerBeyond
<1>4. D \subseteq S
  <2>1. \A p \in D : (\A q \in D : m[q] < m[p] => q \in S) => p \in S
    BY <1>2
  <2> HIDE DEF D, m, S
  <2> QED
    BY <1>3, <2>1, MeasureInduction
<1> QED
  BY <1>4

Firsts(ps, f) == f = [p \in DOMAIN ps |-> IF ps[p].leaf THEN p ELSE f[ps[p].children[1]]]

\* ps has the leaves of V and the first child of each of its internal pages.
SeenIn(V, ps) ==
  /\ DOMAIN ps = DOMAIN V
  /\ \A p \in DOMAIN ps :
       /\ V[p].leaf <=> ps[p].leaf
       /\ ps[p].leaf => ps[p] = V[p]
       /\ ~ps[p].leaf => ps[p].children[1] = V[p].children[1]

\* The first child lies where its parent's region begins.
LEMMA FirstPart ==
  ASSUME NEW V, NEW rt, NEW h, NEW R, Tree(V, rt, h, R), NEW ps, SeenIn(V, ps), NEW p \in DOMAIN ps, ~ps[p].leaf,
         NEW c, c = ps[p].children[1]
  PROVE  /\ c \in DOMAIN ps /\ h[c] < h[p] /\ R[c] \subseteq R[p]
         /\ \A x \in R[c], y \in R[p] : y < x => y \in R[c]
<1>1. p \in DOMAIN V /\ ~V[p].leaf /\ c = V[p].children[1] /\ DOMAIN ps = DOMAIN V
  BY DEF SeenIn
<1>2. Len(V[p].keys) \in Nat /\ Len(V[p].children) = Len(V[p].keys) + 1 /\ \A j \in 1 .. Len(V[p].keys) : V[p].keys[j] \in R[p]
  BY <1>1, InnerNode
<1>3. \A n \in Nat : 1 \in 1 .. n + 1
  OBVIOUS
<1>4. IsChild(V, p, 1, c)
  BY <1>1, <1>2, <1>3 DEF IsChild
<1>5. c \in DOMAIN V /\ h[c] < h[p] /\ R[c] = Part(R[p], V[p].keys, 1)
  BY <1>1, <1>4, ChildOfNode
<1>6. R[p] \in SUBSET Int
  BY <1>1, TreeNode
<1>7. \A x : x \in R[c] <=> x \in R[p] /\ (1 <= Len(V[p].keys) => x < V[p].keys[1])
  <2>1. ~(1 > 1)
    OBVIOUS
  <2> QED
    BY <1>5, <2>1 DEF Part
<1>8. 1 <= Len(V[p].keys) => V[p].keys[1] \in Int
  BY <1>2, <1>6
<1>9. ASSUME NEW x \in R[c], NEW y \in R[p], y < x
      PROVE  y \in R[c]
  <2>1. x \in Int /\ y \in Int
    BY <1>6, <1>7
  <2>2. 1 <= Len(V[p].keys) => y < V[p].keys[1]
    BY <1>7, <1>8, <1>9, <2>1
  <2> QED
    BY <1>7, <2>2
<1> QED
  BY <1>1, <1>5, <1>7, <1>9

\* Going down the first children ends.
LEMMA FirstsExist ==
  ASSUME NEW V, NEW rt, NEW h, NEW R, Tree(V, rt, h, R), NEW ps, SeenIn(V, ps)
  PROVE  \E f : Firsts(ps, f)
<1> DEFINE D == DOMAIN ps
           body(p, f) == IF ps[p].leaf THEN p ELSE f[ps[p].children[1]]
           G == [xf \in D \X [D -> D] |-> body(xf[1], xf[2])]
<1>1. \A p \in D : ~ps[p].leaf => ps[p].children[1] \in D /\ h[ps[p].children[1]] < h[p]
  BY FirstPart
<1>2. \A p \in D, f \in [D -> D] : G[<<p, f>>] = body(p, f) /\ body(p, f) \in D
  <2> SUFFICES ASSUME NEW p \in D, NEW f \in [D -> D] PROVE G[<<p, f>>] = body(p, f) /\ body(p, f) \in D
    OBVIOUS
  <2>1. G[<<p, f>>] = body(p, f)
    OBVIOUS
  <2>2. body(p, f) \in D
    BY <1>1
  <2> QED
    BY <2>1, <2>2
<1>3. LooksBelow(D, D, h, G)
  <2>1. G \in [D \X [D -> D] -> D]
    BY <1>2
  <2>2. ASSUME NEW x \in D, NEW f \in [D -> D], NEW g \in [D -> D], \A y \in D : h[y] < h[x] => f[y] = g[y]
        PROVE  G[<<x, f>>] = G[<<x, g>>]
    BY <1>1, <1>2, <2>2
  <2> HIDE DEF D, G
  <2> QED
    BY <2>1, <2>2 DEF LooksBelow
<1>4. rt \in D /\ h[rt] \in Nat /\ \A p \in D : h[p] \in Nat /\ h[p] <= h[rt]
  <2>1. rt \in D /\ D = DOMAIN V
    BY DEF Tree, SeenIn
  <2> QED
    BY <2>1, TreeNode
<1>5. Solvable(D, D, G)
  <2> PICK N \in Nat : N = h[rt] + 1
    BY <1>4
  <2>1. \A p \in D : h[p] \in Nat /\ h[p] < N
    BY <1>4
  <2>2. D # {}
    BY <1>4
  <2> HIDE DEF D, G
  <2> QED
    BY <1>3, <2>1, <2>2, Recursion
<1> PICK f \in [D -> D] : \A x \in D : f[x] = G[<<x, f>>]
  BY <1>5 DEF Solvable
<1>6. \A x \in D : f[x] = body(x, f)
  BY <1>2
<1>7. f = [x \in D |-> body(x, f)]
  BY <1>6
<1> QED
  BY <1>7 DEF Firsts

\* The way down the first children leads to the leaf where the region begins.
LEMMA FirstsLead ==
  ASSUME NEW V, NEW rt, NEW h, NEW R, Tree(V, rt, h, R), NEW ps, SeenIn(V, ps), NEW f, Firsts(ps, f)
  PROVE  \A p \in DOMAIN ps : /\ f[p] \in LeavesOf(ps) /\ R[f[p]] \subseteq R[p]
                              /\ \A x \in R[f[p]], y \in R[p] : y < x => y \in R[f[p]]
<1> DEFINE D == DOMAIN ps
           S == {p \in D : /\ f[p] \in LeavesOf(ps) /\ R[f[p]] \subseteq R[p]
                           /\ \A x \in R[f[p]], y \in R[p] : y < x => y \in R[f[p]]}
<1>1. \A p \in D : f[p] = IF ps[p].leaf THEN p ELSE f[ps[p].children[1]]
  BY DEF Firsts
<1>2. ASSUME NEW p \in D, \A q \in D : h[q] < h[p] => q \in S
      PROVE  p \in S
  <2>1. CASE ps[p].leaf
    <3>1. f[p] = p /\ p \in LeavesOf(ps)
      BY <1>1, <2>1 DEF LeavesOf
    <3> QED
      BY <3>1
  <2>2. CASE ~ps[p].leaf
    <3> PICK c : c = ps[p].children[1]
      OBVIOUS
    <3>1. /\ c \in D /\ h[c] < h[p] /\ R[c] \subseteq R[p]
          /\ \A x \in R[c], y \in R[p] : y < x => y \in R[c]
      BY <2>2, FirstPart
    <3>2. c \in S /\ f[p] = f[c]
      BY <1>1, <1>2, <2>2, <3>1
    <3>3. /\ f[c] \in LeavesOf(ps) /\ R[f[c]] \subseteq R[c]
          /\ \A x \in R[f[c]], y \in R[c] : y < x => y \in R[f[c]]
      BY <3>2
    <3>4. \A x \in R[f[c]], y \in R[p] : y < x => y \in R[f[c]]
      BY <3>1, <3>3
    <3> QED
      BY <3>1, <3>2, <3>3, <3>4
  <2> QED
    BY <2>1, <2>2
<1>3. \A p \in D : h[p] \in Nat
  BY TreeNode DEF SeenIn
<1>4. D \subseteq S
  <2>1. \A p \in D : (\A q \in D : h[q] < h[p] => q \in S) => p \in S
    BY <1>2
  <2> HIDE DEF D, S
  <2> QED
    BY <1>3, <2>1, MeasureInduction
<1> QED
  BY <1>4

\* What the leaves hold from the first on is what all of them hold.
LEMMA FirstHoldsAll ==
  ASSUME NEW V, NEW rt, NEW h, NEW R, Tree(V, rt, h, R), NEW ps, SeenIn(V, ps), NEW f, Firsts(ps, f), NEW g, Joined(ps, g)
  PROVE  g[f[rt]] \in Seq(Entry) /\ Range(g[f[rt]]) = Held(ps)
<1>1. LeafRegions(ps, R)
  BY TreeLeaves DEF SeenIn
<1> PICK p : p = f[rt]
  OBVIOUS
<1>2. rt \in DOMAIN ps /\ R[rt] = Int
  BY DEF Tree, SeenIn
<1>3. p \in LeavesOf(ps) /\ \A x \in R[p], y \in Int : y < x => y \in R[p]
  BY <1>2, FirstsLead
<1>4. g[p] \in Seq(Entry) /\ Range(g[p]) = EntriesIn(ps, {p} \cup Beyond(ps, R, p))
  BY <1>1, <1>3, JoinedHolds
<1>5. ASSUME NEW q \in LeavesOf(ps), q # p
      PROVE  q \in Beyond(ps, R, p)
  <2> SUFFICES ASSUME NEW x \in R[p], NEW z \in R[q] PROVE x < z
    BY DEF Beyond, After
  <2>1. x \in Int /\ z \in Int
    BY <1>1, <1>3, OneLeaf
  <2>2. z \notin R[p]
    BY <1>1, <1>3, <1>5, <2>1 DEF LeafRegions
  <2>3. ~(z < x) /\ z # x
    BY <1>3, <2>1, <2>2
  <2> QED
    BY <2>1, <2>3
<1>6. {p} \cup Beyond(ps, R, p) = LeavesOf(ps)
  BY <1>3, <1>5 DEF Beyond
<1> QED
  BY <1>4, <1>6 DEF Held

\* A page with a key and a child put in has its first child still.
LEMMA FirstChildStays ==
  ASSUME NEW small, NEW i, NEW k, NEW c, NEW big, HasMore(small, i, k, c, big)
  PROVE  small.children[1] = big.children[1] /\ ~small.leaf /\ ~big.leaf
<1>1. IsInternalPage(small) /\ IsInternalPage(big) /\ i \in 1 .. Len(big.keys) /\ PutIn(small.children, i + 1, c, big.children)
  BY DEF HasMore
<1>2. i \in Nat /\ i >= 1
  <2>1. Len(big.keys) \in Nat
    BY <1>1 DEF IsInternalPage
  <2> QED
    BY <1>1, <2>1
<1>3. 1 \in 1 .. (i + 1) - 1
  BY <1>2
<1> QED
  BY <1>1, <1>3 DEF PutIn, IsInternalPage

\* The entries of the leaves, by their places.
LEMMA HeldPlaces ==
  ASSUME NEW ps, NEW R, LeafRegions(ps, R)
  PROVE  \A e : e \in Held(ps) <=> \E p \in LeavesOf(ps) : \E i \in 1 .. Len(ps[p].entries) : e = ps[p].entries[i]
<1>1. \A p \in LeavesOf(ps) : DOMAIN ps[p].entries = 1 .. Len(ps[p].entries)
  BY OneLeaf
<1> QED
  BY <1>1 DEF Held, EntriesIn, Range

\* What an entry at its place is.
LEMMA EntryAt ==
  ASSUME NEW ps, NEW R, LeafRegions(ps, R), NEW p \in LeavesOf(ps), NEW i \in 1 .. Len(ps[p].entries)
  PROVE  /\ ps[p].entries[i] \in Entry /\ ps[p].entries[i].key \in R[p] /\ ps[p].entries[i].key \in Int
         /\ ps[p].entries[i].key \in Keys /\ ps[p].entries[i] \in Held(ps)
<1>1. ps[p].entries \in Seq(Entry) /\ LeafIn(ps[p], R[p]) /\ R[p] \in SUBSET Int
  BY OneLeaf
<1>2. ps[p].entries[i] \in Entry
  BY <1>1
<1>3. ps[p].entries[i].key \in R[p]
  BY <1>1 DEF LeafIn
<1> QED
  BY <1>1, <1>2, <1>3, EntryParts, HeldPlaces

\* No key is in two places.
LEMMA OnePlace ==
  ASSUME NEW ps, NEW R, LeafRegions(ps, R), NEW p \in LeavesOf(ps), NEW i \in 1 .. Len(ps[p].entries),
         NEW q \in LeavesOf(ps), NEW j \in 1 .. Len(ps[q].entries), ps[p].entries[i].key = ps[q].entries[j].key
  PROVE  p = q /\ i = j
<1>1. ps[p].entries[i].key \in R[p] /\ ps[q].entries[j].key \in R[q] /\ ps[p].entries[i].key \in Int
  BY EntryAt
<1>2. p = q
  BY <1>1 DEF LeafRegions
<1>3. SortedEntries(ps[p].entries) /\ Len(ps[p].entries) \in Nat
  BY OneLeaf DEF LeafIn
<1>4. ~(i < j) /\ ~(j < i)
  <2>1. \A x \in Int : ~(x < x)
    OBVIOUS
  <2> QED
    BY <1>1, <1>2, <1>3, <2>1 DEF SortedEntries
<1>5. i \in Int /\ j \in Int
  BY <1>2, <1>3
<1> QED
  BY <1>2, <1>4, <1>5

\* No two entries have the same key.
LEMMA KeysUnique ==
  ASSUME NEW ps, NEW R, LeafRegions(ps, R), NEW d \in Held(ps), NEW e \in Held(ps), d.key = e.key
  PROVE  d = e
<1>1. PICK p \in LeavesOf(ps) : \E i \in 1 .. Len(ps[p].entries) : d = ps[p].entries[i]
  BY HeldPlaces
<1>2. PICK i \in 1 .. Len(ps[p].entries) : d = ps[p].entries[i]
  BY <1>1
<1>3. PICK q \in LeavesOf(ps) : \E j \in 1 .. Len(ps[q].entries) : e = ps[q].entries[j]
  BY HeldPlaces
<1>4. PICK j \in 1 .. Len(ps[q].entries) : e = ps[q].entries[j]
  BY <1>3
<1> QED
  BY <1>2, <1>4, OnePlace

\* A key that is not in its leaf is in none.
LEMMA OnlyInItsLeaf ==
  ASSUME NEW ps, NEW R, LeafRegions(ps, R), NEW cur \in LeavesOf(ps), NEW k \in R[cur],
         NEW p \in LeavesOf(ps), NEW i \in 1 .. Len(ps[p].entries), ps[p].entries[i].key = k
  PROVE  p = cur
<1>1. k \in R[p] /\ k \in Int
  BY EntryAt
<1> QED
  BY <1>1 DEF LeafRegions

-----------------------------------------------------------------------------
(* The map that entries make. *)

OneOfEachKey(E) == \A d, e \in E : d.key = e.key => d = e

MapOf(E) == [k \in {e.key : e \in E} |-> (CHOOSE e \in E : e.key = k).value]

\* What the map says of a key.
LEMMA MapAt ==
  ASSUME NEW E, OneOfEachKey(E), NEW e \in E
  PROVE  e.key \in DOMAIN MapOf(E) /\ MapOf(E)[e.key] = e.value
<1>1. PICK d : d = CHOOSE x \in E : x.key = e.key
  OBVIOUS
<1>2. d \in E /\ d.key = e.key
  BY <1>1
<1>3. d = e
  BY <1>2 DEF OneOfEachKey
<1>4. e.key \in DOMAIN MapOf(E)
  BY DEF MapOf
<1>5. MapOf(E)[e.key] = d.value
  BY <1>1 DEF MapOf
<1> QED
  BY <1>3, <1>4, <1>5

AddsTo(E, key, value, F) ==
  /\ \A e \in E : e.key # key
  /\ \A e : e \in F <=> e \in E \/ e = [key |-> key, value |-> value]

GainsPlace(M, key, value, N) ==
  key \notin DOMAIN M /\ N = [k \in {key} \cup DOMAIN M |-> IF k \in DOMAIN M THEN M[k] ELSE value]

LosesPlace(M, key, N) == key \in DOMAIN M /\ N = [k \in DOMAIN M \ {key} |-> M[k]]

\* An entry with a key of its own is one more place of the map.
LEMMA MapAdded ==
  ASSUME NEW E, OneOfEachKey(E), NEW key, NEW value, NEW F, AddsTo(E, key, value, F)
  PROVE  GainsPlace(MapOf(E), key, value, MapOf(F))
<1> PICK x : x = [key |-> key, value |-> value]
  OBVIOUS
<1>1. x.key = key /\ x.value = value
  OBVIOUS
<1>2. (\A e \in E : e.key # key) /\ \A e : e \in F <=> e \in E \/ e = x
  BY DEF AddsTo
<1>3. OneOfEachKey(F)
  <2> SUFFICES ASSUME NEW d \in F, NEW e \in F, d.key = e.key PROVE d = e
    BY DEF OneOfEachKey
  <2>1. (d \in E \/ d = x) /\ (e \in E \/ e = x)
    BY <1>2
  <2> QED
    BY <1>1, <1>2, <2>1 DEF OneOfEachKey
<1>4. DOMAIN MapOf(E) = {e.key : e \in E} /\ DOMAIN MapOf(F) = {e.key : e \in F}
  BY DEF MapOf
<1>5. key \notin DOMAIN MapOf(E)
  BY <1>2, <1>4
<1> PICK M : M = [k \in {key} \cup DOMAIN MapOf(E) |-> IF k \in DOMAIN MapOf(E) THEN MapOf(E)[k] ELSE value]
  OBVIOUS
<1>6. DOMAIN MapOf(F) = {key} \cup DOMAIN MapOf(E)
  BY <1>1, <1>2, <1>4
<1>7. ASSUME NEW k \in DOMAIN MapOf(F) PROVE MapOf(F)[k] = M[k]
  <2>1. PICK e \in F : k = e.key
    BY <1>4
  <2>2. MapOf(F)[k] = e.value
    BY <1>3, <2>1, MapAt
  <2>3. CASE e = x
    <3>1. k = key
      BY <1>1, <2>1, <2>3
    <3>2. M[key] = value
      BY <1>5
    <3> QED
      BY <1>1, <2>2, <2>3, <3>1, <3>2
  <2>4. CASE e \in E
    <3>1. k \in DOMAIN MapOf(E) /\ MapOf(E)[k] = e.value
      BY <2>1, <2>4, MapAt
    <3>2. M[k] = MapOf(E)[k]
      BY <3>1
    <3> QED
      BY <2>2, <3>1, <3>2
  <2> QED
    BY <1>2, <2>1, <2>3, <2>4
<1>8. MapOf(F) = [k \in DOMAIN MapOf(F) |-> MapOf(F)[k]]
  BY DEF MapOf
<1>9. M = [k \in {key} \cup DOMAIN MapOf(E) |-> M[k]]
  OBVIOUS
<1>10. MapOf(F) = M
  <2> PICK N, D, C : N = MapOf(F) /\ D = DOMAIN MapOf(F) /\ C = {key} \cup DOMAIN MapOf(E)
    OBVIOUS
  <2>1. N = [k \in D |-> N[k]] /\ M = [k \in C |-> M[k]] /\ D = C /\ \A k \in D : N[k] = M[k]
    BY <1>6, <1>7, <1>8, <1>9
  <2>2. N = M
    BY <2>1
  <2> QED
    BY <2>2
<1> QED
  BY <1>5, <1>10 DEF GainsPlace

DropsFrom(E, key, F) ==
  /\ \E e \in E : e.key = key
  /\ \A e : e \in F <=> e \in E /\ e.key # key

\* Without the entry of a key the map is without that key.
LEMMA MapDropped ==
  ASSUME NEW E, OneOfEachKey(E), NEW key, NEW F, DropsFrom(E, key, F)
  PROVE  LosesPlace(MapOf(E), key, MapOf(F))
<1>1. (\E e \in E : e.key = key) /\ \A e : e \in F <=> e \in E /\ e.key # key
  BY DEF DropsFrom
<1>2. OneOfEachKey(F)
  BY <1>1 DEF OneOfEachKey
<1>3. DOMAIN MapOf(E) = {e.key : e \in E} /\ DOMAIN MapOf(F) = {e.key : e \in F}
  BY DEF MapOf
<1>4. key \in DOMAIN MapOf(E)
  BY <1>1, <1>3
<1> PICK M : M = [k \in DOMAIN MapOf(E) \ {key} |-> MapOf(E)[k]]
  OBVIOUS
<1>5. DOMAIN MapOf(F) = DOMAIN MapOf(E) \ {key}
  BY <1>1, <1>3
<1>6. ASSUME NEW k \in DOMAIN MapOf(F) PROVE MapOf(F)[k] = M[k]
  <2>1. PICK e \in F : k = e.key
    BY <1>3
  <2>2. MapOf(F)[k] = e.value
    BY <1>2, <2>1, MapAt
  <2>3. MapOf(E)[k] = e.value
    BY <1>1, <2>1, MapAt
  <2>4. M[k] = MapOf(E)[k]
    BY <1>5
  <2> QED
    BY <2>2, <2>3, <2>4
<1>7. MapOf(F) = [k \in DOMAIN MapOf(F) |-> MapOf(F)[k]]
  BY DEF MapOf
<1>8. MapOf(F) = M
  <2> PICK N, D, C : N = MapOf(F) /\ D = DOMAIN MapOf(F) /\ C = DOMAIN MapOf(E) \ {key}
    OBVIOUS
  <2>1. N = [k \in D |-> N[k]] /\ M = [k \in C |-> M[k]] /\ D = C /\ \A k \in D : N[k] = M[k]
    BY <1>5, <1>6, <1>7
  <2>2. N = M
    BY <2>1
  <2> QED
    BY <2>2
<1> QED
  BY <1>4, <1>8 DEF LosesPlace

-----------------------------------------------------------------------------
(* What a change of one leaf adds to the entries or takes from them. *)

\* What a sequence has once one more has been put in.
LEMMA PutElements ==
  ASSUME NEW s, Len(s) \in Nat, NEW i, NEW x, NEW t, PutIn(s, i, x, t), NEW e
  PROVE  /\ HasElement(t, e) <=> HasElement(s, e) \/ e = x
         /\ HasElement(s, e) => \E j \in 1 .. Len(t) : j # i /\ t[j] = e
<1>1. /\ i \in 1 .. Len(s) + 1 /\ Len(t) = Len(s) + 1 /\ t[i] = x
      /\ \A j \in 1 .. i - 1 : t[j] = s[j]
      /\ \A j \in i .. Len(s) : t[j + 1] = s[j]
  BY DEF PutIn
<1>2. ASSUME NEW j \in 1 .. Len(s)
      PROVE  \E k \in 1 .. Len(t) : k # i /\ t[k] = s[j]
  <2>1. CASE j < i
    BY <1>1, <2>1
  <2>2. CASE ~(j < i)
    <3>1. j \in i .. Len(s) /\ j + 1 \in 1 .. Len(t) /\ j + 1 # i
      BY <1>1, <2>2
    <3> QED
      BY <1>1, <3>1
  <2> QED
    BY <2>1, <2>2
<1>3. ASSUME NEW j \in 1 .. Len(t), j # i
      PROVE  \E k \in 1 .. Len(s) : t[j] = s[k]
  <2>1. CASE j < i
    BY <1>1, <2>1
  <2>2. CASE ~(j < i)
    <3>1. j - 1 \in i .. Len(s) /\ j - 1 \in 1 .. Len(s) /\ (j - 1) + 1 = j
      BY <1>1, <1>3, <2>2
    <3> QED
      BY <1>1, <3>1
  <2> QED
    BY <2>1, <2>2
<1>4. HasElement(s, e) => \E j \in 1 .. Len(t) : j # i /\ t[j] = e
  BY <1>2 DEF HasElement
<1>5. HasElement(t, e) => HasElement(s, e) \/ e = x
  BY <1>1, <1>3 DEF HasElement
<1>6. e = x => HasElement(t, e)
  <2>1. i \in 1 .. Len(t)
    BY <1>1
  <2> QED
    BY <1>1, <2>1 DEF HasElement
<1>7. HasElement(s, e) => HasElement(t, e)
  BY <1>4 DEF HasElement
<1> QED
  BY <1>4, <1>5, <1>6, <1>7

HeldElsewhere(ps, cur, e) == \E q \in DOMAIN ps : q # cur /\ HoldsEntry(ps[q], e)

Refilled(ps, cur, all, next, W) == cur \in DOMAIN ps /\ W = [ps EXCEPT ![cur] = Leaf(all, next)]

\* Where the entries of a tree are once a leaf has others.
LEMMA RefilledEntries ==
  ASSUME NEW ps, NEW cur, NEW all, NEW next, NEW W, Refilled(ps, cur, all, next, W), NEW e
  PROVE  HasEntry(W, e) <=> HasElement(all, e) \/ HeldElsewhere(ps, cur, e)
<1> PICK pg : pg = Leaf(all, next)
  OBVIOUS
<1>1. pg.leaf = TRUE /\ pg.entries = all
  BY DEF Leaf
<1>2. cur \in DOMAIN ps /\ DOMAIN W = DOMAIN ps /\ W[cur] = pg /\ \A q \in DOMAIN ps : q # cur => W[q] = ps[q]
  BY DEF Refilled
<1>3. HoldsEntry(W[cur], e) <=> HasElement(all, e)
  BY <1>1, <1>2 DEF HoldsEntry
<1> QED
  BY <1>2, <1>3 DEF HasEntry, HeldElsewhere
=============================================================================
