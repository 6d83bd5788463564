--------------------------- MODULE BPlusTreeProofs --------------------------
(***************************************************************************)
(* Proofs about BPlusTree, for any page sizes, keys and values: every       *)
(* operation keeps the tree in order, and what follows for the properties of*)
(* the runs.                                                                *)
(***************************************************************************)
EXTENDS BPlusTreeShape

-----------------------------------------------------------------------------
(* The descent. *)

\* No page above the leaves is without a key.
HaveKeys(V) == \A p \in DOMAIN V : ~V[p].leaf => Len(V[p].keys) >= 1

\* UpperBound finds a child.
LEMMA UpperBoundIn ==
  ASSUME NEW pg, IsKeys(pg.keys), pg.keys \in Seq(Keys), Len(pg.keys) >= 1, NEW k \in Int
  PROVE  UpperBound(pg, k) \in 1 .. Len(pg.keys) + 1
<1> DEFINE K == pg.keys
           below == {j \in DOMAIN K : K[j] <= k}
<1>1. Len(K) \in Nat /\ DOMAIN K = 1 .. Len(K) /\ (\A j \in 1 .. Len(K) : K[j] \in Int)
        /\ \A j, l \in 1 .. Len(K) : j < l => K[j] < K[l]
  BY DEF IsKeys, SortedKeys
<1>2. DownClosed(below, 1, Len(K))
  BY <1>1 DEF DownClosed
<1>3. UpperBound(pg, k) = BinarySearch(1, Len(K), below)
  BY DEF UpperBound
<1>4. 1 \in Int /\ Len(K) \in Int /\ 1 <= Len(K)
  BY <1>1
<1> HIDE DEF below, K
<1>5. BinarySearch(1, Len(K), below) \in 1 .. Len(K) + 1
  BY <1>2, <1>4, SearchFinds
<1> QED
  BY <1>3, <1>5 DEF K

\* The child to which a search for k goes on.
NextDown(V, k, p) == V[p].children[UpperBound(V[p], k)]

\* The search goes on in a child, one level lower, whose region still has the key.
LEMMA NextDownIs ==
  ASSUME NEW V, NEW rt, NEW h, NEW R, Tree(V, rt, h, R), HaveKeys(V), NEW k \in Int, NEW p \in DOMAIN V, ~V[p].leaf
  PROVE  /\ IsChild(V, p, UpperBound(V[p], k), NextDown(V, k, p)) /\ NextDown(V, k, p) \in DOMAIN V
         /\ h[NextDown(V, k, p)] < h[p]
         /\ k \in R[p] => k \in R[NextDown(V, k, p)]
<1>1. IsKeys(V[p].keys) /\ V[p].keys \in Seq(Keys) /\ Len(V[p].keys) >= 1 /\ Len(V[p].children) = Len(V[p].keys) + 1
  BY InnerNode DEF HaveKeys, IsInternalPage
<1>2. UpperBound(V[p], k) \in 1 .. Len(V[p].keys) + 1
  BY <1>1, UpperBoundIn
<1>3. IsChild(V, p, UpperBound(V[p], k), NextDown(V, k, p))
  BY <1>1, <1>2 DEF IsChild, NextDown
<1>4. ASSUME k \in R[p]
      PROVE  k \in R[NextDown(V, k, p)]
  <2>1. PICK i, c : IsChild(V, p, i, c) /\ k \in R[c]
    BY <1>4, ChildFor
  <2>2. i \in 1 .. Len(V[p].keys) + 1 /\ V[p].children[i] = c
    BY <1>1, <2>1 DEF IsChild
  <2>3. k \in Part(R[p], V[p].keys, i) /\ R[p] \in SUBSET Int
    BY <2>1, ChildOfNode, TreeNode
  <2>4. UpperBound(V[p], k) = i
    BY <1>1, <2>2, <2>3, UpperBoundAt
  <2> QED
    BY <2>1, <2>2, <2>4 DEF NextDown
<1> QED
  BY <1>3, <1>4, ChildOfNode

\* path leads from p to the leaf where k is sought.
Descent(V, h, R, k, p, path) ==
  /\ path \in Seq(DOMAIN V) /\ Len(path) >= 1 /\ path[1] = p
  /\ \A j \in 1 .. Len(path) - 1 : IsChild(V, path[j], UpperBound(V[path[j]], k), path[j + 1])
  /\ \A i, j \in 1 .. Len(path) : i < j => h[path[j]] < h[path[i]]
  /\ \A j \in 1 .. Len(path) : k \in R[path[j]]
  /\ V[path[Len(path)]].leaf

\* A descent from the child, with the page before it, is a descent from the page.
LEMMA DescentFurther ==
  ASSUME NEW V, NEW rt, NEW h, NEW R, Tree(V, rt, h, R), HaveKeys(V), NEW k \in Int, NEW p \in DOMAIN V, ~V[p].leaf,
         k \in R[p], NEW rest, Descent(V, h, R, k, NextDown(V, k, p), rest)
  PROVE  Descent(V, h, R, k, p, <<p>> \o rest)
<1> DEFINE path == <<p>> \o rest
           n == Len(rest)
<1>1. rest \in Seq(DOMAIN V) /\ n \in Nat /\ n >= 1 /\ rest[1] = NextDown(V, k, p)
        /\ \A j \in 1 .. n : rest[j] \in DOMAIN V
  BY DEF Descent
<1>2. path \in Seq(DOMAIN V) /\ Len(path) = n + 1 /\ path[1] = p /\ \A j \in 1 .. n : path[j + 1] = rest[j]
  BY <1>1
<1> HIDE DEF path
<1>3. IsChild(V, p, UpperBound(V[p], k), rest[1]) /\ h[rest[1]] < h[p]
  BY <1>1, NextDownIs
<1>4. \A j \in 1 .. n : h[rest[j]] \in Nat /\ h[rest[j]] < h[p]
  <2> SUFFICES ASSUME NEW j \in 1 .. n PROVE h[rest[j]] \in Nat /\ h[rest[j]] < h[p]
    OBVIOUS
  <2>1. rest[j] \in DOMAIN V /\ rest[1] \in DOMAIN V /\ 1 \in 1 .. n
    BY <1>1
  <2>2. h[rest[j]] \in Nat /\ h[rest[1]] \in Nat /\ h[p] \in Nat
    BY <2>1, TreeNode
  <2>3. j = 1 \/ h[rest[j]] < h[rest[1]]
    BY <1>1, <2>1 DEF Descent
  <2> QED
    BY <1>3, <2>2, <2>3
<1>5. \A j \in 1 .. n + 1 : j = 1 \/ (j - 1 \in 1 .. n /\ (j - 1) + 1 = j /\ path[j] = rest[j - 1])
  BY <1>1, <1>2
<1>6. ASSUME NEW j \in 1 .. Len(path) - 1
      PROVE  IsChild(V, path[j], UpperBound(V[path[j]], k), path[j + 1])
  <2>1. j \in 1 .. n /\ path[j + 1] = rest[j]
    BY <1>1, <1>2
  <2>2. CASE j = 1
    BY <1>2, <1>3, <2>1, <2>2
  <2>3. CASE j # 1
    <3>1. j - 1 \in 1 .. n - 1 /\ (j - 1) + 1 = j /\ path[j] = rest[j - 1]
      BY <1>1, <1>2, <1>5, <2>1, <2>3
    <3>2. IsChild(V, rest[j - 1], UpperBound(V[rest[j - 1]], k), rest[(j - 1) + 1])
      BY <3>1 DEF Descent
    <3> QED
      BY <2>1, <3>1, <3>2
  <2> QED
    BY <2>2, <2>3
<1>7. ASSUME NEW i \in 1 .. Len(path), NEW j \in 1 .. Len(path), i < j
      PROVE  h[path[j]] < h[path[i]]
  <2>1. j - 1 \in 1 .. n /\ path[j] = rest[j - 1]
    <3>1. j \in 1 .. n + 1 /\ j # 1
      BY <1>1, <1>2, <1>7
    <3> QED
      BY <1>5, <3>1
  <2>2. CASE i = 1
    BY <1>2, <1>4, <2>1, <2>2
  <2>3. CASE i # 1
    <3>0. i \in 1 .. n + 1 /\ i - 1 < j - 1
      BY <1>1, <1>2, <1>7
    <3>1. i - 1 \in 1 .. n /\ path[i] = rest[i - 1] /\ i - 1 < j - 1
      BY <1>5, <2>3, <3>0
    <3> QED
      BY <2>1, <3>1 DEF Descent
  <2> QED
    BY <2>2, <2>3
<1>8. ASSUME NEW j \in 1 .. Len(path)
      PROVE  k \in R[path[j]]
  <2>1. j = 1 \/ (j - 1 \in 1 .. n /\ path[j] = rest[j - 1])
    BY <1>2, <1>5
  <2> QED
    BY <1>2, <2>1 DEF Descent
<1>9. V[path[Len(path)]].leaf
  <2>1. n \in 1 .. n /\ path[Len(path)] = rest[n]
    BY <1>1, <1>2
  <2> QED
    BY <2>1 DEF Descent
<1>10. Len(path) >= 1
  BY <1>1, <1>2
<1> QED
  BY <1>2, <1>6, <1>7, <1>8, <1>9, <1>10 DEF Descent, path

Descents(V, k) ==
  LET from[p \in DOMAIN V] == IF V[p].leaf THEN <<p>> ELSE <<p>> \o from[NextDown(V, k, p)]
  IN from

\* The path is what its recursive definition says.
LEMMA DescentsSolve ==
  ASSUME NEW V, NEW rt, NEW h, NEW R, Tree(V, rt, h, R), HaveKeys(V), NEW k \in Int
  PROVE  \A p \in DOMAIN V : Descents(V, k)[p] = IF V[p].leaf THEN <<p>> ELSE <<p>> \o Descents(V, k)[NextDown(V, k, p)]
<1> DEFINE D == DOMAIN V
           X == Seq(D)
           body(p, f) == IF V[p].leaf THEN <<p>> ELSE <<p>> \o f[NextDown(V, k, p)]
           G == [xf \in D \X [D -> X] |-> body(xf[1], xf[2])]
<1>1. \A p \in D : h[p] \in Nat /\ h[p] < h[rt] + 1
  BY TreeNode
<1>2. h[rt] + 1 \in Nat /\ X # {}
  <2>1. <<>> \in X
    OBVIOUS
  <2> QED
    <3>1. rt \in DOMAIN V
      BY DEF Tree
    <3>2. h[rt] \in Nat
      BY <3>1, TreeNode
    <3>3. h[rt] + 1 \in Nat
      BY <3>2
    <3>4. X # {}
      BY <2>1
    <3> QED
      BY <3>3, <3>4
<1>3. \A p \in D : ~V[p].leaf => NextDown(V, k, p) \in D /\ h[NextDown(V, k, p)] < h[p]
  BY NextDownIs
<1>4. \A p \in D, f \in [D -> X] : G[<<p, f>>] = body(p, f) /\ body(p, f) \in X
  <2> SUFFICES ASSUME NEW p \in D, NEW f \in [D -> X] PROVE G[<<p, f>>] = body(p, f) /\ body(p, f) \in X
    OBVIOUS
  <2>1. <<p>> \in Seq(D)
    OBVIOUS
  <2>2. G[<<p, f>>] = body(p, f)
    OBVIOUS
  <2>3. CASE V[p].leaf
    BY <2>1, <2>2, <2>3
  <2>4. CASE ~V[p].leaf
    <3>1. NextDown(V, k, p) \in D
      BY <1>3, <2>4
    <3>2. f[NextDown(V, k, p)] \in Seq(D)
      BY <3>1
    <3>3. <<p>> \o f[NextDown(V, k, p)] \in Seq(D)
      BY <2>1, <3>2
    <3>4. body(p, f) = <<p>> \o f[NextDown(V, k, p)]
      BY <2>4
    <3> QED
      BY <2>2, <3>3, <3>4
  <2> QED
    BY <2>3, <2>4
<1>5. LooksBelow(D, X, h, G)
  <2>1. G \in [D \X [D -> X] -> X]
    BY <1>4
  <2>2. ASSUME NEW x \in D, NEW f \in [D -> X], NEW g \in [D -> X], \A y \in D : h[y] < h[x] => f[y] = g[y]
        PROVE  G[<<x, f>>] = G[<<x, g>>]
    BY <1>3, <1>4, <2>2
  <2> HIDE DEF D, X, G
  <2> QED
    BY <2>1, <2>2 DEF LooksBelow
<1>6. Solvable(D, X, G)
  <2> PICK N \in Nat : N = h[rt] + 1
    BY <1>2
  <2>1. \A p \in D : h[p] \in Nat /\ h[p] < N
    BY <1>1
  <2> HIDE DEF D, X, G
  <2> QED
    BY <1>2, <1>5, <2>1, Recursion
<1> PICK f \in [D -> X] : \A x \in D : f[x] = G[<<x, f>>]
  BY <1>6 DEF Solvable
<1>7. \A x \in D : f[x] = body(x, f)
  BY <1>4
<1>8. f = [x \in D |-> body(x, f)]
  BY <1>7
<1> DEFINE F == Descents(V, k)
<1>9. F = [x \in D |-> body(x, F)]
  BY <1>8 DEF Descents
<1>10. \A x \in D : F[x] = body(x, F)
  BY <1>9
<1> QED
  BY <1>10

\* From a page whose region has the key, the path leads to the key's leaf.
LEMMA DescentsLead ==
  ASSUME NEW V, NEW rt, NEW h, NEW R, Tree(V, rt, h, R), HaveKeys(V), NEW k \in Int
  PROVE  \A p \in DOMAIN V : k \in R[p] => Descent(V, h, R, k, p, Descents(V, k)[p])
<1> DEFINE F == Descents(V, k)
           S == {p \in DOMAIN V : k \in R[p] => Descent(V, h, R, k, p, F[p])}
<1>1. \A p \in DOMAIN V : h[p] \in Nat
  BY TreeNode
<1>2. ASSUME NEW p \in DOMAIN V, \A q \in DOMAIN V : h[q] < h[p] => q \in S
      PROVE  p \in S
  <2> SUFFICES ASSUME k \in R[p] PROVE Descent(V, h, R, k, p, F[p])
    OBVIOUS
  <2>1. F[p] = IF V[p].leaf THEN <<p>> ELSE <<p>> \o F[NextDown(V, k, p)]
    BY DescentsSolve
  <2>2. CASE V[p].leaf
    <3> PICK s : s = <<p>>
      OBVIOUS
    <3>1. s \in Seq(DOMAIN V) /\ Len(s) = 1 /\ s[1] = p
      OBVIOUS
    <3>2. Descent(V, h, R, k, p, s)
      BY <2>2, <3>1 DEF Descent
    <3> QED
      BY <2>1, <2>2, <3>2
  <2>3. CASE ~V[p].leaf
    <3>1. NextDown(V, k, p) \in DOMAIN V /\ h[NextDown(V, k, p)] < h[p] /\ k \in R[NextDown(V, k, p)]
      BY <2>3, NextDownIs
    <3>2. Descent(V, h, R, k, NextDown(V, k, p), F[NextDown(V, k, p)])
      BY <1>2, <3>1
    <3> HIDE DEF F
    <3>3. Descent(V, h, R, k, p, <<p>> \o F[NextDown(V, k, p)])
      BY <2>3, <3>2, DescentFurther
    <3> QED
      BY <2>1, <2>3, <3>3
  <2> QED
    BY <2>2, <2>3
<1>3. \A p \in DOMAIN V : (\A q \in DOMAIN V : h[q] < h[p] => q \in S) => p \in S
  BY <1>2
<1>4. DOMAIN V \subseteq S
  <2> HIDE DEF S
  <2> QED
    BY <1>1, <1>3, MeasureInduction
<1> QED
  BY <1>4

\* Path leads from the root to the leaf whose region has the key.
LEMMA PathDescends ==
  ASSUME NEW h, NEW R, Tree(pages, root, h, R), HaveKeys(pages), NEW k \in Int
  PROVE  Descent(pages, h, R, k, root, Path(k))
<1>1. root \in DOMAIN pages /\ k \in R[root]
  BY DEF Tree
<1>2. Path(k) = Descents(pages, k)[root]
  BY DEF Path, Descents, NextDown
<1> QED
  BY <1>1, <1>2, DescentsLead

-----------------------------------------------------------------------------
(* The ancestors that are held. *)

\* ws leads down from parent to child.
Chain(ps, ws) ==
  /\ ws \in Seq(DOMAIN ps) /\ Len(ws) >= 1
  /\ \A j \in 1 .. Len(ws) : ~ps[ws[j]].leaf
  /\ \A j \in 1 .. Len(ws) - 1 : \E i : IsChild(ps, ws[j], i, ws[j + 1])
  /\ \A i, j \in 1 .. Len(ws) : i < j => ws[i] # ws[j]

\* A set of numbers up to n has a greatest one.
LEMMA GreatestNumber ==
  ASSUME NEW n \in Nat, NEW S \in SUBSET (1 .. n), S # {}
  PROVE  \E m \in S : \A x \in S : m >= x
<1> DEFINE T == {y \in Nat : \E x \in S : y = n - x}
<1>1. T # {}
  <2> PICK x \in S : TRUE
    OBVIOUS
  <2>1. n - x \in Nat
    OBVIOUS
  <2> QED
    BY <2>1
<1>2. PICK y \in T : \A z \in T : y <= z
  BY <1>1, LeastNumber
<1>3. PICK m \in S : y = n - m
  BY <1>2
<1>4. ASSUME NEW x \in S PROVE m >= x
  <2>1. n - x \in T
    OBVIOUS
  <2> HIDE DEF T
  <2>2. y <= n - x
    BY <1>2, <2>1
  <2> QED
    BY <1>3, <2>2
<1> QED
  BY <1>4

\* HeldAncestors keeps a chain of ancestors that ends in the leaf's parent and
\* begins with the root or a safe page.
LEMMA HeldChain ==
  ASSUME NEW V, NEW rt, NEW h, NEW R, Tree(V, rt, h, R), NEW k, NEW path, Descent(V, h, R, k, rt, path),
         Len(path) >= 2, NEW safe, NEW held, held = HeldAncestors(path, safe)
  PROVE  /\ Chain(V, held) /\ (held[1] = rt \/ held[1] \in safe)
         /\ IsChild(V, Last(held), UpperBound(V[Last(held)], k), Last(path))
         /\ k \in R[Last(held)]
<1> DEFINE n == Len(path)
           S == {1} \cup {j \in 1 .. n - 1 : path[j] \in safe}
<1>1. path \in Seq(DOMAIN V) /\ n \in Nat /\ n >= 2 /\ \A j \in 1 .. n : path[j] \in DOMAIN V
  BY DEF Descent
<1>2. S \in SUBSET (1 .. n) /\ S # {} /\ n \in Nat
  BY <1>1
<1>3. \E m \in S : \A x \in S : m >= x
  <2> HIDE DEF S
  <2> QED
    BY <1>2, GreatestNumber
<1>4. PICK from : from = Max(S)
  OBVIOUS
<1>5. from \in S
  <2> HIDE DEF S
  <2> QED
    BY <1>3, <1>4 DEF Max
<1>6. from \in 1 .. n - 1 /\ (from = 1 \/ path[from] \in safe)
  BY <1>1, <1>5
<1>7. held = SubSeq(path, from, n - 1)
  BY <1>4 DEF HeldAncestors
<1>8. held \in Seq(DOMAIN V) /\ Len(held) = n - from /\ \A j \in 1 .. n - from : held[j] = path[from + j - 1]
  BY <1>1, <1>6, <1>7
<1>9. \A j \in 1 .. n - from : from + j - 1 \in 1 .. n - 1 /\ from + j - 1 \in 1 .. n
  BY <1>1, <1>6
<1>10. \A j \in 1 .. n - 1 : IsChild(V, path[j], UpperBound(V[path[j]], k), path[j + 1])
  BY DEF Descent
<1>11. ASSUME NEW j \in 1 .. Len(held) - 1
       PROVE  \E i : IsChild(V, held[j], i, held[j + 1])
  <2>1. j \in 1 .. n - from /\ j + 1 \in 1 .. n - from /\ from + (j + 1) - 1 = (from + j - 1) + 1
    BY <1>1, <1>6, <1>8
  <2>2. held[j] = path[from + j - 1] /\ held[j + 1] = path[(from + j - 1) + 1]
    BY <1>8, <2>1
  <2> QED
    BY <1>9, <1>10, <2>1, <2>2
<1>12. ASSUME NEW i \in 1 .. Len(held), NEW j \in 1 .. Len(held), i < j
       PROVE  held[i] # held[j]
  <2>1. from + i - 1 \in 1 .. n /\ from + j - 1 \in 1 .. n /\ from + i - 1 < from + j - 1
    BY <1>1, <1>6, <1>8, <1>9, <1>12
  <2>2. h[path[from + j - 1]] < h[path[from + i - 1]]
    BY <2>1 DEF Descent
  <2>3. path[from + i - 1] \in DOMAIN V /\ h[path[from + i - 1]] \in Nat
    BY <1>1, <2>1, TreeNode
  <2>4. held[i] = path[from + i - 1] /\ held[j] = path[from + j - 1]
    BY <1>8
  <2> QED
    BY <2>2, <2>3, <2>4
<1>13. ASSUME NEW j \in 1 .. Len(held) PROVE ~V[held[j]].leaf
  <2>1. from + j - 1 \in 1 .. n - 1 /\ held[j] = path[from + j - 1]
    BY <1>8, <1>9
  <2>2. IsChild(V, path[from + j - 1], UpperBound(V[path[from + j - 1]], k), path[(from + j - 1) + 1])
    BY <1>10, <2>1
  <2> QED
    BY <2>1, <2>2 DEF IsChild
<1>14. Chain(V, held)
  <2>1. Len(held) >= 1
    BY <1>1, <1>6, <1>8
  <2> QED
    BY <1>8, <1>11, <1>12, <1>13, <2>1 DEF Chain
<1>15. held[1] = rt \/ held[1] \in safe
  <2>1. 1 \in 1 .. n - from /\ from + 1 - 1 = from
    BY <1>1, <1>6
  <2>2. held[1] = path[from]
    BY <1>8, <2>1
  <2> QED
    BY <1>6, <2>2 DEF Descent
<1>16. Last(held) = path[n - 1]
  <2>1. n - from \in 1 .. n - from /\ from + (n - from) - 1 = n - 1
    BY <1>1, <1>6
  <2> QED
    BY <1>8, <2>1 DEF Last
<1>17. n - 1 \in 1 .. n - 1 /\ n - 1 \in 1 .. n /\ (n - 1) + 1 = n
  BY <1>1
<1>18. IsChild(V, path[n - 1], UpperBound(V[path[n - 1]], k), path[n]) /\ k \in R[path[n - 1]]
  BY <1>10, <1>17 DEF Descent
<1> QED
  BY <1>14, <1>15, <1>16, <1>18 DEF Last

-----------------------------------------------------------------------------
(* The invariant.  The tree is in order once the call that is to come has    *)
(* been made on the page it is for.                                          *)

ViewOf(ps, ws, c) ==
  IF c.of = "none" THEN ps
  ELSE [ps EXCEPT ![Last(ws)] = IF c.of = "InsertInternal" THEN Grown(@, c.key, c.child) ELSE Shrunk(@, c.key)]

LeafSized(pg, isRoot) ==
  IsLeafPage(pg) /\ Len(pg.entries) \in 1 .. LeafMax /\ (~isRoot => Len(pg.entries) >= LeafMax \div 2)

InternalSized(pg, isRoot) ==
  IsInternalPage(pg) /\ Len(pg.children) \in 2 .. InternalMax /\ (~isRoot => Len(pg.children) >= LeastChildren)

Sizes(ps, rt) == \A p \in DOMAIN ps : LeafSized(ps[p], p = rt) \/ InternalSized(ps[p], p = rt)

\* The call that is to come has what it needs.
Calling(ps, rt, ws, c) ==
  /\ Chain(ps, ws)
  /\ \/ /\ c.of = "InsertInternal"
        /\ ws[1] = rt \/ Len(ps[ws[1]].children) < InternalMax
        /\ \E i : HasMore(ps[Last(ws)], i, c.key, c.child, Grown(ps[Last(ws)], c.key, c.child))
     \/ /\ c.of = "RemoveInternal"
        /\ ws[1] = rt \/ Len(ps[ws[1]].children) > LeastChildren
        /\ c.child \notin DOMAIN ps
        /\ \E i : HasMore(Shrunk(ps[Last(ws)], c.key), i, c.key, c.child, ps[Last(ws)])

Ready(ws, c) == c = NoCall /\ ws = <<>>

Sound(ps, rt, ws, c) ==
  IF rt = NoPage THEN DOMAIN ps = {} /\ Ready(ws, c)
  ELSE IsTree(ViewOf(ps, ws, c), rt) /\ Sizes(ps, rt) /\ (Ready(ws, c) \/ Calling(ps, rt, ws, c))

TreeInv == Sound(pages, root, write_set, call)

\* With no call to come, a tree of pages of the right sizes is sound.
LEMMA SoundAtRest ==
  ASSUME NEW ps, NEW rt, NEW ws, NEW c, Ready(ws, c), IsTree(ps, rt), Sizes(ps, rt)
  PROVE  Sound(ps, rt, ws, c)
<1>1. rt \in Nat
  BY DEF IsTree, Tree
<1>2. rt # NoPage
  BY <1>1, TreeAssumption
<1>3. ViewOf(ps, ws, c) = ps
  BY DEF ViewOf, Ready, NoCall
<1> QED
  BY <1>2, <1>3 DEF Sound

\* With no call to come, a sound state is a tree of pages of the right sizes.
LEMMA AtRest ==
  ASSUME NEW ps, NEW rt, rt # NoPage, NEW ws, NEW c, c = NoCall, Sound(ps, rt, ws, c)
  PROVE  IsTree(ps, rt) /\ Sizes(ps, rt) /\ Ready(ws, c) /\ HaveKeys(ps)
<1>1. ViewOf(ps, ws, c) = ps
  BY DEF ViewOf, NoCall
<1>2. ~Calling(ps, rt, ws, c)
  BY DEF Calling, NoCall
<1>3. Sizes(ps, rt)
  BY DEF Sound
<1>4. ASSUME NEW p \in DOMAIN ps, ~ps[p].leaf
      PROVE  Len(ps[p].keys) >= 1
  <2>1. InternalSized(ps[p], p = rt)
    BY <1>3, <1>4, LeafKind DEF Sizes, LeafSized
  <2> QED
    <3>1. Len(ps[p].children) = Len(ps[p].keys) + 1 /\ Len(ps[p].keys) \in Nat
      BY <2>1, InternalKind DEF InternalSized
    <3>2. Len(ps[p].children) >= 2
      BY <2>1, TreeAssumption DEF InternalSized
    <3> QED
      BY <3>1, <3>2
<1> QED
  BY <1>1, <1>2, <1>3, <1>4 DEF Sound, HaveKeys

\* The same with a call to come.
LEMMA SoundCalling ==
  ASSUME NEW ps, NEW rt, NEW ws, NEW c, IsTree(ViewOf(ps, ws, c), rt), Sizes(ps, rt), Calling(ps, rt, ws, c)
  PROVE  Sound(ps, rt, ws, c)
<1>1. rt \in Nat
  BY DEF IsTree, Tree
<1>2. rt # NoPage
  BY <1>1, TreeAssumption
<1> QED
  BY <1>2 DEF Sound

\* The pages of the view are those of the tree, but for the one the call is for.
LEMMA ViewPages ==
  ASSUME NEW ps, NEW rt, NEW ws, NEW c, Calling(ps, rt, ws, c)
  PROVE  /\ DOMAIN ViewOf(ps, ws, c) = DOMAIN ps /\ Last(ws) \in DOMAIN ps /\ SameBut(ViewOf(ps, ws, c), ps, Last(ws))
         /\ ~ps[Last(ws)].leaf
         /\ c.of = "InsertInternal" => ViewOf(ps, ws, c)[Last(ws)] = Grown(ps[Last(ws)], c.key, c.child)
         /\ c.of = "RemoveInternal" => ViewOf(ps, ws, c)[Last(ws)] = Shrunk(ps[Last(ws)], c.key)
<1>1. Last(ws) \in DOMAIN ps /\ ~ps[Last(ws)].leaf
  BY DEF Calling, Chain, Last
<1>2. c.of # "none"
  BY DEF Calling
<1>3. ViewOf(ps, ws, c) =
        [ps EXCEPT ![Last(ws)] = IF c.of = "InsertInternal" THEN Grown(@, c.key, c.child) ELSE Shrunk(@, c.key)]
  BY <1>2 DEF ViewOf
<1> QED
  BY <1>1, <1>3 DEF SameBut

\* A sequence over one set is one over another that has its elements.
LEMMA SeqInto ==
  ASSUME NEW A, NEW B, NEW s \in Seq(A), \A j \in 1 .. Len(s) : s[j] \in B
  PROVE  s \in Seq(B)
OBVIOUS

\* A chain of pages that stay as they are.
LEMMA SameChain ==
  ASSUME NEW ps, NEW qs, NEW ws, Chain(ps, ws), \A j \in 1 .. Len(ws) : ws[j] \in DOMAIN qs /\ qs[ws[j]] = ps[ws[j]]
  PROVE  Chain(qs, ws)
<1>1. ws \in Seq(DOMAIN ps) /\ Len(ws) \in Nat
  BY DEF Chain
<1>2. ws \in Seq(DOMAIN qs)
  BY <1>1, SeqInto
<1>3. ASSUME NEW j \in 1 .. Len(ws) - 1 PROVE \E i : IsChild(qs, ws[j], i, ws[j + 1])
  <2>1. j \in 1 .. Len(ws)
    BY <1>1
  <2>2. PICK i : IsChild(ps, ws[j], i, ws[j + 1])
    BY DEF Chain
  <2>3. IsChild(qs, ws[j], i, ws[j + 1])
    BY <2>1, <2>2 DEF IsChild
  <2> QED
    BY <2>3
<1> QED
  BY <1>2, <1>3 DEF Chain

-----------------------------------------------------------------------------
(* Entries come and go. *)

AddsEntry(pg, key, value, all) ==
  LET pos == LeafLowerBound(pg, key)
  IN ~HasKeyAt(pg, pos, key) /\ all = InsertAt(pg.entries, pos, [key |-> key, value |-> value])

EntryPut(pg, key, value, all) ==
  PutIn(pg.entries, LeafLowerBound(pg, key), [key |-> key, value |-> value], all)

\* A leaf with an entry put in where LeafLowerBound says fits its region.
LEMMA EntryAdded ==
  ASSUME NEW pg, NEW A \in SUBSET Int, LeafIn(pg, A), Len(pg.entries) >= 1, NEW key \in Keys, key \in A,
         NEW value \in ValuesFor[key], NEW all, AddsEntry(pg, key, value, all), NEW next
  PROVE  LeafIn(Leaf(all, next), A) /\ Len(all) = Len(pg.entries) + 1
         /\ EntryPut(pg, key, value, all)
<1> DEFINE s == pg.entries
           n == Len(s)
<1> PICK pos : pos = LeafLowerBound(pg, key)
  OBVIOUS
<1>0. ~HasKeyAt(pg, pos, key) /\ all = InsertAt(s, pos, [key |-> key, value |-> value])
  BY DEF AddsEntry
<1> PICK e : e = [key |-> key, value |-> value]
  OBVIOUS
<1>1. key \in Int
  BY TreeAssumption
<1>2. IsLeafPage(pg) /\ SortedEntries(s) /\ (\A j \in 1 .. n : s[j].key \in A) /\ s \in Seq(Entry) /\ n \in Nat
        /\ \A j \in 1 .. n : s[j].key \in Int
  BY LeafKind DEF LeafIn, IsLeafPage
<1>3. LeafPlace(s, key, pos)
  BY <1>1, <1>2, LeafLowerBoundAt
<1>4. e \in Entry /\ e.key = key
  BY DEF Entry
<1>5. pos \in 1 .. n + 1 /\ \A j \in 1 .. n : IF j < pos THEN s[j].key < key ELSE key <= s[j].key
  BY <1>3 DEF LeafPlace
<1>6. all \in Seq(Entry) /\ PutIn(s, pos, e, all)
  BY <1>0, <1>2, <1>4, <1>5, Inserted
<1>7. pos \in Nat /\ Len(all) = n + 1 /\ all[pos] = e /\ (\A j \in 1 .. pos - 1 : all[j] = s[j]) /\ \A j \in pos .. n : all[j + 1] = s[j]
  BY <1>5, <1>6 DEF PutIn
<1>8. ASSUME NEW j \in pos .. n PROVE key < s[j].key
  <2>1. j \in 1 .. n /\ pos \in 1 .. n /\ key <= s[j].key /\ key <= s[pos].key /\ s[pos].key \in Int /\ s[j].key \in Int
    BY <1>2, <1>5
  <2>2. s[pos].key # key
    BY <1>0, <1>2, <1>5, <2>1 DEF HasKeyAt
  <2>3. pos = j \/ s[pos].key < s[j].key
    BY <1>2, <2>1 DEF SortedEntries
  <2> QED
    BY <1>1, <2>1, <2>2, <2>3
<1>9. ASSUME NEW j \in 1 .. n + 1
      PROVE  \/ j = pos /\ all[j] = e
             \/ j < pos /\ j \in 1 .. n /\ all[j] = s[j] /\ s[j].key < key
             \/ pos < j /\ j - 1 \in 1 .. n /\ all[j] = s[j - 1] /\ key < s[j - 1].key
  <2>1. CASE j = pos
    BY <1>7, <2>1
  <2>2. CASE j < pos
    <3>1. j \in 1 .. pos - 1 /\ j \in 1 .. n
      BY <1>5, <2>2
    <3> QED
      BY <1>5, <1>7, <2>2, <3>1
  <2>3. CASE pos < j
    <3>1. j - 1 \in pos .. n /\ j - 1 \in 1 .. n /\ (j - 1) + 1 = j
      BY <1>5, <2>3
    <3>2. all[(j - 1) + 1] = s[j - 1] /\ key < s[j - 1].key
      BY <1>7, <1>8, <3>1
    <3> QED
      BY <2>3, <3>1, <3>2
  <2> QED
    BY <1>7, <2>1, <2>2, <2>3
<1>10. ASSUME NEW j \in 1 .. n + 1 PROVE all[j].key \in A
  BY <1>2, <1>4, <1>9
<1>11. ASSUME NEW i \in 1 .. n + 1, NEW j \in 1 .. n + 1, i < j PROVE all[i].key < all[j].key
  <2>1. i <= pos \/ pos < i
    BY <1>7
  <2>2. CASE i = pos
    <3>1. pos < j
      BY <1>11, <2>2
    <3> QED
      BY <1>4, <1>7, <1>9, <2>2, <3>1
  <2>3. CASE i < pos
    <3>1. i \in 1 .. n /\ all[i] = s[i] /\ s[i].key < key /\ s[i].key \in Int
      BY <1>2, <1>7, <1>9, <2>3
    <3>2. CASE j = pos
      BY <1>4, <1>7, <3>1, <3>2
    <3>3. CASE j < pos
      <4>1. j \in 1 .. n /\ all[j] = s[j]
        BY <1>7, <1>9, <3>3
      <4> QED
        BY <1>2, <1>11, <3>1, <4>1 DEF SortedEntries
    <3>4. CASE pos < j
      <4>1. j - 1 \in 1 .. n /\ all[j] = s[j - 1] /\ key < s[j - 1].key /\ s[j - 1].key \in Int
        BY <1>2, <1>7, <1>9, <3>4, SMTT(30)
      <4> QED
        BY <1>1, <3>1, <4>1
    <3> QED
      BY <1>7, <3>2, <3>3, <3>4
  <2>4. CASE pos < i
    <3>1. i - 1 \in 1 .. n /\ all[i] = s[i - 1]
      BY <1>7, <1>9, <2>4
    <3>2. pos < j
      BY <1>7, <1>11, <2>4
    <3>3. j - 1 \in 1 .. n /\ all[j] = s[j - 1] /\ i - 1 < j - 1
      BY <1>7, <1>9, <1>11, <3>2
    <3> QED
      BY <1>2, <3>1, <3>3 DEF SortedEntries
  <2> QED
    BY <1>7, <2>1, <2>2, <2>3, <2>4
<1> PICK leaf : leaf = Leaf(all, next)
  OBVIOUS
<1>12. leaf.entries = all /\ leaf.next = next /\ leaf.leaf = TRUE /\ leaf = Leaf(leaf.entries, leaf.next)
  BY DEF Leaf
<1>13. LeafIn(leaf, A)
  BY <1>6, <1>7, <1>10, <1>11, <1>12 DEF LeafIn, IsLeafPage, SortedEntries
<1> QED
  BY <1>6, <1>7, <1>13 DEF EntryPut

\* So does one with an entry taken out.
LEMMA EntryRemoved ==
  ASSUME NEW pg, NEW A \in SUBSET Int, LeafIn(pg, A), NEW pos \in 1 .. Len(pg.entries),
         NEW rest, rest = RemoveAt(pg.entries, pos), NEW next
  PROVE  LeafIn(Leaf(rest, next), A) /\ Len(rest) = Len(pg.entries) - 1 /\ PutIn(rest, pos, pg.entries[pos], pg.entries)
<1> DEFINE s == pg.entries
           n == Len(s)
<1>1. IsLeafPage(pg) /\ SortedEntries(s) /\ (\A j \in 1 .. n : s[j].key \in A) /\ s \in Seq(Entry) /\ n \in Nat
  BY LeafKind DEF LeafIn, IsLeafPage
<1>2. rest \in Seq(Entry) /\ PutIn(rest, pos, s[pos], s)
  BY <1>1, Removed
<1>3. Len(rest) \in Nat /\ n = Len(rest) + 1 /\ (\A j \in 1 .. pos - 1 : s[j] = rest[j]) /\ \A j \in pos .. Len(rest) : s[j + 1] = rest[j]
  BY <1>2 DEF PutIn
<1>4. ASSUME NEW j \in 1 .. Len(rest)
      PROVE  \/ j < pos /\ j \in 1 .. n /\ rest[j] = s[j]
             \/ pos <= j /\ j + 1 \in 1 .. n /\ rest[j] = s[j + 1]
  <2>1. CASE j < pos
    BY <1>3, <2>1
  <2>2. CASE ~(j < pos)
    BY <1>3, <2>2
  <2> QED
    BY <2>1, <2>2
<1>5. \A j \in 1 .. Len(rest) : rest[j].key \in A
  BY <1>1, <1>4
<1>6. ASSUME NEW i \in 1 .. Len(rest), NEW j \in 1 .. Len(rest), i < j PROVE rest[i].key < rest[j].key
  <2>1. i < j + 1 /\ i + 1 < j + 1
    BY <1>6
  <2>2. CASE j < pos
    <3>1. i \in 1 .. n /\ j \in 1 .. n /\ rest[i] = s[i] /\ rest[j] = s[j]
      BY <1>4, <1>6, <2>2
    <3> QED
      BY <1>1, <1>6, <3>1 DEF SortedEntries
  <2>3. CASE i < pos /\ pos <= j
    <3>1. i \in 1 .. n /\ j + 1 \in 1 .. n /\ rest[i] = s[i] /\ rest[j] = s[j + 1]
      BY <1>4, <2>3
    <3> QED
      BY <1>1, <2>1, <3>1 DEF SortedEntries
  <2>4. CASE pos <= i
    <3>1. i + 1 \in 1 .. n /\ j + 1 \in 1 .. n /\ rest[i] = s[i + 1] /\ rest[j] = s[j + 1]
      BY <1>4, <1>6, <2>4
    <3> QED
      BY <1>1, <2>1, <3>1 DEF SortedEntries
  <2> QED
    BY <2>2, <2>3, <2>4
<1> PICK leaf : leaf = Leaf(rest, next)
  OBVIOUS
<1>7. leaf.entries = rest /\ leaf.next = next /\ leaf.leaf = TRUE /\ leaf = Leaf(leaf.entries, leaf.next)
  BY DEF Leaf
<1>8. LeafIn(leaf, A)
  BY <1>2, <1>5, <1>6, <1>7 DEF LeafIn, IsLeafPage, SortedEntries
<1>9. Len(rest) = n - 1
  BY <1>3
<1> QED
  BY <1>2, <1>8, <1>9

TakesEntry(pg, A, pos, rest) ==
  LeafIn(pg, A) /\ A \in SUBSET Int /\ pos \in 1 .. Len(pg.entries) /\ rest = RemoveAt(pg.entries, pos)

\* A leaf with an entry taken out fits its region.
LEMMA EntryTaken ==
  ASSUME NEW pg, NEW A, NEW pos, NEW rest, TakesEntry(pg, A, pos, rest), NEW next
  PROVE  LeafIn(Leaf(rest, next), A) /\ Len(rest) = Len(pg.entries) - 1
<1>1. LeafIn(pg, A) /\ A \in SUBSET Int /\ pos \in 1 .. Len(pg.entries) /\ rest = RemoveAt(pg.entries, pos)
  BY DEF TakesEntry
<1> QED
  BY <1>1, EntryRemoved

\* What HasKeyAt says after the search: the key is in the page or it is not.
LEMMA KeyFound ==
  ASSUME NEW pg, NEW A \in SUBSET Int, LeafIn(pg, A), Len(pg.entries) >= 1, NEW key \in Int
  PROVE  /\ HasKeyAt(pg, LeafLowerBound(pg, key), key) =>
              /\ LeafLowerBound(pg, key) \in 1 .. Len(pg.entries)
              /\ pg.entries[LeafLowerBound(pg, key)].key = key
         /\ ~HasKeyAt(pg, LeafLowerBound(pg, key), key) => \A j \in 1 .. Len(pg.entries) : pg.entries[j].key # key
<1> DEFINE s == pg.entries
           n == Len(s)
<1> PICK pos : pos = LeafLowerBound(pg, key)
  OBVIOUS
<1>1. IsLeafPage(pg) /\ SortedEntries(s) /\ n \in Nat /\ \A j \in 1 .. n : s[j].key \in Int
  BY LeafKind DEF LeafIn
<1>2. LeafPlace(s, key, pos)
  BY <1>1, LeafLowerBoundAt
<1>3. pos \in 1 .. n + 1 /\ \A j \in 1 .. n : IF j < pos THEN s[j].key < key ELSE key <= s[j].key
  BY <1>2 DEF LeafPlace
<1>4. HasKeyAt(pg, pos, key) <=> pos <= n /\ s[pos].key = key
  BY DEF HasKeyAt
<1>5. ASSUME ~HasKeyAt(pg, pos, key), NEW j \in 1 .. n PROVE s[j].key # key
  <2>1. CASE j < pos
    BY <1>1, <1>3, <2>1
  <2>2. CASE ~(j < pos)
    <3>1. pos \in 1 .. n
      BY <1>1, <1>3, <2>2
    <3>2. s[pos].key # key /\ key <= s[pos].key /\ s[pos].key \in Int
      BY <1>1, <1>3, <1>4, <1>5, <3>1
    <3>3. pos = j \/ s[pos].key < s[j].key
      BY <1>1, <1>3, <2>2, <3>1 DEF SortedEntries
    <3> QED
      BY <1>1, <3>2, <3>3
  <2> QED
    BY <2>1, <2>2
<1>6. HasKeyAt(pg, pos, key) => pos \in 1 .. n /\ s[pos].key = key
  BY <1>1, <1>3, <1>4
<1> QED
  BY <1>5, <1>6

-----------------------------------------------------------------------------
\* The empty tree is sound.
LEMMA InitSound == Init => TreeInv
<1> SUFFICES ASSUME Init PROVE TreeInv
  OBVIOUS
<1>1. pages = <<>> /\ root = NoPage /\ Ready(write_set, call)
  BY DEF Init, Ready
<1>2. DOMAIN <<>> = {}
  OBVIOUS
<1> QED
  BY <1>1, <1>2 DEF TreeInv, Sound

\* A single leaf is a tree.
LEMMA SingleTree ==
  ASSUME NEW V, NEW p \in Nat, DOMAIN V = {p}, LeafIn(V[p], Int), V[p].next = NoPage
  PROVE  IsTree(V, p)
<1> DEFINE h == [q \in {p} |-> 0]
           R == [q \in {p} |-> Int]
<1>1. h[p] = 0 /\ R[p] = Int
  OBVIOUS
<1> HIDE DEF h, R
<1>2. IsRegion(Int) /\ Unbounded(Int)
  BY DEF IsRegion, Convex, Unbounded
<1>3. Node(V, h, R, p)
  BY <1>1, <1>2 DEF Node
<1>4. \A q \in DOMAIN V : Node(V, h, R, q) /\ h[q] <= h[p]
  BY <1>1, <1>3
<1>5. Disjoint(V, h, R)
  BY DEF Disjoint
<1>6. Covered(V, p, h, R)
  BY <1>1 DEF Covered
<1>7. Links(V, R)
  BY <1>1, <1>2 DEF Links, Linked
<1>8. IsFiniteSet(DOMAIN V)
  BY FS_Singleton
<1> QED
  BY <1>1, <1>4, <1>5, <1>6, <1>7, <1>8 DEF Tree, IsTree

\* The first insertion makes one leaf, which is a tree (Insert into an empty tree).
LEMMA InsertFirstSound ==
  ASSUME TreeInv, NEW key \in Keys, NEW value \in ValuesFor[key], InsertFirst(key, value)
  PROVE  TreeInv'
<1> DEFINE new == NewPageId(pages)
           s == <<[key |-> key, value |-> value]>>
           leaf == Leaf(s, NoPage)
<1>1. root = NoPage /\ DOMAIN pages = {} /\ Ready(write_set, call)
  BY DEF InsertFirst, TreeInv, Sound
<1>2. pages' = WithPage(pages, new, leaf) /\ root' = new /\ write_set' = write_set /\ call' = call
  BY DEF InsertFirst
<1>3. new \in Nat
  <2>1. IsFiniteSet(DOMAIN pages)
    BY <1>1, FS_EmptySet
  <2> HIDE DEF new
  <2> QED
    BY <2>1, FreshPage DEF new
<1>4. DOMAIN pages' = {new} /\ pages'[new] = leaf
  <2> HIDE DEF leaf, new
  <2> QED
    BY <1>1, <1>2 DEF WithPage
<1>5. [key |-> key, value |-> value] \in Entry /\ [key |-> key, value |-> value].key \in Int
  BY TreeAssumption DEF Entry
<1>6. s \in Seq(Entry) /\ Len(s) = 1 /\ s[1].key \in Int
  BY <1>5
<1>7. leaf.entries = s /\ leaf.next = NoPage /\ leaf.leaf = TRUE
  BY DEF Leaf
<1> HIDE DEF s
<1>8. LeafIn(leaf, Int) /\ IsLeafPage(leaf)
  <2>1. leaf = Leaf(leaf.entries, leaf.next)
    BY <1>7
  <2> HIDE DEF leaf
  <2>2. SortedEntries(s) /\ \A j \in 1 .. Len(s) : s[j].key \in Int
    BY <1>6 DEF SortedEntries
  <2>3. IsLeafPage(leaf)
    BY <1>6, <1>7, <2>1 DEF IsLeafPage
  <2> QED
    BY <1>7, <2>2, <2>3 DEF LeafIn
<1> HIDE DEF leaf, new
<1>9. IsTree(pages', new)
  BY <1>3, <1>4, <1>7, <1>8, SingleTree
<1>10. Sizes(pages', new)
  <2>1. 1 \in 1 .. LeafMax
    BY TreeAssumption
  <2>2. Len(leaf.entries) \in 1 .. LeafMax
    BY <1>6, <1>7, <2>1
  <2>3. LeafSized(leaf, new = new)
    BY <1>8, <2>2 DEF LeafSized
  <2> QED
    BY <1>4, <2>3 DEF Sizes
<1>11. Ready(write_set', call')
  BY <1>1, <1>2
<1>12. Sound(pages', new, write_set', call')
  BY <1>9, <1>10, <1>11, SoundAtRest
<1> QED
  BY <1>2, <1>12 DEF TreeInv

-----------------------------------------------------------------------------
(* An insertion in a leaf. *)

\* A leaf whose entries alone are replaced.
LEMMA OtherEntries ==
  ASSUME NEW pg, IsLeafPage(pg), NEW all
  PROVE  [pg EXCEPT !.entries = all] = Leaf(all, pg.next)
<1> PICK e, n : e = pg.entries /\ n = pg.next
  OBVIOUS
<1> DEFINE q == [pg EXCEPT !.entries = all]
<1>1. pg = [leaf |-> TRUE, entries |-> e, next |-> n]
  BY DEF IsLeafPage, Leaf
<1>2. pg \in [leaf : {TRUE}, entries : {e, all}, next : {n}]
  BY <1>1
<1>3. q \in [leaf : {TRUE}, entries : {e, all}, next : {n}] /\ q.entries = all
  BY <1>2
<1> HIDE DEF q
<1>4. q = [leaf |-> q.leaf, entries |-> q.entries, next |-> q.next] /\ q.leaf = TRUE /\ q.next = n
  BY <1>3
<1>5. q = Leaf(all, n)
  BY <1>3, <1>4 DEF Leaf
<1> QED
  BY <1>5 DEF q

\* Leaf makes a leaf of its arguments.
LEMMA LeafOf ==
  ASSUME NEW s \in Seq(Entry), NEW next
  PROVE  /\ IsLeafPage(Leaf(s, next)) /\ Leaf(s, next).entries = s /\ Leaf(s, next).next = next
         /\ Leaf(s, next).leaf = TRUE
BY DEF IsLeafPage, Leaf

\* Internal makes an internal page of its arguments.
LEMMA InternalOf ==
  ASSUME NEW s \in Seq(Keys), NEW t \in Seq(Nat), Len(t) = Len(s) + 1
  PROVE  /\ IsInternalPage(Internal(s, t)) /\ Internal(s, t).keys = s /\ Internal(s, t).children = t
         /\ Internal(s, t).leaf = FALSE
<1> PICK pg : pg = Internal(s, t)
  OBVIOUS
<1>1. pg.keys = s /\ pg.children = t /\ pg.leaf = FALSE /\ pg = Internal(pg.keys, pg.children)
  BY DEF Internal
<1> QED
  BY <1>1 DEF IsInternalPage

\* The leaf where a search ends.
LEMMA AtLeaf ==
  ASSUME NEW h, NEW R, Tree(pages, root, h, R), Sizes(pages, root), HaveKeys(pages), NEW key \in Int,
         NEW path, path = Path(key), NEW cur, cur = Last(path)
  PROVE  /\ Descent(pages, h, R, key, root, path) /\ cur \in DOMAIN pages /\ pages[cur].leaf = TRUE
         /\ LeafIn(pages[cur], R[cur]) /\ key \in R[cur] /\ R[cur] \in SUBSET Int
         /\ LeafSized(pages[cur], cur = root) /\ Len(pages[cur].entries) >= 1
         /\ cur # root => Len(path) >= 2
<1>1. Descent(pages, h, R, key, root, path)
  BY PathDescends
<1>2. Len(path) \in Nat /\ Len(path) >= 1 /\ cur = path[Len(path)] /\ Len(path) \in 1 .. Len(path)
        /\ \A j \in 1 .. Len(path) : path[j] \in DOMAIN pages
  BY <1>1 DEF Descent, Last
<1>3. cur \in DOMAIN pages /\ key \in R[cur] /\ pages[cur].leaf
  BY <1>1, <1>2 DEF Descent
<1>4. LeafIn(pages[cur], R[cur]) /\ R[cur] \in SUBSET Int
  BY <1>3, TreeNode, LeafNode
<1>5. IsLeafPage(pages[cur]) /\ pages[cur].leaf = TRUE
  BY <1>4, LeafKind DEF LeafIn
<1>6. LeafSized(pages[cur], cur = root)
  BY <1>3, <1>5, InternalKind DEF Sizes, InternalSized
<1>7. Len(pages[cur].entries) >= 1
  BY <1>6, TreeAssumption DEF LeafSized
<1>8. cur # root => Len(path) >= 2
  <2>1. path[1] = root
    BY <1>1 DEF Descent
  <2> QED
    BY <1>2, <2>1
<1> QED
  BY <1>1, <1>3, <1>4, <1>5, <1>6, <1>7, <1>8

\* The pages with an entry put in the leaf of its key, and with one taken out.
Given(key, value) ==
  LET cur == Last(Path(key))
      pos == LeafLowerBound(pages[cur], key)
  IN [pages EXCEPT ![cur] = Leaf(InsertAt(pages[cur].entries, pos, [key |-> key, value |-> value]), pages[cur].next)]

Taken(key) ==
  LET cur == Last(Path(key))
      pos == LeafLowerBound(pages[cur], key)
  IN [pages EXCEPT ![cur] = Leaf(RemoveAt(pages[cur].entries, pos), pages[cur].next)]

\* An insertion in a leaf with room keeps the tree.
LEMMA InsertIntoLeafSound ==
  ASSUME NEW h, NEW R, Tree(pages, root, h, R), Sizes(pages, root), Ready(write_set, call), NEW cur \in DOMAIN pages,
         LeafSized(pages[cur], cur = root), NEW all, LeafIn(Leaf(all, pages[cur].next), R[cur]),
         Len(all) = Len(pages[cur].entries) + 1, InsertIntoLeaf(cur, all)
  PROVE  TreeInv' /\ SameEntries([pages EXCEPT ![cur] = Leaf(all, pages[cur].next)], pages')
<1> DEFINE leaf == Leaf(all, pages[cur].next)
<1>1. Len(all) <= LeafMax /\ pages' = [pages EXCEPT ![cur].entries = all] /\ root' = root /\ Ready(write_set', call')
  BY DEF InsertIntoLeaf, Ready
<1>2. IsLeafPage(pages[cur]) /\ Len(pages[cur].entries) \in 1 .. LeafMax
        /\ (cur # root => Len(pages[cur].entries) >= LeafMax \div 2) /\ pages[cur].leaf = TRUE
  BY LeafKind DEF LeafSized
<1>3. DOMAIN pages' = DOMAIN pages /\ pages'[cur] = leaf /\ SameBut(pages', pages, cur)
  <2>1. pages' = [pages EXCEPT ![cur] = [pages[cur] EXCEPT !.entries = all]]
    BY <1>1
  <2>2. pages' = [pages EXCEPT ![cur] = leaf]
    BY <1>2, <2>1, OtherEntries
  <2> HIDE DEF leaf
  <2> QED
    BY <2>2 DEF SameBut
<1>30. pages' = [pages EXCEPT ![cur] = Leaf(all, pages[cur].next)]
  BY <1>1, <1>2, OtherEntries
<1>4. leaf.entries = all /\ leaf.next = pages[cur].next /\ leaf.leaf = TRUE
  BY DEF Leaf
<1> HIDE DEF leaf
<1>5. IsLeafPage(leaf) /\ LeafIn(leaf, R[cur])
  BY DEF leaf, LeafIn
<1>6. Fill(pages, pages', cur)
  BY <1>2, <1>3, <1>4 DEF Fill, SameBut
<1>7. LeafIn(pages'[cur], R[cur])
  BY <1>3, <1>5
<1>8. IsTree(pages', root)
  BY <1>6, <1>7, FillTree DEF IsTree
<1>9. Sizes(pages', root)
  <2>1. Len(all) \in 1 .. LeafMax /\ (cur # root => Len(all) >= LeafMax \div 2)
    BY <1>1, <1>2, LeastSizes, TreeAssumption, SMTT(30)
  <2>2. LeafSized(leaf, cur = root)
    BY <1>4, <1>5, <2>1 DEF LeafSized
  <2> QED
    BY <1>3, <2>2 DEF Sizes, SameBut
<1>10. Sound(pages', root, write_set', call')
  BY <1>1, <1>8, <1>9, SoundAtRest
<1>11. SameEntries([pages EXCEPT ![cur] = Leaf(all, pages[cur].next)], pages')
  BY <1>30 DEF SameEntries
<1> QED
  BY <1>1, <1>10, <1>11 DEF TreeInv

-----------------------------------------------------------------------------
\* A page that has split: one page is new and cur has changed.
Splits(ps, qs, cur, new, left, right) ==
  DOMAIN qs = DOMAIN ps \cup {new} /\ qs[cur] = left /\ qs[new] = right /\ SameBut(qs, ps, cur)

\* Two calls of WithPage put both halves in place.
LEMMA SplitPages ==
  ASSUME NEW ps, NEW cur \in DOMAIN ps, NEW new, new \notin DOMAIN ps, NEW left, NEW right,
         NEW qs, qs = WithPage(WithPage(ps, new, right), cur, left)
  PROVE  Splits(ps, qs, cur, new, left, right)
BY DEF Splits, SameBut, WithPage

FitsLeaf(n) == n \in 1 .. LeafMax /\ n >= LeafMax \div 2

\* Both halves of an over-full leaf are at least half full.
LEMMA LeafPartsFit ==
  ASSUME NEW n, n = StaysLeft(LeafMax), NEW m, m = LeafMax + 1 - n
  PROVE  n \in 0 .. LeafMax + 1 /\ FitsLeaf(n) /\ FitsLeaf(m)
<1>1. n \in Nat /\ n >= 1 /\ n <= LeafMax /\ n >= LeafMax \div 2 /\ m >= LeafMax \div 2
  BY SplitSizes
<1>2. m \in Nat /\ m >= 1 /\ m <= LeafMax
  BY <1>1, TreeAssumption
<1> QED
  BY <1>1, <1>2, TreeAssumption DEF FitsLeaf

\* Sequences that fit make leaves that are the halves of a page.
LEMMA HalvesOfLeaf ==
  ASSUME NEW l \in Seq(Entry), NEW r \in Seq(Entry), FitsLeaf(Len(l)), FitsLeaf(Len(r)),
         NEW left, NEW right, NEW pg, NEW new \in Nat, left = Leaf(l, new), right = Leaf(r, pg.next),
         IsLeafPage(pg), Joins(l, r, pg.entries)
  PROVE  /\ PageHalves(left, right.entries[1].key, right, pg, new)
         /\ LeafSized(left, FALSE) /\ LeafSized(right, FALSE)
<1>7. IsLeafPage(left) /\ left.entries = l /\ left.next = new /\ left.leaf = TRUE
  BY LeafOf
<1>8. IsLeafPage(right) /\ right.entries = r /\ right.next = pg.next /\ right.leaf = TRUE
  BY LeafOf, ZenonT(30)
<1>9. LeafJoin(left, right, pg)
  BY <1>7, <1>8 DEF LeafJoin
<1>10. Len(l) >= 1 /\ Len(r) >= 1
  BY TreeAssumption DEF FitsLeaf
<1>11. r[1].key \in Keys
  <2>1. 1 \in 1 .. Len(r)
    BY <1>10
  <2>2. r[1] \in Entry
    BY <2>1
  <2> QED
    BY <2>2 DEF Entry
<1>12. PageHalves(left, right.entries[1].key, right, pg, new)
  BY <1>7, <1>8, <1>9, <1>10, <1>11 DEF PageHalves, PageJoin
<1> QED
  BY <1>7, <1>8, <1>12 DEF LeafSized, FitsLeaf

HalvesLeaf(pg, new, left, right) ==
  /\ left = Leaf(SubSeq(pg.entries, 1, StaysLeft(LeafMax)), new)
  /\ right = Leaf(SubSeq(pg.entries, StaysLeft(LeafMax) + 1, Len(pg.entries)), pg.next)

\* The two halves of an over-full leaf.
LEMMA LeafHalves ==
  ASSUME NEW pg, IsLeafPage(pg), Len(pg.entries) = LeafMax + 1, NEW new \in Nat,
         NEW left, NEW right, HalvesLeaf(pg, new, left, right)
  PROVE  /\ PageHalves(left, right.entries[1].key, right, pg, new)
         /\ LeafSized(left, FALSE) /\ LeafSized(right, FALSE)
<1> PICK n : n = StaysLeft(LeafMax)
  OBVIOUS
<1> PICK m : m = LeafMax + 1 - n
  OBVIOUS
<1> PICK all : all = pg.entries
  OBVIOUS
<1>1. all \in Seq(Entry)
  BY DEF IsLeafPage
<1>2. n \in 0 .. LeafMax + 1 /\ FitsLeaf(n) /\ FitsLeaf(m)
  BY LeafPartsFit
<1>3. PICK l : l = SubSeq(all, 1, n)
  OBVIOUS
<1>4. PICK r : r = SubSeq(all, n + 1, Len(all))
  OBVIOUS
<1>5. n \in 0 .. Len(all) /\ Halves(all, n, l, r)
  BY <1>2, <1>3, <1>4 DEF Halves
<1>6. l \in Seq(Entry) /\ r \in Seq(Entry) /\ Len(l) = n /\ Len(r) = Len(all) - n /\ Joins(l, r, all)
  <2>1. AreHalves(Entry, all, n, l, r)
    BY <1>1, <1>5, Halved
  <2> QED
    BY <2>1 DEF AreHalves
<1>7. FitsLeaf(Len(l)) /\ FitsLeaf(Len(r))
  BY <1>2, <1>6, TreeAssumption
<1>8. left = Leaf(l, new) /\ right = Leaf(r, pg.next)
  BY <1>3, <1>4 DEF HalvesLeaf
<1> QED
  BY <1>6, <1>7, <1>8, HalvesOfLeaf

-----------------------------------------------------------------------------
(* A page splits. *)

Fits(pg) == LeafSized(pg, FALSE) \/ InternalSized(pg, FALSE)

\* W is ps with cur over-full, and qs is ps with cur split into left and right.
SplitsFrom(W, ps, qs, cur, new, left, k, right) ==
  /\ DOMAIN W = DOMAIN ps /\ cur \in DOMAIN ps /\ SameBut(W, ps, cur)
  /\ new = NewPageId(ps) /\ qs = WithPage(WithPage(ps, new, right), cur, left)
  /\ PageHalves(left, k, right, W[cur], new) /\ Fits(left) /\ Fits(right)

HasSplit(W, ps, qs, cur, new, left, k, right) ==
  /\ new \in Nat /\ new \notin DOMAIN W /\ new # cur
  /\ DOMAIN qs = DOMAIN W \cup {new} /\ SameBut(qs, W, cur) /\ SameBut(qs, ps, cur)
  /\ qs[cur] = left /\ qs[new] = right /\ IsFiniteSet(DOMAIN qs)
  /\ PageHalves(qs[cur], k, qs[new], W[cur], new)

\* What a split does to the set of pages.
LEMMA SplitOutcome ==
  ASSUME NEW W, IsFiniteSet(DOMAIN W), NEW ps, NEW qs, NEW cur, NEW new, NEW left, NEW k, NEW right,
         SplitsFrom(W, ps, qs, cur, new, left, k, right)
  PROVE  HasSplit(W, ps, qs, cur, new, left, k, right)
<1>1. new \in Nat /\ new \notin DOMAIN ps
  BY FreshPage DEF SplitsFrom
<1>2. Splits(ps, qs, cur, new, left, right)
  BY <1>1, SplitPages DEF SplitsFrom
<1>3. DOMAIN qs = DOMAIN W \cup {new} /\ qs[cur] = left /\ qs[new] = right /\ SameBut(qs, ps, cur)
  BY <1>2 DEF Splits, SplitsFrom
<1>4. SameBut(qs, W, cur)
  BY <1>3 DEF SameBut, SplitsFrom
<1>5. IsFiniteSet(DOMAIN qs)
  BY <1>3, FS_AddElement
<1>6. new \notin DOMAIN W /\ new # cur
  BY <1>1 DEF SplitsFrom
<1>7. PageHalves(qs[cur], k, qs[new], W[cur], new)
  BY <1>3 DEF SplitsFrom
<1> QED
  BY <1>1, <1>3, <1>4, <1>5, <1>6, <1>7 DEF HasSplit

PutsAbove(qs, l, k, r, top, rs) == top = NewPageId(qs) /\ rs = WithPage(qs, top, Internal(<<k>>, <<l, r>>))

\* The root splits and the new root makes the tree sound, with no call to come.
LEMMA RootSplits ==
  ASSUME NEW W, NEW rt, NEW h, NEW R, Tree(W, rt, h, R), NEW ps, NEW qs, NEW new, NEW left, NEW k, NEW right,
         SplitsFrom(W, ps, qs, rt, new, left, k, right), Sizes(ps, rt),
         NEW top, NEW rs, PutsAbove(qs, rt, k, new, top, rs),
         NEW ws, NEW c, Ready(ws, c)
  PROVE  Sound(rs, top, ws, c) /\ SameEntries(W, rs)
<1> PICK pg : pg = Internal(<<k>>, <<rt, new>>)
  OBVIOUS
<1>1. IsFiniteSet(DOMAIN W) /\ rt \in DOMAIN W /\ rt \in Nat
  BY DEF Tree
<1>2. /\ new \in Nat /\ new \notin DOMAIN W /\ new # rt
      /\ DOMAIN qs = DOMAIN W \cup {new} /\ SameBut(qs, W, rt) /\ SameBut(qs, ps, rt)
      /\ qs[rt] = left /\ qs[new] = right /\ IsFiniteSet(DOMAIN qs)
      /\ PageHalves(qs[rt], k, qs[new], W[rt], new)
  <2>1. HasSplit(W, ps, qs, rt, new, left, k, right)
    BY <1>1, SplitOutcome
  <2> QED
    BY <2>1 DEF HasSplit
<1>3. top \in Nat /\ top \notin DOMAIN qs
  BY <1>2, FreshPage DEF PutsAbove
<1>4. DOMAIN rs = DOMAIN W \cup {new, top} /\ rs[top] = pg /\ \A p \in DOMAIN qs : rs[p] = qs[p]
  <2>1. rs = WithPage(qs, top, pg)
    BY DEF PutsAbove
  <2> QED
    BY <1>2, <1>3, <2>1 DEF WithPage
<1>5. top \notin DOMAIN W /\ top # new /\ top # rt
  BY <1>1, <1>2, <1>3
<1>6. SameBut(rs, W, rt) /\ rs[rt] = left /\ rs[new] = right
  BY <1>1, <1>2, <1>4 DEF SameBut
<1>7. PageHalves(rs[rt], k, rs[new], W[rt], new)
  BY <1>2, <1>6
<1>8. IsTree(rs, top)
  BY <1>2, <1>3, <1>4, <1>5, <1>6, <1>7, SplitRoot
<1>9. InternalSized(pg, TRUE)
  <2>1. k \in Keys
    BY <1>2 DEF PageHalves
  <2>2. HasMore(Internal(<<>>, <<rt>>), 1, k, new, pg)
    BY <1>1, <1>2, <2>1, NewRoot
  <2>3. IsInternalPage(pg)
    BY <2>2 DEF HasMore
  <2>4. pg.children = <<rt, new>>
    BY DEF Internal
  <2>5. Len(<<rt, new>>) = 2 /\ 2 \in 2 .. InternalMax
    BY TreeAssumption
  <2> QED
    BY <2>3, <2>4, <2>5 DEF InternalSized
<1>10. Sizes(rs, top)
  <2> SUFFICES ASSUME NEW p \in DOMAIN rs PROVE LeafSized(rs[p], p = top) \/ InternalSized(rs[p], p = top)
    BY DEF Sizes
  <2>1. CASE p = top
    BY <1>4, <1>9, <2>1
  <2>2. CASE p = rt \/ p = new
    BY <1>5, <1>6, <2>2 DEF Fits, SplitsFrom, LeafSized, InternalSized
  <2>3. CASE p # top /\ p # rt /\ p # new
    <3>1. p \in DOMAIN ps /\ rs[p] = ps[p]
      BY <1>2, <1>4, <2>3 DEF SameBut, SplitsFrom
    <3>2. LeafSized(ps[p], p = rt) \/ InternalSized(ps[p], p = rt)
      BY <3>1 DEF Sizes
    <3> QED
      BY <2>3, <3>1, <3>2 DEF LeafSized, InternalSized
  <2> QED
    BY <2>1, <2>2, <2>3
<1>11. SameEntries(W, rs)
  <2>1. SameEntries(W, qs)
    <3>1. PageJoin(qs[rt], k, qs[new], W[rt])
      BY <1>2 DEF PageHalves
    <3> QED
      BY <1>1, <1>2, <3>1, SplitHolds
  <2>2. SameEntries(qs, rs)
    <3>1. rs[top].leaf = FALSE
      BY <1>4 DEF Internal
    <3> QED
      BY <1>2, <1>3, <1>4, <3>1, AddedHolds
  <2> QED
    BY <2>1, <2>2, EntriesTransitive
<1>12. Sound(rs, top, ws, c)
  BY <1>8, <1>10, SoundAtRest
<1> QED
  BY <1>11, <1>12

Crowned(W, rt, ps, qs, new, k, top, rs) ==
  \E h, R, left, right :
    /\ Tree(W, rt, h, R) /\ SplitsFrom(W, ps, qs, rt, new, left, k, right)
    /\ Sizes(ps, rt) /\ PutsAbove(qs, rt, k, new, top, rs)

\* The same, from one fact.
LEMMA CrownedSound ==
  ASSUME NEW W, NEW rt, NEW ps, NEW qs, NEW new, NEW k, NEW top, NEW rs, Crowned(W, rt, ps, qs, new, k, top, rs),
         NEW ws, NEW c, Ready(ws, c)
  PROVE  Sound(rs, top, ws, c) /\ SameEntries(W, rs)
<1>1. PICK h, R, left, right :
        /\ Tree(W, rt, h, R) /\ SplitsFrom(W, ps, qs, rt, new, left, k, right)
        /\ Sizes(ps, rt) /\ PutsAbove(qs, rt, k, new, top, rs)
  BY DEF Crowned
<1> QED
  BY <1>1, RootSplits, ZenonT(30)

PromotesFrom(ps, rt, cur, ws, i) ==
  /\ Chain(ps, ws) /\ \A j \in 1 .. Len(ws) : ws[j] # cur
  /\ ws[1] = rt \/ Len(ps[ws[1]].children) < InternalMax
  /\ IsChild(ps, Last(ws), i, cur)

\* Another page splits and the tree is sound once the call for its parent has been
\* made.
LEMMA PageSplits ==
  ASSUME NEW W, NEW rt, NEW h, NEW R, Tree(W, rt, h, R), NEW ps, NEW qs, NEW cur, cur # rt, NEW new, NEW left, NEW k, NEW right,
         SplitsFrom(W, ps, qs, cur, new, left, k, right), Sizes(ps, rt),
         NEW ws, NEW i, PromotesFrom(ps, rt, cur, ws, i), NEW c, c = [of |-> "InsertInternal", key |-> k, child |-> new]
  PROVE  Sound(qs, rt, ws, c) /\ SameEntries(W, qs)
<1>0. /\ Chain(ps, ws) /\ \A j \in 1 .. Len(ws) : ws[j] # cur
      /\ ws[1] = rt \/ Len(ps[ws[1]].children) < InternalMax
      /\ IsChild(ps, Last(ws), i, cur)
  BY DEF PromotesFrom
<1> PICK u : u = Last(ws)
  OBVIOUS
<1>1. IsFiniteSet(DOMAIN W) /\ rt \in DOMAIN W /\ rt \in Nat
  BY DEF Tree
<1>2. /\ new \in Nat /\ new \notin DOMAIN W /\ new # cur
      /\ DOMAIN qs = DOMAIN W \cup {new} /\ SameBut(qs, W, cur) /\ SameBut(qs, ps, cur)
      /\ qs[cur] = left /\ qs[new] = right
      /\ PageHalves(qs[cur], k, qs[new], W[cur], new)
  <2>1. HasSplit(W, ps, qs, cur, new, left, k, right)
    BY <1>1, SplitOutcome
  <2> QED
    BY <2>1 DEF HasSplit
<1>3. DOMAIN W = DOMAIN ps /\ SameBut(W, ps, cur)
  BY DEF SplitsFrom
<1>4. ws \in Seq(DOMAIN ps) /\ Len(ws) \in Nat /\ Len(ws) >= 1 /\ u = ws[Len(ws)] /\ \A j \in 1 .. Len(ws) : ws[j] \in DOMAIN ps
  BY <1>0 DEF Chain, Last
<1>5. 1 \in 1 .. Len(ws) /\ Len(ws) \in 1 .. Len(ws)
  BY <1>4
<1>6. u \in DOMAIN W /\ u # cur /\ W[u] = ps[u] /\ qs[u] = ps[u]
  BY <1>0, <1>2, <1>3, <1>4, <1>5 DEF SameBut
<1>7. IsChild(W, u, i, cur)
  BY <1>0, <1>6 DEF IsChild
<1>8. Len(W[u].keys) >= 1
  <2>1. InternalSized(ps[u], u = rt)
    BY <1>0, <1>3, <1>6, LeafKind DEF Sizes, LeafSized, IsChild
  <2>2. Len(ps[u].children) = Len(ps[u].keys) + 1 /\ Len(ps[u].keys) \in Nat
    BY <2>1, InternalKind DEF InternalSized
  <2>3. Len(ps[u].children) >= 2
    BY <2>1, TreeAssumption DEF InternalSized
  <2> QED
    BY <1>6, <2>2, <2>3
<1>9. /\ IsTree([qs EXCEPT ![u] = Grown(@, k, new)], rt)
      /\ HasMore(W[u], i, k, new, Grown(qs[u], k, new))
  BY <1>2, <1>6, <1>7, <1>8, SplitUnder
<1>10. c.of = "InsertInternal" /\ c.key = k /\ c.child = new
  OBVIOUS
<1>11. ViewOf(qs, ws, c) = [qs EXCEPT ![u] = Grown(@, k, new)]
  BY <1>10 DEF ViewOf
<1>12. Sizes(qs, rt)
  <2> SUFFICES ASSUME NEW p \in DOMAIN qs PROVE LeafSized(qs[p], p = rt) \/ InternalSized(qs[p], p = rt)
    BY DEF Sizes
  <2>1. CASE p = cur \/ p = new
    BY <1>1, <1>2, <2>1 DEF Fits, SplitsFrom, LeafSized, InternalSized
  <2>2. CASE p # cur /\ p # new
    <3>1. p \in DOMAIN ps /\ qs[p] = ps[p]
      BY <1>2, <1>3, <2>2 DEF SameBut
    <3> QED
      BY <3>1 DEF Sizes
  <2> QED
    BY <2>1, <2>2
<1>13. Chain(qs, ws)
  <2>1. \A j \in 1 .. Len(ws) : ws[j] \in DOMAIN qs /\ qs[ws[j]] = ps[ws[j]]
    BY <1>0, <1>2, <1>3, <1>4 DEF SameBut
  <2> QED
    BY <1>0, <2>1, SameChain
<1>14. Calling(qs, rt, ws, c)
  <2>1. qs[ws[1]] = ps[ws[1]]
    BY <1>0, <1>2, <1>3, <1>4, <1>5 DEF SameBut
  <2>2. ws[1] = rt \/ Len(qs[ws[1]].children) < InternalMax
    BY <1>0, <2>1
  <2>3. HasMore(qs[Last(ws)], i, c.key, c.child, Grown(qs[Last(ws)], c.key, c.child))
    BY <1>6, <1>9, <1>10
  <2> QED
    BY <1>10, <1>13, <2>2, <2>3 DEF Calling
<1>15. IsTree(ViewOf(qs, ws, c), rt)
  BY <1>9, <1>11
<1>16. SameEntries(W, qs)
  <2>1. PageJoin(qs[cur], k, qs[new], W[cur])
    BY <1>2 DEF PageHalves
  <2>2. cur \in DOMAIN W
    BY <1>3 DEF SplitsFrom
  <2> QED
    BY <1>2, <2>1, <2>2, SplitHolds
<1>17. Sound(qs, rt, ws, c)
  BY <1>12, <1>14, <1>15, SoundCalling
<1> QED
  BY <1>16, <1>17

Promoted(W, rt, ps, qs, new, k, ws) ==
  \E h, R, cur, left, right, i :
    /\ Tree(W, rt, h, R) /\ cur # rt /\ SplitsFrom(W, ps, qs, cur, new, left, k, right)
    /\ Sizes(ps, rt) /\ PromotesFrom(ps, rt, cur, ws, i)

\* The same, from one fact.
LEMMA PromotedSound ==
  ASSUME NEW W, NEW rt, NEW ps, NEW qs, NEW new, NEW k, NEW ws, Promoted(W, rt, ps, qs, new, k, ws)
  PROVE  Sound(qs, rt, ws, [of |-> "InsertInternal", key |-> k, child |-> new]) /\ SameEntries(W, qs)
<1>1. PICK h, R, cur, left, right, i :
        /\ Tree(W, rt, h, R) /\ cur # rt /\ SplitsFrom(W, ps, qs, cur, new, left, k, right)
        /\ Sizes(ps, rt) /\ PromotesFrom(ps, rt, cur, ws, i)
  BY DEF Promoted
<1> QED
  BY <1>1, PageSplits, ZenonT(30)

-----------------------------------------------------------------------------
(* An insertion. *)

Refills(ps, R, cur, pg, W) ==
  /\ cur \in DOMAIN ps /\ ps[cur].leaf = TRUE
  /\ pg.next = ps[cur].next /\ LeafIn(pg, R[cur]) /\ W = [ps EXCEPT ![cur] = pg]

\* The tree with a leaf over-full.
LEMMA FilledLeaf ==
  ASSUME NEW ps, NEW rt, NEW h, NEW R, Tree(ps, rt, h, R), NEW cur, NEW pg, NEW W, Refills(ps, R, cur, pg, W)
  PROVE  Tree(W, rt, h, R) /\ DOMAIN W = DOMAIN ps /\ SameBut(W, ps, cur) /\ W[cur] = pg
<1>1. DOMAIN W = DOMAIN ps /\ SameBut(W, ps, cur) /\ W[cur] = pg
  BY DEF Refills, SameBut
<1>2. IsLeafPage(pg) /\ pg.leaf = TRUE
  BY LeafKind DEF LeafIn, Refills
<1>3. Fill(ps, W, cur)
  BY <1>1, <1>2 DEF Fill, SameBut, Refills
<1>4. LeafIn(W[cur], R[cur])
  BY <1>1 DEF Refills
<1> QED
  BY <1>1, <1>3, <1>4, FillTree

\* An over-full leaf splits, as the root or below a parent.
LEMMA SplitLeafSound ==
  ASSUME NEW h, NEW R, Tree(pages, root, h, R), Sizes(pages, root), Ready(write_set, call), NEW key,
         NEW path, Descent(pages, h, R, key, root, path), NEW cur, cur = Last(path), cur \in DOMAIN pages,
         pages[cur].leaf = TRUE, cur # root => Len(path) >= 2, LeafSized(pages[cur], cur = root),
         NEW all, LeafIn(Leaf(all, pages[cur].next), R[cur]), Len(all) = Len(pages[cur].entries) + 1,
         SplitLeaf(path, all)
  PROVE  TreeInv' /\ SameEntries([pages EXCEPT ![cur] = Leaf(all, pages[cur].next)], pages')
<1> PICK n : n = StaysLeft(LeafMax)
  OBVIOUS
<1> PICK new : new = NewPageId(pages)
  OBVIOUS
<1> PICK left : left = Leaf(SubSeq(all, 1, n), new)
  OBVIOUS
<1> PICK right : right = Leaf(SubSeq(all, n + 1, Len(all)), pages[cur].next)
  OBVIOUS
<1> PICK k : k = right.entries[1].key
  OBVIOUS
<1> PICK qs : qs = WithPage(WithPage(pages, new, right), cur, left)
  OBVIOUS
<1> PICK pg : pg = Leaf(all, pages[cur].next)
  OBVIOUS
<1> PICK W : W = [pages EXCEPT ![cur] = pg]
  OBVIOUS
<1>1. /\ Len(all) > LeafMax
      /\ \/ cur = root /\ GrowRoot(qs, cur, k, new)
         \/ cur # root /\ pages' = qs /\ Promote(k, new, HeldAncestors(path, Roomy)) /\ root' = root
  BY DEF SplitLeaf
<1>2. pg.entries = all /\ pg.next = pages[cur].next /\ LeafIn(pg, R[cur]) /\ IsLeafPage(pg)
  <2>1. LeafIn(pg, R[cur])
    OBVIOUS
  <2>2. IsLeafPage(pg)
    BY <2>1 DEF LeafIn
  <2> QED
    BY <2>1, <2>2 DEF Leaf
<1>3. Tree(W, root, h, R) /\ DOMAIN W = DOMAIN pages /\ SameBut(W, pages, cur) /\ W[cur] = pg
  <2>1. Refills(pages, R, cur, pg, W)
    BY <1>2 DEF Refills
  <2> QED
    BY <2>1, FilledLeaf
<1>4. Len(all) = LeafMax + 1
  BY <1>1, LeafKind, TreeAssumption DEF LeafSized
<1>5. new \in Nat
  BY FreshPage DEF Tree
<1>6. PageHalves(left, k, right, pg, new) /\ LeafSized(left, FALSE) /\ LeafSized(right, FALSE)
  <2>1. HalvesLeaf(pg, new, left, right)
    BY <1>2 DEF HalvesLeaf
  <2>2. IsLeafPage(pg) /\ Len(pg.entries) = LeafMax + 1
    BY <1>2, <1>4
  <2> QED
    BY <1>5, <2>1, <2>2, LeafHalves
<1>7. SplitsFrom(W, pages, qs, cur, new, left, k, right)
  BY <1>3, <1>6 DEF SplitsFrom, Fits
<1>8. CASE cur = root
  <2> PICK top : top = NewPageId(qs)
    OBVIOUS
  <2>1. pages' = WithPage(qs, top, Internal(<<k>>, <<root, new>>)) /\ root' = top /\ Done
    BY <1>1, <1>8 DEF GrowRoot
  <2>2. Ready(write_set', call')
    BY <2>1 DEF Done, Ready
  <2>3. SplitsFrom(W, pages, qs, root, new, left, k, right)
    BY <1>7, <1>8
  <2>4. PutsAbove(qs, root, k, new, top, pages')
    BY <2>1 DEF PutsAbove
  <2>5. Crowned(W, root, pages, qs, new, k, top, pages')
    BY <1>3, <2>3, <2>4 DEF Crowned
  <2>6. Sound(pages', top, write_set', call') /\ SameEntries(W, pages')
    BY <2>2, <2>5, CrownedSound, ZenonT(30)
  <2> QED
    BY <2>1, <2>6 DEF TreeInv
<1>9. CASE cur # root
  <2> PICK ws : ws = HeldAncestors(path, Roomy)
    OBVIOUS
  <2>1. pages' = qs /\ root' = root /\ write_set' = ws /\ call' = [of |-> "InsertInternal", key |-> k, child |-> new]
    BY <1>1, <1>9 DEF Promote
  <2>2. /\ Chain(pages, ws) /\ (ws[1] = root \/ ws[1] \in Roomy)
        /\ IsChild(pages, Last(ws), UpperBound(pages[Last(ws)], key), cur)
    BY <1>9, HeldChain
  <2>3. ASSUME NEW j \in 1 .. Len(ws) PROVE ws[j] # cur
    BY <2>2 DEF Chain
  <2>4. ws[1] = root \/ Len(pages[ws[1]].children) < InternalMax
    <3>1. 1 \in 1 .. Len(ws)
      BY <2>2 DEF Chain
    <3>2. pages[ws[1]].leaf # TRUE
      BY <2>2, <3>1 DEF Chain
    <3>3. ws[1] \in Roomy => Size(pages[ws[1]]) < InternalMax
      BY DEF Roomy, HasRoom
    <3> QED
      BY <2>2, <3>2, <3>3 DEF Size
  <2> PICK i : i = UpperBound(pages[Last(ws)], key)
    OBVIOUS
  <2>5. PromotesFrom(pages, root, cur, ws, i)
    BY <2>2, <2>3, <2>4 DEF PromotesFrom
  <2>6. Promoted(W, root, pages, qs, new, k, ws)
    BY <1>3, <1>7, <1>9, <2>5 DEF Promoted
  <2>7. Sound(qs, root, ws, [of |-> "InsertInternal", key |-> k, child |-> new]) /\ SameEntries(W, qs)
    BY <2>6, PromotedSound, ZenonT(30)
  <2> QED
    BY <2>1, <2>7 DEF TreeInv
<1> QED
  BY <1>8, <1>9

\* A call of Insert up to its first call of InsertInternal keeps the invariant.
LEMMA InsertKeySound ==
  ASSUME TreeInv, NEW key \in Keys, NEW value \in ValuesFor[key], InsertKey(key, value)
  PROVE  TreeInv' /\ SameEntries(Given(key, value), pages')
<1> PICK path : path = Path(key)
  OBVIOUS
<1> PICK cur : cur = Last(path)
  OBVIOUS
<1> PICK pos : pos = LeafLowerBound(pages[cur], key)
  OBVIOUS
<1> PICK all : all = InsertAt(pages[cur].entries, pos, [key |-> key, value |-> value])
  OBVIOUS
<1>1. root # NoPage /\ call = NoCall /\ ~HasKeyAt(pages[cur], pos, key) /\ (InsertIntoLeaf(cur, all) \/ SplitLeaf(path, all))
  BY DEF InsertKey, Idle
<1>2. IsTree(pages, root) /\ Sizes(pages, root) /\ Ready(write_set, call) /\ HaveKeys(pages)
  BY <1>1, AtRest DEF TreeInv
<1>3. PICK h, R : Tree(pages, root, h, R)
  BY <1>2 DEF IsTree
<1>4. key \in Int
  BY TreeAssumption
<1>5. /\ Descent(pages, h, R, key, root, path) /\ cur \in DOMAIN pages /\ pages[cur].leaf = TRUE
      /\ LeafIn(pages[cur], R[cur]) /\ key \in R[cur] /\ R[cur] \in SUBSET Int
      /\ LeafSized(pages[cur], cur = root) /\ Len(pages[cur].entries) >= 1
      /\ cur # root => Len(path) >= 2
  BY <1>2, <1>3, <1>4, AtLeaf
<1>6. LeafIn(Leaf(all, pages[cur].next), R[cur]) /\ Len(all) = Len(pages[cur].entries) + 1
  <2>1. AddsEntry(pages[cur], key, value, all)
    BY <1>1 DEF AddsEntry
  <2> PICK pg, A : pg = pages[cur] /\ A = R[cur]
    OBVIOUS
  <2>2. LeafIn(pg, A) /\ key \in A /\ A \in SUBSET Int /\ Len(pg.entries) >= 1 /\ AddsEntry(pg, key, value, all)
    BY <1>5, <2>1
  <2>3. LeafIn(Leaf(all, pg.next), A) /\ Len(all) = Len(pg.entries) + 1
    BY <2>2, EntryAdded
  <2> QED
    BY <2>3
<1>20. Given(key, value) = [pages EXCEPT ![cur] = Leaf(all, pages[cur].next)]
  BY DEF Given
<1>7. CASE InsertIntoLeaf(cur, all)
  <2>1. TreeInv' /\ SameEntries([pages EXCEPT ![cur] = Leaf(all, pages[cur].next)], pages')
    BY <1>2, <1>3, <1>5, <1>6, <1>7, InsertIntoLeafSound
  <2> QED
    BY <1>20, <2>1
<1>8. CASE SplitLeaf(path, all)
  <2>1. TreeInv' /\ SameEntries([pages EXCEPT ![cur] = Leaf(all, pages[cur].next)], pages')
    BY <1>2, <1>3, <1>5, <1>6, <1>8, SplitLeafSound
  <2> QED
    BY <1>20, <2>1
<1> QED
  BY <1>1, <1>7, <1>8

-----------------------------------------------------------------------------
(* InsertInternal. *)

FitsInternal(n) == n \in 2 .. InternalMax /\ n >= LeastChildren

\* Both halves of an over-full internal page are at least half full.
LEMMA InternalPartsFit ==
  ASSUME NEW n, n = StaysLeft(InternalMax), NEW m, m = InternalMax + 1 - n
  PROVE  n \in 1 .. InternalMax /\ n \in 0 .. InternalMax + 1 /\ FitsInternal(n) /\ FitsInternal(m)
<1>1. n \in Nat /\ n >= 2 /\ n <= InternalMax - 1 /\ n >= LeastChildren /\ m >= LeastChildren
  BY SplitSizes
<1>2. m \in Nat /\ m >= 2 /\ m <= InternalMax
  BY <1>1, TreeAssumption
<1> QED
  BY <1>1, <1>2, TreeAssumption DEF FitsInternal

\* Sequences that fit make internal pages that are the halves of a page.
LEMMA HalvesOfInternal ==
  ASSUME NEW lk \in Seq(Keys), NEW lc \in Seq(Nat), Len(lc) = Len(lk) + 1, FitsInternal(Len(lc)),
         NEW rk \in Seq(Keys), NEW rc \in Seq(Nat), Len(rc) = Len(rk) + 1, FitsInternal(Len(rc)),
         NEW left, NEW right, left = Internal(lk, lc), right = Internal(rk, rc),
         NEW pg, IsInternalPage(pg), NEW k \in Keys, KeysJoin(lk, k, rk, pg.keys), Joins(lc, rc, pg.children), NEW new
  PROVE  /\ PageHalves(left, k, right, pg, new)
         /\ InternalSized(left, FALSE) /\ InternalSized(right, FALSE)
<1>1. IsInternalPage(left) /\ left.keys = lk /\ left.children = lc /\ left.leaf = FALSE
  BY InternalOf
<1>2. IsInternalPage(right) /\ right.keys = rk /\ right.children = rc /\ right.leaf = FALSE
  BY InternalOf
<1>3. InternalJoin(left, k, right, pg)
  BY <1>1, <1>2 DEF InternalJoin
<1>4. PageHalves(left, k, right, pg, new)
  BY <1>1, <1>3 DEF PageHalves, PageJoin
<1> QED
  BY <1>1, <1>2, <1>4 DEF InternalSized, FitsInternal

HalvesInternal(pg, left, right) ==
  LET n == StaysLeft(InternalMax)
  IN  /\ left = Internal(SubSeq(pg.keys, 1, n - 1), SubSeq(pg.children, 1, n))
      /\ right = Internal(SubSeq(pg.keys, n + 1, Len(pg.keys)), SubSeq(pg.children, n + 1, Len(pg.children)))

\* The two halves of an over-full internal page.
LEMMA InternalHalves ==
  ASSUME NEW pg, IsInternalPage(pg), Len(pg.children) = InternalMax + 1, NEW left, NEW right, HalvesInternal(pg, left, right),
         NEW new
  PROVE  /\ PageHalves(left, pg.keys[StaysLeft(InternalMax)], right, pg, new)
         /\ InternalSized(left, FALSE) /\ InternalSized(right, FALSE)
<1> PICK n : n = StaysLeft(InternalMax)
  OBVIOUS
<1> PICK m : m = InternalMax + 1 - n
  OBVIOUS
<1> PICK keys : keys = pg.keys
  OBVIOUS
<1> PICK children : children = pg.children
  OBVIOUS
<1> PICK k : k = keys[n]
  OBVIOUS
<1>1. keys \in Seq(Keys) /\ children \in Seq(Nat) /\ Len(children) = Len(keys) + 1 /\ Len(keys) \in Nat
  BY DEF IsInternalPage
<1>2. n \in 1 .. InternalMax /\ n \in 0 .. InternalMax + 1 /\ FitsInternal(n) /\ FitsInternal(m)
  BY InternalPartsFit
<1>3. Len(keys) = InternalMax
  BY <1>1, TreeAssumption
<1>4. PICK lk : lk = SubSeq(keys, 1, n - 1)
  OBVIOUS
<1>5. PICK rk : rk = SubSeq(keys, n + 1, Len(keys))
  OBVIOUS
<1>6. PICK lc : lc = SubSeq(children, 1, n)
  OBVIOUS
<1>7. PICK rc : rc = SubSeq(children, n + 1, Len(children))
  OBVIOUS
<1>8. left = Internal(lk, lc) /\ right = Internal(rk, rc)
  BY <1>4, <1>5, <1>6, <1>7 DEF HalvesInternal
<1>9. n \in 1 .. Len(keys) /\ KeyHalves(keys, n, lk, rk)
  BY <1>2, <1>3, <1>4, <1>5 DEF KeyHalves
<1>10. n \in 0 .. Len(children) /\ Halves(children, n, lc, rc)
  BY <1>2, <1>6, <1>7 DEF Halves
<1>11. lk \in Seq(Keys) /\ rk \in Seq(Keys) /\ Len(lk) = n - 1 /\ Len(rk) = Len(keys) - n /\ KeysJoin(lk, k, rk, keys)
  <2>1. keys \in Seq(Keys)
    BY <1>1
  <2>2. AreKeyHalves(Keys, keys, n, lk, rk)
    BY <1>9, <2>1, KeysHalved
  <2> QED
    BY <2>2 DEF AreKeyHalves
<1>12. lc \in Seq(Nat) /\ rc \in Seq(Nat) /\ Len(lc) = n /\ Len(rc) = Len(children) - n /\ Joins(lc, rc, children)
  <2>1. children \in Seq(Nat)
    BY <1>1
  <2>2. AreHalves(Nat, children, n, lc, rc)
    BY <1>10, <2>1, Halved
  <2> QED
    BY <2>2 DEF AreHalves
<1>13. Len(lc) = Len(lk) + 1 /\ Len(rc) = Len(rk) + 1 /\ Len(lc) = n /\ Len(rc) = m
  <2>1. n \in Int /\ InternalMax \in Int /\ Len(keys) = InternalMax /\ Len(children) = InternalMax + 1
    BY <1>1, <1>2, <1>3, TreeAssumption
  <2>2. Len(lk) = n - 1 /\ Len(rk) = Len(keys) - n /\ Len(lc) = n /\ Len(rc) = Len(children) - n
    BY <1>11, <1>12
  <2> QED
    BY <2>1, <2>2, SMTT(30)
<1>14. FitsInternal(Len(lc)) /\ FitsInternal(Len(rc))
  BY <1>2, <1>13
<1>15. k \in Keys
  BY <1>1, <1>9
<1>16. KeysJoin(lk, k, rk, pg.keys) /\ Joins(lc, rc, pg.children)
  BY <1>11, <1>12
<1> QED
  BY <1>8, <1>11, <1>12, <1>13, <1>14, <1>15, <1>16, HalvesOfInternal

\* The page a call is for and what it is to become.
LEMMA CalledPage ==
  ASSUME NEW ps, NEW rt, NEW ws, NEW c, Sound(ps, rt, ws, c), c.of = "InsertInternal"
  PROVE  /\ IsTree(ViewOf(ps, ws, c), rt) /\ Sizes(ps, rt) /\ Chain(ps, ws)
         /\ (ws[1] = rt \/ Len(ps[ws[1]].children) < InternalMax)
         /\ \E i : HasMore(ps[Last(ws)], i, c.key, c.child, Grown(ps[Last(ws)], c.key, c.child))
         /\ DOMAIN ViewOf(ps, ws, c) = DOMAIN ps /\ Last(ws) \in DOMAIN ps /\ SameBut(ViewOf(ps, ws, c), ps, Last(ws))
         /\ ViewOf(ps, ws, c)[Last(ws)] = Grown(ps[Last(ws)], c.key, c.child)
<1>1. ~Ready(ws, c)
  BY DEF Ready, NoCall
<1>2. IsTree(ViewOf(ps, ws, c), rt) /\ Sizes(ps, rt) /\ Calling(ps, rt, ws, c)
  BY <1>1 DEF Sound
<1>3. DOMAIN ViewOf(ps, ws, c) = DOMAIN ps /\ Last(ws) \in DOMAIN ps /\ SameBut(ViewOf(ps, ws, c), ps, Last(ws))
         /\ ViewOf(ps, ws, c)[Last(ws)] = Grown(ps[Last(ws)], c.key, c.child)
  BY <1>2, ViewPages
<1>4. /\ Chain(ps, ws) /\ (ws[1] = rt \/ Len(ps[ws[1]].children) < InternalMax)
      /\ \E i : HasMore(ps[Last(ws)], i, c.key, c.child, Grown(ps[Last(ws)], c.key, c.child))
  BY <1>2 DEF Calling
<1> QED
  BY <1>2, <1>3, <1>4

\* A chain of more than one page is at least two long.
LEMMA LongChain ==
  ASSUME NEW ps, NEW ws, Chain(ps, ws), ws[1] # Last(ws)
  PROVE  Len(ws) >= 2
<1> PICK n : n = Len(ws)
  OBVIOUS
<1>1. n \in Nat /\ n >= 1
  BY DEF Chain
<1>2. n # 1
  BY DEF Last
<1>3. n >= 2
  BY <1>1, <1>2
<1> QED
  BY <1>3

\* A chain without its last page is a chain that ends in that page's parent.
LEMMA ShorterChain ==
  ASSUME NEW ps, NEW ws, Chain(ps, ws), Len(ws) >= 2, NEW vs, vs = Front(ws)
  PROVE  /\ Chain(ps, vs) /\ vs[1] = ws[1] /\ (\E i : IsChild(ps, Last(vs), i, Last(ws)))
         /\ \A j \in 1 .. Len(vs) : vs[j] # Last(ws)
<1> DEFINE n == Len(ws)
<1>1. ws \in Seq(DOMAIN ps) /\ n \in Nat /\ n >= 2
  BY DEF Chain
<1>2. vs \in Seq(DOMAIN ps) /\ Len(vs) = n - 1 /\ \A j \in 1 .. n - 1 : vs[j] = ws[j]
  BY <1>1 DEF Front
<1>3. \A j \in 1 .. n - 1 : j \in 1 .. n /\ j < n
  BY <1>1
<1>4. n \in 1 .. n /\ n - 1 \in 1 .. n - 1 /\ 1 \in 1 .. n - 1 /\ (n - 1) + 1 = n
  BY <1>1
<1>5. Last(ws) = ws[n] /\ Last(vs) = ws[n - 1] /\ vs[1] = ws[1]
  BY <1>2, <1>4 DEF Last
<1>6. \E i : IsChild(ps, Last(vs), i, Last(ws))
  <2>1. \E i : IsChild(ps, ws[n - 1], i, ws[(n - 1) + 1])
    BY <1>4 DEF Chain
  <2> QED
    BY <1>4, <1>5, <2>1
<1>7. \A j \in 1 .. Len(vs) : vs[j] # Last(ws)
  BY <1>2, <1>3, <1>4, <1>5 DEF Chain
<1>8. Chain(ps, vs)
  <2>1. \A j \in 1 .. Len(vs) : ~ps[vs[j]].leaf
    BY <1>2, <1>3 DEF Chain
  <2>2. \A i, j \in 1 .. Len(vs) : i < j => vs[i] # vs[j]
    BY <1>2, <1>3 DEF Chain
  <2>3. ASSUME NEW j \in 1 .. Len(vs) - 1 PROVE \E i : IsChild(ps, vs[j], i, vs[j + 1])
    <3>1. j \in 1 .. n - 1 /\ j + 1 \in 1 .. n - 1
      BY <1>1, <1>2
    <3>2. \E i : IsChild(ps, ws[j], i, ws[j + 1])
      BY <3>1 DEF Chain
    <3> QED
      BY <1>2, <3>1, <3>2
  <2>4. Len(vs) >= 1
    BY <1>1, <1>2
  <2> QED
    BY <1>2, <2>1, <2>2, <2>3, <2>4 DEF Chain
<1> QED
  BY <1>5, <1>6, <1>7, <1>8

\* The call for a page with one more or one less child is done when the page has been replaced.
LEMMA CallDone ==
  ASSUME NEW ps, NEW rt, NEW V, IsTree(V, rt), Sizes(ps, rt), NEW cur, DOMAIN V = DOMAIN ps, cur \in DOMAIN ps, SameBut(V, ps, cur),
         InternalSized(V[cur], cur = rt), NEW ws, NEW c, Ready(ws, c)
  PROVE  Sound(V, rt, ws, c)
<1>1. Sizes(V, rt)
  <2> SUFFICES ASSUME NEW p \in DOMAIN V PROVE LeafSized(V[p], p = rt) \/ InternalSized(V[p], p = rt)
    BY DEF Sizes
  <2>1. CASE p = cur
    BY <2>1
  <2>2. CASE p # cur
    BY <2>2 DEF Sizes, SameBut
  <2> QED
    BY <2>1, <2>2
<1> QED
  BY <1>1, SoundAtRest

\* Each call of InsertInternal keeps the invariant.
LEMMA InsertInternalSound ==
  ASSUME TreeInv, InsertInternal
  PROVE  TreeInv' /\ SameEntries(pages, pages')
<1> PICK cur : cur = Last(write_set)
  OBVIOUS
<1> PICK big : big = Grown(pages[cur], call.key, call.child)
  OBVIOUS
<1> PICK n : n = StaysLeft(InternalMax)
  OBVIOUS
<1> PICK new : new = NewPageId(pages)
  OBVIOUS
<1> PICK left : left = Internal(SubSeq(big.keys, 1, n - 1), SubSeq(big.children, 1, n))
  OBVIOUS
<1> PICK right : right = Internal(SubSeq(big.keys, n + 1, Len(big.keys)), SubSeq(big.children, n + 1, Len(big.children)))
  OBVIOUS
<1> PICK qs : qs = WithPage(WithPage(pages, new, right), cur, left)
  OBVIOUS
<1> PICK k : k = big.keys[n]
  OBVIOUS
<1> PICK W : W = ViewOf(pages, write_set, call)
  OBVIOUS
<1>1. /\ call.of = "InsertInternal"
      /\ \/ HasRoom(cur) /\ pages' = [pages EXCEPT ![cur] = big] /\ Done /\ root' = root
         \/ ~HasRoom(cur) /\ cur = root /\ GrowRoot(qs, cur, k, new)
         \/ ~HasRoom(cur) /\ cur # root /\ pages' = qs /\ Promote(k, new, Front(write_set)) /\ root' = root
  BY DEF InsertInternal, Grown, Internal
<1>2. /\ IsTree(W, root) /\ Sizes(pages, root) /\ Chain(pages, write_set)
      /\ (write_set[1] = root \/ Len(pages[write_set[1]].children) < InternalMax)
      /\ \E i : HasMore(pages[cur], i, call.key, call.child, big)
      /\ DOMAIN W = DOMAIN pages /\ cur \in DOMAIN pages /\ SameBut(W, pages, cur)
      /\ W[cur] = big
  BY <1>1, CalledPage DEF TreeInv
<1>3. IsInternalPage(big) /\ IsInternalPage(pages[cur]) /\ Len(big.children) = Len(pages[cur].children) + 1
        /\ Len(pages[cur].children) \in Nat
  BY <1>2, InternalKind DEF HasMore, PutIn
<1>4. /\ InternalSized(pages[cur], cur = root) /\ Size(pages[cur]) = Len(pages[cur].children)
      /\ Len(pages[cur].children) \in 2 .. InternalMax /\ (cur # root => Len(pages[cur].children) >= LeastChildren)
  <2>1. InternalSized(pages[cur], cur = root)
    BY <1>2, <1>3, LeafKind, InternalKind DEF Sizes, LeafSized
  <2> QED
    BY <1>3, <2>1, LeastSizes DEF InternalSized
<1>20. SameEntries(pages, W)
  <2>1. W[cur].leaf = FALSE /\ pages[cur].leaf = FALSE
    BY <1>2, <1>3, InternalKind
  <2>2. DOMAIN pages = DOMAIN W /\ SameBut(pages, W, cur)
    BY <1>2 DEF SameBut
  <2> QED
    BY <2>1, <2>2, SameOutside
<1>5. CASE HasRoom(cur)
  <2>1. pages' = [pages EXCEPT ![cur] = big] /\ Ready(write_set', call') /\ root' = root
    BY <1>1, <1>5 DEF Done, Ready
  <2>2. W = [pages EXCEPT ![cur] = big]
    BY <1>1 DEF ViewOf
  <2>3. InternalSized(big, cur = root)
    <3>1. Len(big.children) \in 2 .. InternalMax
      BY <1>3, <1>4, <1>5, TreeAssumption DEF HasRoom
    <3>2. cur # root => Len(big.children) >= LeastChildren
      BY <1>3, <1>4, LeastSizes
    <3> QED
      BY <1>3, <3>1, <3>2 DEF InternalSized
  <2>4. InternalSized(W[cur], cur = root)
    BY <1>2, <2>3
  <2>5. Sound(W, root, write_set', call')
    BY <1>2, <2>1, <2>4, CallDone
  <2> QED
    BY <1>20, <2>1, <2>2, <2>5 DEF TreeInv
<1>6. ASSUME ~HasRoom(cur)
      PROVE  SplitsFrom(W, pages, qs, cur, new, left, k, right)
  <2>1. Len(big.children) = InternalMax + 1
    BY <1>3, <1>4, <1>6, TreeAssumption DEF HasRoom
  <2>2. HalvesInternal(big, left, right)
    BY DEF HalvesInternal
  <2>3. /\ PageHalves(left, big.keys[StaysLeft(InternalMax)], right, big, new)
        /\ InternalSized(left, FALSE) /\ InternalSized(right, FALSE)
    BY <1>3, <2>1, <2>2, InternalHalves
  <2>4. PageHalves(left, k, right, W[cur], new)
    BY <1>2, <2>3
  <2> QED
    BY <1>2, <2>3, <2>4 DEF SplitsFrom, Fits
<1>7. PICK h, R : Tree(W, root, h, R)
  BY <1>2 DEF IsTree
<1>8. CASE ~HasRoom(cur) /\ cur = root
  <2> PICK top : top = NewPageId(qs)
    OBVIOUS
  <2>1. pages' = WithPage(qs, top, Internal(<<k>>, <<root, new>>)) /\ root' = top /\ Done
    BY <1>1, <1>8 DEF GrowRoot
  <2>2. Ready(write_set', call')
    BY <2>1 DEF Done, Ready
  <2>3. SplitsFrom(W, pages, qs, root, new, left, k, right)
    BY <1>6, <1>8
  <2>4. PutsAbove(qs, root, k, new, top, pages')
    BY <2>1 DEF PutsAbove
  <2>5. Crowned(W, root, pages, qs, new, k, top, pages')
    BY <1>2, <1>7, <2>3, <2>4 DEF Crowned
  <2>6. Sound(pages', top, write_set', call') /\ SameEntries(W, pages')
    BY <2>2, <2>5, CrownedSound, ZenonT(30)
  <2>7. SameEntries(pages, pages')
    BY <1>20, <2>6, EntriesTransitive
  <2> QED
    BY <2>1, <2>6, <2>7 DEF TreeInv
<1>9. CASE ~HasRoom(cur) /\ cur # root
  <2> PICK ws : ws = Front(write_set)
    OBVIOUS
  <2>1. pages' = qs /\ root' = root /\ write_set' = ws /\ call' = [of |-> "InsertInternal", key |-> k, child |-> new]
    BY <1>1, <1>9 DEF Promote
  <2>2. Len(write_set) >= 2
    <3>1. ~(Len(pages[cur].children) < InternalMax)
      BY <1>4, <1>9 DEF HasRoom
    <3>2. write_set[1] # cur
      BY <1>2, <1>9, <3>1
    <3> QED
      BY <1>2, <3>2, LongChain
  <2>3. /\ Chain(pages, ws) /\ ws[1] = write_set[1] /\ (\E i : IsChild(pages, Last(ws), i, cur))
        /\ \A j \in 1 .. Len(ws) : ws[j] # cur
    BY <1>2, <2>2, ShorterChain
  <2>4. PICK i : IsChild(pages, Last(ws), i, cur)
    BY <2>3
  <2>5. SplitsFrom(W, pages, qs, cur, new, left, k, right)
    BY <1>6, <1>9
  <2>6. ws[1] = root \/ Len(pages[ws[1]].children) < InternalMax
    BY <1>2, <2>3
  <2>7. PromotesFrom(pages, root, cur, ws, i)
    BY <2>3, <2>4, <2>6 DEF PromotesFrom
  <2>8. Promoted(W, root, pages, qs, new, k, ws)
    BY <1>2, <1>7, <1>9, <2>5, <2>7 DEF Promoted
  <2>9. Sound(qs, root, ws, [of |-> "InsertInternal", key |-> k, child |-> new]) /\ SameEntries(W, qs)
    BY <2>8, PromotedSound, ZenonT(30)
  <2>10. SameEntries(pages, pages')
    BY <1>20, <2>1, <2>9, EntriesTransitive
  <2> QED
    BY <2>1, <2>9, <2>10 DEF TreeInv
<1> QED
  BY <1>5, <1>8, <1>9

-----------------------------------------------------------------------------
(* Two neighbours lend or merge. *)

\* The pages of a chain lie lower and lower.
LEMMA ChainFalls ==
  ASSUME NEW V, NEW rt, NEW h, NEW R, Tree(V, rt, h, R), NEW ws, Chain(V, ws), NEW i \in 1 .. Len(ws)
  PROVE  \A j \in 1 .. Len(ws) : i <= j => h[ws[j]] <= h[ws[i]]
<1> PICK n : n = Len(ws)
  OBVIOUS
<1>1. ws \in Seq(DOMAIN V) /\ n \in Nat /\ n >= 1 /\ \A j \in 1 .. n : ws[j] \in DOMAIN V /\ h[ws[j]] \in Nat
  <2>1. ws \in Seq(DOMAIN V) /\ n \in Nat /\ n >= 1 /\ \A j \in 1 .. n : ws[j] \in DOMAIN V
    BY DEF Chain
  <2> QED
    BY <2>1, TreeNode
<1> DEFINE S == {j \in 1 .. n : i <= j /\ ~(h[ws[j]] <= h[ws[i]])}
<1>2. SUFFICES ASSUME S # {} PROVE FALSE
  OBVIOUS
<1>3. S \in SUBSET Nat
  BY <1>1
<1>4. PICK j \in S : \A y \in S : j <= y
  <2> HIDE DEF S
  <2> QED
    BY <1>2, <1>3, LeastNumber
<1>5. i \in 1 .. n /\ j \in 1 .. n /\ i <= j /\ ~(h[ws[j]] <= h[ws[i]])
  OBVIOUS
<1>6. i # j
  BY <1>1, <1>5
<1>7. j - 1 \in 1 .. n /\ j - 1 \in 1 .. n - 1 /\ i <= j - 1 /\ (j - 1) + 1 = j /\ ~(j <= j - 1)
  BY <1>1, <1>5, <1>6
<1>8. h[ws[j - 1]] <= h[ws[i]]
  BY <1>4, <1>7
<1>9. PICK m : IsChild(V, ws[j - 1], m, ws[j])
  <2>1. \E m : IsChild(V, ws[j - 1], m, ws[(j - 1) + 1])
    BY <1>7 DEF Chain
  <2> QED
    BY <1>7, <2>1
<1>10. h[ws[j]] < h[ws[j - 1]]
  BY <1>1, <1>7, <1>9, ChildOfNode
<1> QED
  BY <1>1, <1>5, <1>7, <1>8, <1>10

\* A page and its siblings are not among the ancestors held.
LEMMA ChainApart ==
  ASSUME NEW V, NEW rt, NEW h, NEW R, Tree(V, rt, h, R), NEW ws, Chain(V, ws), NEW i, NEW a, IsChild(V, Last(ws), i, a),
         NEW j \in 1 .. Len(ws)
  PROVE  ws[j] # a
<1> PICK n : n = Len(ws)
  OBVIOUS
<1> PICK u : u = Last(ws)
  OBVIOUS
<1>1. n \in Nat /\ n >= 1 /\ \A x \in 1 .. n : ws[x] \in DOMAIN V
  BY DEF Chain
<1>2. n \in 1 .. n /\ j \in 1 .. n /\ j <= n
  BY <1>1
<1>3. u = ws[n] /\ u \in DOMAIN V
  BY <1>1, <1>2 DEF Last
<1>4. h[ws[n]] <= h[ws[j]]
  BY <1>2, ChainFalls
<1>5. h[a] < h[u] /\ h[a] \in Nat /\ h[u] \in Nat
  BY <1>3, ChildOfNode
<1> QED
  BY <1>3, <1>4, <1>5

\* a and b are neighbours under u in V, which differs from ps in one of them at most.
Neighbours(V, ps, u, i, a, b, cur) ==
  /\ DOMAIN V = DOMAIN ps /\ SameBut(V, ps, cur) /\ cur \in {a, b}
  /\ u \in DOMAIN V /\ IsChild(V, u, i, a) /\ IsChild(V, u, i + 1, b)

NeighbourPages(V, ps, rt, u, i, a, b) ==
  /\ u \in DOMAIN ps /\ a \in DOMAIN ps /\ b \in DOMAIN ps /\ u # a /\ u # b /\ a # b /\ a # rt /\ b # rt
  /\ V[u] = ps[u] /\ IsInternalPage(ps[u]) /\ i \in 1 .. Len(ps[u].keys)
  /\ ps[u].children[i] = a /\ ps[u].children[i + 1] = b /\ V[a].leaf \in BOOLEAN /\ V[b].leaf = V[a].leaf

\* What two neighbours and their parent are before the change.
LEMMA NeighbourFacts ==
  ASSUME NEW V, NEW rt, NEW h, NEW R, Tree(V, rt, h, R), NEW ps, NEW u, NEW i, NEW a, NEW b, NEW cur,
         Neighbours(V, ps, u, i, a, b, cur)
  PROVE  NeighbourPages(V, ps, rt, u, i, a, b)
<1>1. u \in DOMAIN V /\ IsChild(V, u, i, a) /\ IsChild(V, u, i + 1, b) /\ DOMAIN V = DOMAIN ps
  BY DEF Neighbours
<1>2. /\ a \in DOMAIN V /\ h[a] + 1 = h[u] /\ h[a] \in Nat /\ h[u] \in Nat /\ i \in Nat \ {0} /\ a # rt /\ a # u
  BY <1>1, ChildOfNode
<1>3. /\ b \in DOMAIN V /\ h[b] + 1 = h[u] /\ h[b] \in Nat /\ b # rt /\ b # u
  BY <1>1, ChildOfNode
<1>4. a # b
  <2> SUFFICES ASSUME a = b PROVE FALSE
    OBVIOUS
  <2>1. i = i + 1
    BY <1>1, OneParent
  <2> QED
    BY <1>2, <2>1
<1>5. V[u] = ps[u]
  BY <1>1, <1>2, <1>3 DEF Neighbours, SameBut
<1>6. IsInternalPage(V[u]) /\ Len(V[u].keys) \in Nat /\ Len(V[u].children) = Len(V[u].keys) + 1
  BY <1>1, InnerNode DEF IsChild
<1>7. i + 1 \in 1 .. Len(V[u].children) /\ V[u].children[i] = a /\ V[u].children[i + 1] = b
  BY <1>1 DEF IsChild
<1>8. i \in 1 .. Len(V[u].keys)
  BY <1>2, <1>6, <1>7
<1>9. V[a].leaf \in BOOLEAN /\ V[b].leaf \in BOOLEAN /\ (V[a].leaf <=> h[a] = 0) /\ (V[b].leaf <=> h[b] = 0)
  BY <1>2, <1>3, TreeNode
<1>10. V[b].leaf = V[a].leaf
  BY <1>2, <1>3, <1>9
<1> QED
  BY <1>1, <1>2, <1>3, <1>4, <1>5, <1>6, <1>7, <1>8, <1>9, <1>10 DEF NeighbourPages

\* Every page has the size of a leaf or of an internal page.
LEMMA OthersSized ==
  ASSUME NEW ps, NEW rt, Sizes(ps, rt), NEW p \in DOMAIN ps
  PROVE  LeafSized(ps[p], p = rt) \/ InternalSized(ps[p], p = rt)
BY DEF Sizes

\* A page that fits may be anywhere.
LEMMA FitsAnywhere ==
  ASSUME NEW pg, Fits(pg), NEW b
  PROVE  LeafSized(pg, b) \/ InternalSized(pg, b)
BY DEF Fits, LeafSized, InternalSized

\* A leaf leads to the leaf its parent has next to it.
LEMMA SiblingNext ==
  ASSUME NEW V, NEW rt, NEW h, NEW R, Tree(V, rt, h, R), NEW ps, NEW u, NEW i, NEW a, NEW b, NEW cur,
         Neighbours(V, ps, u, i, a, b, cur), V[a].leaf
  PROVE  V[a].next = b /\ IsLeafPage(V[a]) /\ IsLeafPage(V[b])
<1>1. /\ u \in DOMAIN V /\ a \in DOMAIN V /\ b \in DOMAIN V /\ IsChild(V, u, i, a) /\ IsChild(V, u, i + 1, b)
      /\ V[b].leaf /\ a # b
  <2>1. NeighbourPages(V, ps, rt, u, i, a, b)
    BY NeighbourFacts
  <2> QED
    BY <2>1 DEF NeighbourPages, Neighbours
<1>2. IsLeafPage(V[a]) /\ IsLeafPage(V[b])
  <2>1. LeafIn(V[a], R[a]) /\ LeafIn(V[b], R[b])
    BY <1>1, TreeNode, LeafNode
  <2> QED
    BY <2>1 DEF LeafIn
<1> PICK all : all = Leaf(V[a].entries \o V[b].entries, V[b].next)
  OBVIOUS
<1>3. PageJoin(V[a], V[u].keys[i], V[b], all)
  <2> PICK s, t, st, nx : s = V[a].entries /\ t = V[b].entries /\ st = s \o t /\ nx = V[b].next
    OBVIOUS
  <2>1. s \in Seq(Entry) /\ t \in Seq(Entry)
    BY <1>2 DEF IsLeafPage
  <2>2. st \in Seq(Entry) /\ Joins(s, t, st)
    BY <2>1, Chained
  <2>3. IsLeafPage(Leaf(st, nx)) /\ Leaf(st, nx).entries = st /\ Leaf(st, nx).next = nx
    BY <2>2, LeafOf
  <2>4. IsLeafPage(all) /\ all.entries = st /\ all.next = nx
    BY <2>3
  <2>5. LeafJoin(V[a], V[b], all)
    BY <1>2, <2>2, <2>4 DEF LeafJoin
  <2> QED
    BY <2>5 DEF PageJoin
<1> PICK qs : qs = [p \in DOMAIN V \ {b} |-> IF p = a THEN all ELSE V[p]]
  OBVIOUS
<1>4. DOMAIN qs = DOMAIN V \ {b} /\ SameBut(V, qs, a) /\ qs[a] = all
  BY <1>1 DEF SameBut
<1>5. MergesInto(V, qs, u, i, a, b)
  BY <1>3, <1>4 DEF MergesInto
<1>6. MergeOutcome(V, rt, qs, u, i, a, b)
  BY <1>1, <1>5, MergeUnder
<1>7. V[a].next = b
  BY <1>6 DEF MergeOutcome
<1> QED
  BY <1>2, <1>7

\* qs is ps after b has lent a page a part of itself or the other way round.
Lends(V, qs, u, i, a, b, all, k) ==
  /\ DOMAIN qs = DOMAIN V /\ SameButThree(qs, V, a, b, u)
  /\ PageJoin(V[a], V[u].keys[i], V[b], all) /\ PageHalves(qs[a], k, qs[b], all, b)
  /\ qs[u] = Internal([V[u].keys EXCEPT ![i] = k], V[u].children)
  /\ Fits(qs[a]) /\ Fits(qs[b])

\* A tree in which two neighbours share their contents anew is sound, with no call
\* to come.
LEMMA LendSound ==
  ASSUME NEW V, NEW rt, NEW h, NEW R, Tree(V, rt, h, R), NEW ps, Sizes(ps, rt),
         NEW u, NEW i, NEW a, NEW b, NEW cur, Neighbours(V, ps, u, i, a, b, cur),
         NEW qs, NEW all, NEW k, Lends(V, qs, u, i, a, b, all, k), NEW ws, NEW c, Ready(ws, c)
  PROVE  Sound(qs, rt, ws, c) /\ SameEntries(V, qs)
<1>1. NeighbourPages(V, ps, rt, u, i, a, b)
  BY NeighbourFacts
<1>2. /\ u \in DOMAIN ps /\ a \in DOMAIN ps /\ b \in DOMAIN ps /\ u # a /\ u # b /\ a # b /\ a # rt /\ b # rt
      /\ V[u] = ps[u] /\ IsInternalPage(ps[u]) /\ i \in 1 .. Len(ps[u].keys)
  BY <1>1 DEF NeighbourPages
<1>3. DOMAIN V = DOMAIN ps /\ SameBut(V, ps, cur) /\ cur \in {a, b} /\ u \in DOMAIN V
        /\ IsChild(V, u, i, a) /\ IsChild(V, u, i + 1, b)
  BY DEF Neighbours
<1>4. /\ DOMAIN qs = DOMAIN V /\ SameButThree(qs, V, a, b, u)
      /\ PageJoin(V[a], V[u].keys[i], V[b], all) /\ PageHalves(qs[a], k, qs[b], all, b)
      /\ qs[u] = Internal([V[u].keys EXCEPT ![i] = k], V[u].children)
      /\ Fits(qs[a]) /\ Fits(qs[b])
  BY DEF Lends
<1>5. IsTree(qs, rt)
  BY <1>3, <1>4, LendUnder
<1>6. InternalSized(qs[u], u = rt)
  <2> PICK s, t, new : s = ps[u].keys /\ t = ps[u].children /\ new = [s EXCEPT ![i] = k]
    OBVIOUS
  <2>1. s \in Seq(Keys) /\ t \in Seq(Nat) /\ Len(t) = Len(s) + 1 /\ i \in 1 .. Len(s)
    BY <1>2 DEF IsInternalPage
  <2>2. k \in Keys
    BY <1>4 DEF PageHalves
  <2>3. new \in Seq(Keys) /\ Len(new) = Len(s)
    BY <2>1, <2>2, Altered
  <2>4. Len(t) = Len(new) + 1
    BY <2>1, <2>3
  <2>5. qs[u] = Internal(new, t)
    BY <1>2, <1>4
  <2>6. IsInternalPage(Internal(new, t)) /\ Internal(new, t).children = t
    BY <2>1, <2>3, <2>4, InternalOf
  <2>7. LeafSized(ps[u], u = rt) \/ InternalSized(ps[u], u = rt)
    BY <1>2, OthersSized
  <2>8. InternalSized(ps[u], u = rt)
    BY <1>2, <2>7, LeafKind, InternalKind DEF LeafSized
  <2> QED
    BY <2>5, <2>6, <2>8 DEF InternalSized
<1>7. Sizes(qs, rt)
  <2> SUFFICES ASSUME NEW p \in DOMAIN qs PROVE LeafSized(qs[p], p = rt) \/ InternalSized(qs[p], p = rt)
    BY DEF Sizes
  <2>1. CASE p = u
    BY <1>6, <2>1
  <2>2. CASE p \in {a, b}
    BY <1>4, <2>2, FitsAnywhere
  <2>3. CASE p # u /\ p # a /\ p # b
    <3>1. p \in DOMAIN ps /\ qs[p] = ps[p]
      BY <1>3, <1>4, <2>3 DEF SameBut, SameButThree
    <3> QED
      BY <3>1, OthersSized
  <2> QED
    BY <2>1, <2>2, <2>3
<1>8. SameEntries(V, qs)
  <2>1. PageJoin(qs[a], k, qs[b], all)
    BY <1>4 DEF PageHalves
  <2>2. V[u].leaf = FALSE /\ qs[u].leaf = FALSE
    BY <1>2, <1>6, InternalKind DEF InternalSized
  <2> QED
    BY <1>2, <1>3, <1>4, <2>1, <2>2, LoanHolds
<1>9. Sound(qs, rt, ws, c)
  BY <1>5, <1>7, SoundAtRest
<1> QED
  BY <1>8, <1>9

\* Those that hold the ancestors of cur, of which the first can take the loss of a child.
Holding(ps, rt, ws, u, cur) ==
  /\ Chain(ps, ws) /\ u = Last(ws) /\ \A j \in 1 .. Len(ws) : ws[j] # cur
  /\ ws[1] = rt \/ Len(ps[ws[1]].children) > LeastChildren

\* A tree in which two neighbours have merged is sound once the call for their
\* parent has been made.
LEMMA MergeSound ==
  ASSUME NEW V, NEW rt, NEW h, NEW R, Tree(V, rt, h, R), NEW ps, Sizes(ps, rt),
         NEW u, NEW i, NEW a, NEW b, NEW cur, Neighbours(V, ps, u, i, a, b, cur),
         NEW qs, MergesInto(V, qs, u, i, a, b), Fits(qs[a]), NEW ws, Holding(ps, rt, ws, u, cur),
         NEW c, c = [of |-> "RemoveInternal", key |-> V[u].keys[i], child |-> b]
  PROVE  Sound(qs, rt, ws, c) /\ SameEntries(V, qs)
<1> PICK k : k = V[u].keys[i]
  OBVIOUS
<1>1. NeighbourPages(V, ps, rt, u, i, a, b)
  BY NeighbourFacts
<1>2. /\ u \in DOMAIN ps /\ a \in DOMAIN ps /\ b \in DOMAIN ps /\ u # a /\ u # b /\ a # b /\ a # rt /\ b # rt
      /\ V[u] = ps[u]
  BY <1>1 DEF NeighbourPages
<1>3. DOMAIN V = DOMAIN ps /\ SameBut(V, ps, cur) /\ cur \in {a, b} /\ u \in DOMAIN V
        /\ IsChild(V, u, i, a) /\ IsChild(V, u, i + 1, b)
  BY DEF Neighbours
<1>4. Chain(ps, ws) /\ u = Last(ws) /\ (\A j \in 1 .. Len(ws) : ws[j] # cur)
        /\ (ws[1] = rt \/ Len(ps[ws[1]].children) > LeastChildren)
  BY DEF Holding
<1>5. MergeOutcome(V, rt, qs, u, i, a, b)
  BY <1>3, MergeUnder
<1>6. IsTree([qs EXCEPT ![u] = Shrunk(@, k)], rt) /\ HasMore(Shrunk(qs[u], k), i, k, b, V[u])
  BY <1>5 DEF MergeOutcome
<1>7. DOMAIN qs = DOMAIN ps \ {b} /\ SameBut(V, qs, a)
  BY <1>3 DEF MergesInto
<1>8. \A j \in 1 .. Len(ws) : ws[j] \in DOMAIN V /\ V[ws[j]] = ps[ws[j]]
  <2>1. \A j \in 1 .. Len(ws) : ws[j] \in DOMAIN ps
    BY <1>4 DEF Chain
  <2> QED
    BY <1>3, <1>4, <2>1 DEF SameBut
<1>9. Chain(V, ws)
  BY <1>4, <1>8, SameChain
<1>10. \A j \in 1 .. Len(ws) : ws[j] # a /\ ws[j] # b
  <2> TAKE j \in 1 .. Len(ws)
  <2>1. IsChild(V, Last(ws), i, a) /\ IsChild(V, Last(ws), i + 1, b)
    BY <1>3, <1>4
  <2>2. ws[j] # a
    BY <1>9, <2>1, ChainApart
  <2>3. ws[j] # b
    BY <1>9, <2>1, ChainApart
  <2> QED
    BY <2>2, <2>3
<1>11. \A j \in 1 .. Len(ws) : ws[j] \in DOMAIN qs /\ qs[ws[j]] = ps[ws[j]]
  BY <1>3, <1>7, <1>8, <1>10 DEF SameBut
<1>12. Chain(qs, ws)
  BY <1>4, <1>11, SameChain
<1>13. c.of = "RemoveInternal" /\ c.key = k /\ c.child = b
  OBVIOUS
<1>14. ViewOf(qs, ws, c) = [qs EXCEPT ![u] = Shrunk(@, k)]
  BY <1>4, <1>13 DEF ViewOf
<1>15. Len(ws) \in Nat /\ 1 \in 1 .. Len(ws) /\ Len(ws) \in 1 .. Len(ws) /\ u = ws[Len(ws)]
  BY <1>4 DEF Chain, Last
<1>16. Calling(qs, rt, ws, c)
  <2>1. ws[1] = rt \/ Len(qs[ws[1]].children) > LeastChildren
    BY <1>4, <1>11, <1>15
  <2>2. qs[u] = V[u]
    BY <1>2, <1>11, <1>15
  <2>3. HasMore(Shrunk(qs[Last(ws)], c.key), i, c.key, c.child, qs[Last(ws)])
    BY <1>4, <1>6, <1>13, <2>2
  <2>4. c.child \notin DOMAIN qs
    BY <1>7, <1>13
  <2> QED
    BY <1>12, <1>13, <2>1, <2>3, <2>4 DEF Calling
<1>17. Sizes(qs, rt)
  <2> SUFFICES ASSUME NEW p \in DOMAIN qs PROVE LeafSized(qs[p], p = rt) \/ InternalSized(qs[p], p = rt)
    BY DEF Sizes
  <2>1. CASE p = a
    BY <2>1, FitsAnywhere
  <2>2. CASE p # a
    <3>1. p \in DOMAIN ps /\ qs[p] = ps[p]
      BY <1>3, <1>7, <2>2 DEF SameBut
    <3> QED
      BY <3>1, OthersSized
  <2> QED
    BY <2>1, <2>2
<1>18. IsTree(ViewOf(qs, ws, c), rt)
  BY <1>6, <1>14
<1>19. SameEntries(V, qs)
  BY <1>2, <1>3, MergeHolds
<1>20. Sound(qs, rt, ws, c)
  BY <1>16, <1>17, <1>18, SoundCalling
<1> QED
  BY <1>19, <1>20

-----------------------------------------------------------------------------
(* Loans between leaves. *)

\* The page that an EXCEPT of its entries, or of one of its keys, leaves.
LEMMA OtherKey ==
  ASSUME NEW pg, IsInternalPage(pg), NEW j, NEW k
  PROVE  [pg EXCEPT !.keys[j] = k] = Internal([pg.keys EXCEPT ![j] = k], pg.children)
<1> PICK s, t, new : s = pg.keys /\ t = pg.children /\ new = [s EXCEPT ![j] = k]
  OBVIOUS
<1> DEFINE q == [pg EXCEPT !.keys = new]
<1>0. [pg EXCEPT !.keys[j] = k] = q
  OBVIOUS
<1>1. pg = [leaf |-> FALSE, keys |-> s, children |-> t]
  BY DEF IsInternalPage, Internal
<1>2. pg \in [leaf : {FALSE}, keys : {s, new}, children : {t}]
  BY <1>1
<1>3. q \in [leaf : {FALSE}, keys : {s, new}, children : {t}] /\ q.keys = new
  BY <1>2
<1> HIDE DEF q
<1>4. q = [leaf |-> q.leaf, keys |-> q.keys, children |-> q.children] /\ q.leaf = FALSE /\ q.children = t
  BY <1>3
<1>5. q = Internal(new, t)
  BY <1>3, <1>4 DEF Internal
<1> QED
  BY <1>0, <1>5

Distinct(ps, a, b, u) == a \in DOMAIN ps /\ b \in DOMAIN ps /\ u \in DOMAIN ps /\ a # b /\ a # u /\ b # u

\* qs is ps with new pages a, b and u.
Changed(ps, qs, a, b, u, x, y, z) ==
  DOMAIN qs = DOMAIN ps /\ qs[a] = x /\ qs[b] = y /\ qs[u] = z /\ SameButThree(qs, ps, a, b, u)

\* The page with another key at i.
Bordered(pg, i, k) == Internal([pg.keys EXCEPT ![i] = k], pg.children)

\* New entries in two leaves and a new key between them.
MovesBorder(ps, qs, a, b, u, s, t, j, k) == qs = [ps EXCEPT ![a].entries = s, ![b].entries = t, ![u].keys[j] = k]

\* The assignments of a loan between leaves, as three new pages.
LEMMA LeavesChanged ==
  ASSUME NEW ps, NEW a, NEW b, NEW u, Distinct(ps, a, b, u), IsLeafPage(ps[a]), IsLeafPage(ps[b]), IsInternalPage(ps[u]),
         NEW s, NEW t, NEW j, NEW k,
         NEW qs, MovesBorder(ps, qs, a, b, u, s, t, j, k)
  PROVE  Changed(ps, qs, a, b, u, Leaf(s, ps[a].next), Leaf(t, ps[b].next), Bordered(ps[u], j, k))
<1> PICK x, y, z : x = [ps[a] EXCEPT !.entries = s] /\ y = [ps[b] EXCEPT !.entries = t] /\ z = [ps[u] EXCEPT !.keys[j] = k]
  OBVIOUS
<1>1. x = Leaf(s, ps[a].next) /\ y = Leaf(t, ps[b].next) /\ z = Bordered(ps[u], j, k)
  BY OtherEntries, OtherKey DEF Bordered
<1>2. DOMAIN qs = DOMAIN ps /\ qs[a] = x /\ qs[b] = y /\ qs[u] = z
  BY DEF Distinct, MovesBorder
<1>3. SameButThree(qs, ps, a, b, u)
  BY DEF Distinct, SameButThree, MovesBorder
<1> QED
  BY <1>1, <1>2, <1>3 DEF Changed

\* left and right become x and y, with the key k between them instead of old.
Loan(left, old, right, x, k, y, b) ==
  /\ \E all : PageJoin(left, old, right, all) /\ PageHalves(x, k, y, all, b)
  /\ Fits(x) /\ Fits(y)

\* Two leaves share their entries anew.
LEMMA LeafLoan ==
  ASSUME NEW left, IsLeafPage(left), NEW right, IsLeafPage(right),
         NEW s \in Seq(Entry), NEW t \in Seq(Entry), FitsLeaf(Len(s)), FitsLeaf(Len(t)),
         NEW st \in Seq(Entry), Joins(left.entries, right.entries, st), Joins(s, t, st),
         NEW b, left.next = b, NEW x, NEW y, x = Leaf(s, b), y = Leaf(t, right.next), NEW old
  PROVE  Loan(left, old, right, x, t[1].key, y, b)
<1> PICK nx : nx = right.next
  OBVIOUS
<1> PICK all : all = Leaf(st, nx)
  OBVIOUS
<1>1. IsLeafPage(Leaf(st, nx)) /\ Leaf(st, nx).entries = st /\ Leaf(st, nx).next = nx
  BY LeafOf, ZenonT(30)
<1>2. IsLeafPage(all) /\ all.entries = st /\ all.next = nx
  BY <1>1
<1>13. IsLeafPage(Leaf(s, b)) /\ Leaf(s, b).entries = s /\ Leaf(s, b).next = b /\ Leaf(s, b).leaf = TRUE
  BY LeafOf, ZenonT(30)
<1>3. IsLeafPage(x) /\ x.entries = s /\ x.next = b /\ x.leaf = TRUE
  BY <1>13
<1>4. IsLeafPage(Leaf(t, nx)) /\ Leaf(t, nx).entries = t /\ Leaf(t, nx).next = nx /\ Leaf(t, nx).leaf = TRUE
  BY LeafOf, ZenonT(30)
<1>5. IsLeafPage(y) /\ y.entries = t /\ y.next = nx /\ y.leaf = TRUE
  BY <1>4
<1>6. LeafJoin(left, right, all) /\ LeafJoin(x, y, all)
  BY <1>2, <1>3, <1>5 DEF LeafJoin
<1>7. Len(s) >= 1 /\ Len(t) >= 1
  BY TreeAssumption DEF FitsLeaf
<1>8. t[1].key \in Keys
  <2>1. 1 \in 1 .. Len(t)
    BY <1>7
  <2>2. t[1] \in Entry
    BY <2>1
  <2> QED
    BY <2>2 DEF Entry
<1>9. PageHalves(x, t[1].key, y, all, b)
  BY <1>3, <1>5, <1>6, <1>7, <1>8 DEF PageHalves, PageJoin
<1>10. PageJoin(left, old, right, all)
  BY <1>6 DEF PageJoin
<1>11. Fits(x) /\ Fits(y)
  BY <1>3, <1>5 DEF Fits, LeafSized, FitsLeaf
<1> QED
  BY <1>9, <1>10, <1>11 DEF Loan

\* The last entry of left goes right.
LEMMA LastEntryLent ==
  ASSUME NEW left, IsLeafPage(left), NEW right, IsLeafPage(right), NEW b, left.next = b,
         FitsLeaf(Len(left.entries) - 1), FitsLeaf(Len(right.entries) + 1), NEW old, NEW x, NEW y,
         x = Leaf(Front(left.entries), b), y = Leaf(<<Last(left.entries)>> \o right.entries, right.next)
  PROVE  Loan(left, old, right, x, Last(left.entries).key, y, b)
<1> PICK p, q : p = left.entries /\ q = right.entries
  OBVIOUS
<1> PICK s, t, st : s = Front(p) /\ t = <<Last(p)>> \o q /\ st = p \o q
  OBVIOUS
<1>1. p \in Seq(Entry) /\ q \in Seq(Entry) /\ Len(p) \in Nat /\ Len(q) \in Nat
  BY DEF IsLeafPage
<1>2. Len(p) >= 1
  BY <1>1, TreeAssumption DEF FitsLeaf
<1>8. LastGoes(p, q, s, t)
  BY DEF LastGoes
<1>9. LastGone(Entry, p, q, s, t)
  BY <1>1, <1>2, <1>8, LastLent
<1>3. /\ s \in Seq(Entry) /\ t \in Seq(Entry) /\ Len(s) = Len(p) - 1 /\ Len(t) = Len(q) + 1 /\ t[1] = Last(p)
      /\ Joins(s, t, p \o q)
  BY <1>9 DEF LastGone
<1>4. st \in Seq(Entry) /\ Joins(p, q, st) /\ Joins(s, t, st)
  BY <1>1, <1>3, Chained
<1>5. FitsLeaf(Len(s)) /\ FitsLeaf(Len(t))
  BY <1>3
<1>6. x = Leaf(s, b) /\ y = Leaf(t, right.next)
  OBVIOUS
<1>7. Loan(left, old, right, x, t[1].key, y, b)
  BY <1>3, <1>4, <1>5, <1>6, LeafLoan
<1> QED
  BY <1>3, <1>7

\* The first entry of right goes left.
LEMMA FirstEntryLent ==
  ASSUME NEW left, IsLeafPage(left), NEW right, IsLeafPage(right), NEW b, left.next = b,
         FitsLeaf(Len(left.entries) + 1), FitsLeaf(Len(right.entries) - 1), NEW old, NEW x, NEW y,
         x = Leaf(Append(left.entries, Head(right.entries)), b), y = Leaf(Tail(right.entries), right.next)
  PROVE  Loan(left, old, right, x, right.entries[2].key, y, b)
<1> PICK p, q : p = left.entries /\ q = right.entries
  OBVIOUS
<1> PICK s, t, st : s = Append(p, Head(q)) /\ t = Tail(q) /\ st = p \o q
  OBVIOUS
<1>1. p \in Seq(Entry) /\ q \in Seq(Entry) /\ Len(p) \in Nat /\ Len(q) \in Nat
  BY DEF IsLeafPage
<1>2. Len(q) >= 1
  BY <1>1, TreeAssumption DEF FitsLeaf
<1>9. FirstGoes(p, q, s, t)
  BY DEF FirstGoes
<1>10. FirstGone(Entry, p, q, s, t)
  BY <1>1, <1>2, <1>9, FirstLent
<1>3. /\ s \in Seq(Entry) /\ t \in Seq(Entry) /\ Len(s) = Len(p) + 1 /\ Len(t) = Len(q) - 1
      /\ (\A j \in 1 .. Len(t) : t[j] = q[j + 1]) /\ Joins(s, t, p \o q)
  BY <1>10 DEF FirstGone
<1>4. st \in Seq(Entry) /\ Joins(p, q, st) /\ Joins(s, t, st)
  BY <1>1, <1>3, Chained
<1>5. FitsLeaf(Len(s)) /\ FitsLeaf(Len(t))
  BY <1>3
<1>6. x = Leaf(s, b) /\ y = Leaf(t, right.next)
  OBVIOUS
<1>7. Loan(left, old, right, x, t[1].key, y, b)
  BY <1>3, <1>4, <1>5, <1>6, LeafLoan
<1>8. t[1] = q[2]
  <2>1. 1 \in 1 .. Len(t) /\ 1 + 1 = 2
    BY <1>5, TreeAssumption DEF FitsLeaf
  <2> QED
    BY <1>3, <2>1
<1> QED
  BY <1>7, <1>8

(* A page falls below half. *)

\* The siblings of a page that is to fall below half.
LEMMA Siblings ==
  ASSUME NEW V, NEW ps, NEW u, NEW i, NEW cur, DOMAIN V = DOMAIN ps, SameBut(V, ps, cur), u \in DOMAIN ps, u # cur,
         IsChild(ps, u, i, cur), NEW n \in Nat, n = Len(ps[u].children)
  PROVE  /\ i > 1 => Neighbours(V, ps, u, i - 1, ps[u].children[i - 1], cur, cur)
         /\ i < n => Neighbours(V, ps, u, i, cur, ps[u].children[i + 1], cur)
<1>1. V[u] = ps[u]
  BY DEF SameBut
<1>2. i \in 1 .. n /\ ~V[u].leaf /\ n = Len(V[u].children) /\ V[u].children[i] = cur
  BY <1>1 DEF IsChild
<1>3. ASSUME i > 1 PROVE Neighbours(V, ps, u, i - 1, ps[u].children[i - 1], cur, cur)
  <2>1. i - 1 \in 1 .. n /\ (i - 1) + 1 = i
    BY <1>2, <1>3
  <2>2. IsChild(V, u, i - 1, ps[u].children[i - 1]) /\ IsChild(V, u, (i - 1) + 1, cur)
    BY <1>1, <1>2, <2>1 DEF IsChild
  <2> QED
    BY <2>2 DEF Neighbours
<1>4. ASSUME i < n PROVE Neighbours(V, ps, u, i, cur, ps[u].children[i + 1], cur)
  <2>1. i + 1 \in 1 .. n
    BY <1>2, <1>4
  <2>2. IsChild(V, u, i + 1, ps[u].children[i + 1]) /\ IsChild(V, u, i, cur)
    BY <1>1, <1>2, <2>1 DEF IsChild
  <2> QED
    BY <2>2 DEF Neighbours
<1> QED
  BY <1>3, <1>4

\* A loan in which a page that fell below half takes part makes the tree sound.
LEMMA LoanSound ==
  ASSUME NEW V, NEW rt, NEW h, NEW R, Tree(V, rt, h, R), NEW ps, Sizes(ps, rt),
         NEW u, NEW i, NEW a, NEW b, NEW cur, Neighbours(V, ps, u, i, a, b, cur),
         NEW x, NEW k, NEW y, Loan(V[a], V[u].keys[i], V[b], x, k, y, b),
         NEW qs, Changed(ps, qs, a, b, u, x, y, Bordered(ps[u], i, k)), NEW ws, NEW c, Ready(ws, c)
  PROVE  Sound(qs, rt, ws, c) /\ SameEntries(V, qs)
<1>1. NeighbourPages(V, ps, rt, u, i, a, b)
  BY NeighbourFacts
<1>2. V[u] = ps[u]
  BY <1>1 DEF NeighbourPages
<1>3. DOMAIN V = DOMAIN ps /\ SameBut(V, ps, cur) /\ cur \in {a, b}
  BY DEF Neighbours
<1>4. DOMAIN qs = DOMAIN ps /\ qs[a] = x /\ qs[b] = y /\ qs[u] = Bordered(ps[u], i, k) /\ SameButThree(qs, ps, a, b, u)
  BY DEF Changed
<1> PICK all : PageJoin(V[a], V[u].keys[i], V[b], all) /\ PageHalves(x, k, y, all, b) /\ Fits(x) /\ Fits(y)
  BY DEF Loan
<1>5. SameButThree(qs, V, a, b, u)
  BY <1>3, <1>4 DEF SameBut, SameButThree
<1>6. qs[u] = Internal([V[u].keys EXCEPT ![i] = k], V[u].children)
  BY <1>2, <1>4 DEF Bordered
<1>7. Lends(V, qs, u, i, a, b, all, k)
  BY <1>3, <1>4, <1>5, <1>6 DEF Lends
<1> QED
  BY <1>7, LendSound

\* Page a becomes pg, and page b is deleted.
TakesOver(ps, qs, a, b, pg) == qs = WithoutPage([ps EXCEPT ![a] = pg], b)

\* The pages when one of two neighbours has taken the other's contents.
LEMMA MergedPages ==
  ASSUME NEW V, NEW rt, NEW h, NEW R, Tree(V, rt, h, R), NEW ps,
         NEW u, NEW i, NEW a, NEW b, NEW cur, Neighbours(V, ps, u, i, a, b, cur),
         NEW pg, PageJoin(V[a], V[u].keys[i], V[b], pg),
         NEW qs, TakesOver(ps, qs, a, b, pg)
  PROVE  MergesInto(V, qs, u, i, a, b) /\ qs[a] = pg
<1>1. NeighbourPages(V, ps, rt, u, i, a, b)
  BY NeighbourFacts
<1>2. a \in DOMAIN ps /\ b \in DOMAIN ps /\ a # b
  BY <1>1 DEF NeighbourPages
<1>3. DOMAIN V = DOMAIN ps /\ SameBut(V, ps, cur) /\ cur \in {a, b}
  BY DEF Neighbours
<1>4. DOMAIN qs = DOMAIN ps \ {b} /\ qs[a] = pg /\ \A p \in DOMAIN qs : p # a => qs[p] = ps[p]
  BY <1>2 DEF TakesOver, WithoutPage, Restrict
<1>5. SameBut(V, qs, a)
  BY <1>3, <1>4 DEF SameBut
<1> QED
  BY <1>3, <1>4, <1>5 DEF MergesInto

(* A leaf falls below half. *)

\* rest is what is left in leaf cur, child i of u, and V is the tree with it.
LeafShort(V, ps, u, i, cur, rest) ==
  /\ DOMAIN V = DOMAIN ps /\ SameBut(V, ps, cur) /\ V[cur] = Leaf(rest, ps[cur].next)
  /\ cur \in DOMAIN ps /\ IsLeafPage(ps[cur]) /\ rest \in Seq(Entry)
  /\ u \in DOMAIN ps /\ u # cur /\ IsInternalPage(ps[u]) /\ IsChild(ps, u, i, cur)
  /\ Len(rest) + 1 = LeafMax \div 2

LeafSibling(V, a, b, o) ==
  /\ V[o] = pages[o] /\ IsLeafPage(pages[o]) /\ o \in DOMAIN pages /\ V[a].next = b
  /\ Len(pages[o].entries) \in LeafMax \div 2 .. LeafMax
  /\ CanSpare(o) <=> Len(pages[o].entries) > LeafMax \div 2

OneOf(a, b, o) == o = a \/ o = b

\* The sibling of a leaf that fell below half.
LEMMA SiblingLeaf ==
  ASSUME NEW V, NEW h, NEW R, Tree(V, root, h, R), Sizes(pages, root), NEW u, NEW j, NEW a, NEW b, NEW cur,
         Neighbours(V, pages, u, j, a, b, cur), V[cur].leaf = TRUE, NEW o, OneOf(a, b, o), o # cur
  PROVE  LeafSibling(V, a, b, o)
<1>0. o \in {a, b}
  BY DEF OneOf
<1>1. NeighbourPages(V, pages, root, u, j, a, b)
  BY NeighbourFacts
<1>2. a \in DOMAIN pages /\ b \in DOMAIN pages /\ V[b].leaf = V[a].leaf /\ a # root /\ b # root
  BY <1>1 DEF NeighbourPages
<1>3. DOMAIN V = DOMAIN pages /\ SameBut(V, pages, cur) /\ cur \in {a, b}
  BY DEF Neighbours
<1>4. o \in DOMAIN pages /\ V[o] = pages[o] /\ o # root
  BY <1>0, <1>2, <1>3 DEF SameBut
<1>5. V[a].leaf = TRUE
  BY <1>2, <1>3
<1>6. V[a].next = b /\ IsLeafPage(V[a]) /\ IsLeafPage(V[b])
  BY <1>5, SiblingNext
<1>7. IsLeafPage(pages[o])
  BY <1>0, <1>4, <1>6
<1>8. LeafSized(pages[o], o = root) \/ InternalSized(pages[o], o = root)
  BY <1>4, OthersSized
<1>9. LeafSized(pages[o], o = root)
  BY <1>7, <1>8, LeafKind, InternalKind DEF InternalSized
<1>10. Len(pages[o].entries) \in 1 .. LeafMax /\ Len(pages[o].entries) >= LeafMax \div 2
  BY <1>4, <1>9 DEF LeafSized
<1>11. LeafMax \div 2 \in Nat /\ MinSize(pages[o]) = LeafMax \div 2 /\ Size(pages[o]) = Len(pages[o].entries)
  BY <1>7, LeastSizes
<1> PICK n, m : n = Len(pages[o].entries) /\ m = LeafMax \div 2
  OBVIOUS
<1>12. n \in m .. LeafMax
  <2>1. n \in 1 .. LeafMax /\ n >= m /\ m \in Nat
    BY <1>10, <1>11
  <2> QED
    BY <2>1, TreeAssumption
<1>13. CanSpare(o) <=> n > m
  BY <1>11 DEF CanSpare
<1> QED
  BY <1>4, <1>6, <1>7, <1>12, <1>13 DEF LeafSibling

\* A right sibling of a leaf.
LEMMA RightSibling ==
  ASSUME NEW V, NEW h, NEW R, Tree(V, root, h, R), Sizes(pages, root), NEW u, NEW j, NEW cur, NEW o,
         Neighbours(V, pages, u, j, cur, o, cur), V[cur].leaf = TRUE, o # cur
  PROVE  LeafSibling(V, cur, o, o)
<1>1. OneOf(cur, o, o)
  BY DEF OneOf
<1> QED
  BY <1>1, SiblingLeaf, ZenonT(30)

\* A left sibling of a leaf.
LEMMA LeftSibling ==
  ASSUME NEW V, NEW h, NEW R, Tree(V, root, h, R), Sizes(pages, root), NEW u, NEW j, NEW cur, NEW o,
         Neighbours(V, pages, u, j, o, cur, cur), V[cur].leaf = TRUE, o # cur
  PROVE  LeafSibling(V, o, cur, o)
<1>1. OneOf(o, cur, o)
  BY DEF OneOf
<1> QED
  BY <1>1, SiblingLeaf, ZenonT(30)

\* The order in which two neighbours are named does not matter.
LEMMA ChangedBack ==
  ASSUME NEW ps, NEW qs, NEW a, NEW b, NEW u, NEW x, NEW y, NEW z, Changed(ps, qs, a, b, u, x, y, z)
  PROVE  Changed(ps, qs, b, a, u, y, x, z)
BY DEF Changed, SameButThree

\* Sizes of leaves after a loan or a merge.
LEMMA HalfFull ==
  ASSUME NEW m \in Nat, m + 1 = LeafMax \div 2
  PROVE  /\ FitsLeaf(m + 1)
         /\ \A n \in LeafMax \div 2 .. LeafMax : n > LeafMax \div 2 => FitsLeaf(n - 1)
         /\ \A n \in LeafMax \div 2 .. LeafMax : ~(n > LeafMax \div 2) => FitsLeaf(n + m) /\ FitsLeaf(m + n)
<1> PICK d : d = LeafMax \div 2
  OBVIOUS
<1>1. d \in Nat /\ d >= 1 /\ 2 * d <= LeafMax /\ LeafMax \in Nat
  BY LeastSizes, TreeAssumption
<1>2. FitsLeaf(m + 1)
  BY <1>1 DEF FitsLeaf
<1>3. ASSUME NEW n \in d .. LeafMax, n > d PROVE FitsLeaf(n - 1)
  BY <1>1, <1>3 DEF FitsLeaf
<1>4. ASSUME NEW n \in d .. LeafMax, ~(n > d) PROVE FitsLeaf(n + m) /\ FitsLeaf(m + n)
  BY <1>1, <1>4 DEF FitsLeaf
<1> QED
  BY <1>2, <1>3, <1>4

HalfLess(m) == m \in Nat /\ m + 1 = LeafMax \div 2

Spares(n) == n \in LeafMax \div 2 .. LeafMax /\ n > LeafMax \div 2

\* Both leaves fit after a loan.
LEMMA LoanFits ==
  ASSUME NEW m, HalfLess(m), NEW n, Spares(n)
  PROVE  FitsLeaf(n - 1) /\ FitsLeaf(m + 1)
<1>1. m \in Nat /\ m + 1 = LeafMax \div 2 /\ n \in LeafMax \div 2 .. LeafMax /\ n > LeafMax \div 2
  BY DEF HalfLess, Spares
<1> QED
  BY <1>1, HalfFull

SparesNone(n) == n \in LeafMax \div 2 .. LeafMax /\ ~(n > LeafMax \div 2)

\* One leaf holds what is in both when neither can spare.
LEMMA BothFit ==
  ASSUME NEW m, HalfLess(m), NEW n, SparesNone(n)
  PROVE  FitsLeaf(n + m) /\ FitsLeaf(m + n)
<1>1. m \in Nat /\ m + 1 = LeafMax \div 2 /\ n \in LeafMax \div 2 .. LeafMax /\ ~(n > LeafMax \div 2)
  BY DEF HalfLess, SparesNone
<1> QED
  BY <1>1, HalfFull

\* A leaf borrows from its left sibling.
LEMMA LeafFromLeftSound ==
  ASSUME NEW V, NEW h, NEW R, Tree(V, root, h, R), Sizes(pages, root), NEW up, NEW i, NEW cur, NEW rest,
         LeafShort(V, pages, up, i, cur, rest), LeafFromLeft(up, i, rest), root' = root
  PROVE  TreeInv' /\ SameEntries(V, pages')
<1> PICK l : l = pages[up].children[i - 1]
  OBVIOUS
<1> PICK lent : lent = Last(pages[l].entries)
  OBVIOUS
<1>1. /\ DOMAIN V = DOMAIN pages /\ SameBut(V, pages, cur) /\ V[cur] = Leaf(rest, pages[cur].next)
      /\ cur \in DOMAIN pages /\ IsLeafPage(pages[cur]) /\ rest \in Seq(Entry)
      /\ up \in DOMAIN pages /\ up # cur /\ IsInternalPage(pages[up]) /\ IsChild(pages, up, i, cur)
      /\ Len(rest) + 1 = LeafMax \div 2
  BY DEF LeafShort
<1>2. pages[up].children[i] = cur
  BY <1>1 DEF IsChild
<1>3. /\ i > 1 /\ CanSpare(l) /\ Done
      /\ pages' = [pages EXCEPT ![cur].entries = <<lent>> \o rest, ![l].entries = Front(@), ![up].keys[i - 1] = lent.key]
  BY <1>2 DEF LeafFromLeft, LeftSpares
<1>4. Neighbours(V, pages, up, i - 1, l, cur, cur)
  <2>1. Len(pages[up].children) \in Nat
    BY <1>1, InternalKind
  <2> QED
    BY <1>1, <1>3, <2>1, Siblings
<1>5. NeighbourPages(V, pages, root, up, i - 1, l, cur)
  BY <1>4, NeighbourFacts
<1>6. l \in DOMAIN pages /\ l # cur /\ l # up /\ V[up] = pages[up]
  BY <1>5 DEF NeighbourPages
<1>7. IsLeafPage(V[cur]) /\ V[cur].leaf = TRUE /\ V[cur].entries = rest /\ V[cur].next = pages[cur].next
  <2>1. IsLeafPage(Leaf(rest, pages[cur].next)) /\ Leaf(rest, pages[cur].next).leaf = TRUE
        /\ Leaf(rest, pages[cur].next).entries = rest /\ Leaf(rest, pages[cur].next).next = pages[cur].next
    BY <1>1, LeafOf, ZenonT(30)
  <2> QED
    BY <1>1, <2>1
<1>8. LeafSibling(V, l, cur, l)
  BY <1>4, <1>6, <1>7, LeftSibling
<1>9. /\ V[l] = pages[l] /\ IsLeafPage(pages[l]) /\ V[l].next = cur /\ pages[l].next = cur
      /\ Len(pages[l].entries) \in LeafMax \div 2 .. LeafMax
      /\ Len(pages[l].entries) > LeafMax \div 2
  BY <1>3, <1>8 DEF LeafSibling
<1>10. FitsLeaf(Len(V[l].entries) - 1) /\ FitsLeaf(Len(V[cur].entries) + 1)
  <2>1. HalfLess(Len(V[cur].entries))
    BY <1>1, <1>7, LengthOf DEF HalfLess
  <2>2. Spares(Len(V[l].entries))
    BY <1>9 DEF Spares
  <2> QED
    BY <2>1, <2>2, LoanFits
<1> PICK s, t : s = <<lent>> \o rest /\ t = Front(pages[l].entries)
  OBVIOUS
<1> PICK x, y : x = Leaf(t, cur) /\ y = Leaf(s, pages[cur].next)
  OBVIOUS
<1>11. Loan(V[l], V[up].keys[i - 1], V[cur], x, lent.key, y, cur)
  <2>1. x = Leaf(Front(V[l].entries), cur) /\ y = Leaf(<<Last(V[l].entries)>> \o V[cur].entries, V[cur].next)
        /\ lent = Last(V[l].entries)
    BY <1>7, <1>9
  <2> QED
    BY <1>7, <1>9, <1>10, <2>1, LastEntryLent
<1>12. pages' = [pages EXCEPT ![cur].entries = s, ![l].entries = t, ![up].keys[i - 1] = lent.key]
  BY <1>3, <1>6
<1>13. Distinct(pages, cur, l, up)
  BY <1>1, <1>6 DEF Distinct
<1>14. Changed(pages, pages', cur, l, up, Leaf(s, pages[cur].next), Leaf(t, pages[l].next),
               Bordered(pages[up], i - 1, lent.key))
  <2>1. MovesBorder(pages, pages', cur, l, up, s, t, i - 1, lent.key)
    BY <1>12 DEF MovesBorder
  <2> QED
    BY <1>1, <1>9, <1>13, <2>1, LeavesChanged
<1>15. Changed(pages, pages', cur, l, up, y, x, Bordered(pages[up], i - 1, lent.key))
  BY <1>9, <1>14
<1>16. Changed(pages, pages', l, cur, up, x, y, Bordered(pages[up], i - 1, lent.key))
  BY <1>15, ChangedBack
<1>17. Ready(write_set', call')
  BY <1>3 DEF Done, Ready
<1>18. Sound(pages', root, write_set', call') /\ SameEntries(V, pages')
  BY <1>4, <1>11, <1>16, <1>17, LoanSound
<1> QED
  BY <1>18 DEF TreeInv

\* A leaf borrows from its right sibling.
LEMMA LeafFromRightSound ==
  ASSUME NEW V, NEW h, NEW R, Tree(V, root, h, R), Sizes(pages, root), NEW up, NEW i, NEW cur, NEW rest,
         LeafShort(V, pages, up, i, cur, rest), LeafFromRight(up, i, rest), root' = root
  PROVE  TreeInv' /\ SameEntries(V, pages')
<1> PICK r : r = pages[up].children[i + 1]
  OBVIOUS
<1> PICK k : k = pages[r].entries[2].key
  OBVIOUS
<1>1. /\ DOMAIN V = DOMAIN pages /\ SameBut(V, pages, cur) /\ V[cur] = Leaf(rest, pages[cur].next)
      /\ cur \in DOMAIN pages /\ IsLeafPage(pages[cur]) /\ rest \in Seq(Entry)
      /\ up \in DOMAIN pages /\ up # cur /\ IsInternalPage(pages[up]) /\ IsChild(pages, up, i, cur)
      /\ Len(rest) + 1 = LeafMax \div 2
  BY DEF LeafShort
<1>2. pages[up].children[i] = cur
  BY <1>1 DEF IsChild
<1> PICK s, t : s = Append(rest, Head(pages[r].entries)) /\ t = Tail(pages[r].entries)
  OBVIOUS
<1>3. /\ i < Len(pages[up].children) /\ CanSpare(r) /\ Done
      /\ pages' = [pages EXCEPT ![cur].entries = s, ![r].entries = Tail(@), ![up].keys[i] = k]
  BY <1>2 DEF LeafFromRight, RightSpares
<1>4. Neighbours(V, pages, up, i, cur, r, cur)
  <2>1. Len(pages[up].children) \in Nat
    BY <1>1, InternalKind
  <2> QED
    BY <1>1, <1>3, <2>1, Siblings
<1>5. NeighbourPages(V, pages, root, up, i, cur, r)
  BY <1>4, NeighbourFacts
<1>6. r \in DOMAIN pages /\ r # cur /\ r # up /\ V[up] = pages[up]
  BY <1>5 DEF NeighbourPages
<1>7. IsLeafPage(V[cur]) /\ V[cur].leaf = TRUE /\ V[cur].entries = rest /\ V[cur].next = pages[cur].next
  <2>1. IsLeafPage(Leaf(rest, pages[cur].next)) /\ Leaf(rest, pages[cur].next).leaf = TRUE
        /\ Leaf(rest, pages[cur].next).entries = rest /\ Leaf(rest, pages[cur].next).next = pages[cur].next
    BY <1>1, LeafOf, ZenonT(30)
  <2> QED
    BY <1>1, <2>1
<1>8. LeafSibling(V, cur, r, r)
  BY <1>4, <1>6, <1>7, RightSibling
<1>9. /\ V[r] = pages[r] /\ IsLeafPage(pages[r]) /\ V[cur].next = r /\ pages[cur].next = r
      /\ Len(pages[r].entries) \in LeafMax \div 2 .. LeafMax
      /\ Len(pages[r].entries) > LeafMax \div 2
  BY <1>3, <1>7, <1>8 DEF LeafSibling
<1>10. FitsLeaf(Len(V[r].entries) - 1) /\ FitsLeaf(Len(V[cur].entries) + 1)
  <2>1. HalfLess(Len(V[cur].entries))
    BY <1>1, <1>7, LengthOf DEF HalfLess
  <2>2. Spares(Len(V[r].entries))
    BY <1>9 DEF Spares
  <2> QED
    BY <2>1, <2>2, LoanFits
<1> PICK x, y : x = Leaf(s, r) /\ y = Leaf(t, pages[r].next)
  OBVIOUS
<1>11. Loan(V[cur], V[up].keys[i], V[r], x, k, y, r)
  <2>1. x = Leaf(Append(V[cur].entries, Head(V[r].entries)), r) /\ y = Leaf(Tail(V[r].entries), V[r].next)
        /\ k = V[r].entries[2].key
    BY <1>7, <1>9
  <2> QED
    BY <1>7, <1>9, <1>10, <2>1, FirstEntryLent, ZenonT(30)
<1>12. pages' = [pages EXCEPT ![cur].entries = s, ![r].entries = t, ![up].keys[i] = k]
  BY <1>3, <1>6
<1>13. Distinct(pages, cur, r, up)
  BY <1>1, <1>6 DEF Distinct
<1>14. Changed(pages, pages', cur, r, up, Leaf(s, pages[cur].next), Leaf(t, pages[r].next), Bordered(pages[up], i, k))
  <2>1. MovesBorder(pages, pages', cur, r, up, s, t, i, k)
    BY <1>12 DEF MovesBorder
  <2> QED
    BY <1>1, <1>9, <1>13, <2>1, LeavesChanged
<1>15. Changed(pages, pages', cur, r, up, x, y, Bordered(pages[up], i, k))
  BY <1>9, <1>14
<1>17. Ready(write_set', call')
  BY <1>3 DEF Done, Ready
<1>18. Sound(pages', root, write_set', call') /\ SameEntries(V, pages')
  BY <1>4, <1>11, <1>15, <1>17, LoanSound
<1> QED
  BY <1>18 DEF TreeInv

\* Two leaves merge, one of which has fallen below half.
LEMMA LeavesMerged ==
  ASSUME NEW V, NEW h, NEW R, Tree(V, root, h, R), Sizes(pages, root), NEW u, NEW i, NEW a, NEW b, NEW cur,
         Neighbours(V, pages, u, i, a, b, cur), V[cur].leaf = TRUE,
         NEW s, NEW t, NEW next, s = V[a].entries, t = V[b].entries, next = V[b].next, FitsLeaf(Len(s) + Len(t)),
         NEW held, Holding(pages, root, held, u, cur), MergeLeaves(held, u, i, s, t, next), root' = root
  PROVE  TreeInv' /\ SameEntries(V, pages')
<1>1. NeighbourPages(V, pages, root, u, i, a, b)
  BY NeighbourFacts
<1>2. V[u] = pages[u] /\ pages[u].children[i] = a /\ pages[u].children[i + 1] = b /\ V[b].leaf = V[a].leaf
  BY <1>1 DEF NeighbourPages
<1>3. cur \in {a, b}
  BY DEF Neighbours
<1>4. IsLeafPage(V[a]) /\ IsLeafPage(V[b])
  BY <1>2, <1>3, SiblingNext
<1> PICK st, k : st = s \o t /\ k = V[u].keys[i]
  OBVIOUS
<1> PICK pg : pg = Leaf(st, next)
  OBVIOUS
<1>5. /\ pages' = WithoutPage([pages EXCEPT ![a] = pg], b)
      /\ call' = [of |-> "RemoveInternal", key |-> k, child |-> b] /\ write_set' = held
  BY <1>2 DEF MergeLeaves, Demote
<1>6. s \in Seq(Entry) /\ t \in Seq(Entry)
  BY <1>4 DEF IsLeafPage
<1>7. st \in Seq(Entry) /\ Joins(s, t, st) /\ Len(st) = Len(s) + Len(t)
  <2>1. st \in Seq(Entry) /\ Joins(s, t, st)
    BY <1>6, Chained
  <2> QED
    BY <2>1 DEF Joins
<1>8. IsLeafPage(pg) /\ pg.entries = st /\ pg.next = next
  <2>1. IsLeafPage(Leaf(st, next)) /\ Leaf(st, next).entries = st /\ Leaf(st, next).next = next
    BY <1>7, LeafOf
  <2> QED
    BY <2>1
<1>9. PageJoin(V[a], V[u].keys[i], V[b], pg)
  <2>1. LeafJoin(V[a], V[b], pg)
    BY <1>4, <1>7, <1>8 DEF LeafJoin
  <2> QED
    BY <2>1 DEF PageJoin
<1>10. MergesInto(V, pages', u, i, a, b) /\ pages'[a] = pg
  <2>1. TakesOver(pages, pages', a, b, pg)
    BY <1>5 DEF TakesOver
  <2> QED
    BY <1>9, <2>1, MergedPages
<1>11. Fits(pg)
  BY <1>7, <1>8 DEF Fits, LeafSized, FitsLeaf
<1>12. Fits(pages'[a])
  BY <1>10, <1>11
<1>13. call' = [of |-> "RemoveInternal", key |-> V[u].keys[i], child |-> b]
  BY <1>5
<1> HIDE DEF Neighbours
<1>14. Sound(pages', root, held, call') /\ SameEntries(V, pages')
  BY <1>10, <1>12, <1>13, MergeSound
<1> QED
  BY <1>5, <1>14 DEF TreeInv

\* The merge of a leaf with the sibling on its left or else with the one on its right.
MergesLeaf(held, up, i, entries) ==
  LET next(p) == pages[pages[up].children[p]].next
      of(p)   == pages[pages[up].children[p]].entries
  IN  \/ i > 1 /\ MergeLeaves(held, up, i - 1, of(i - 1), entries, next(i))
      \/ i = 1 /\ MergeLeaves(held, up, i, entries, of(i + 1), next(i + 1))

\* A leaf whose siblings cannot lend merges with one of them.
LEMMA MergeLeavesSound ==
  ASSUME NEW V, NEW h, NEW R, Tree(V, root, h, R), Sizes(pages, root), NEW up, NEW i, NEW cur, NEW rest,
         LeafShort(V, pages, up, i, cur, rest), NEW held, Holding(pages, root, held, up, cur),
         ~LeftSpares(up, i), ~RightSpares(up, i), root' = root, MergesLeaf(held, up, i, rest)
  PROVE  TreeInv' /\ SameEntries(V, pages')
<1> PICK n : n = Len(pages[up].children)
  OBVIOUS
<1>1. /\ DOMAIN V = DOMAIN pages /\ SameBut(V, pages, cur) /\ V[cur] = Leaf(rest, pages[cur].next)
      /\ cur \in DOMAIN pages /\ IsLeafPage(pages[cur]) /\ rest \in Seq(Entry)
      /\ up \in DOMAIN pages /\ up # cur /\ IsInternalPage(pages[up]) /\ IsChild(pages, up, i, cur)
      /\ Len(rest) + 1 = LeafMax \div 2
  BY DEF LeafShort
<1>2. pages[up].children[i] = cur /\ i \in 1 .. n
  BY <1>1 DEF IsChild
<1>3. n \in Nat /\ n >= 2 /\ DOMAIN pages[up].children = 1 .. n
  <2>1. LeafSized(pages[up], up = root) \/ InternalSized(pages[up], up = root)
    BY <1>1, OthersSized
  <2>2. pages[up].leaf = FALSE
    BY <1>1, InternalKind
  <2>3. InternalSized(pages[up], up = root)
    BY <2>1, <2>2, LeafKind DEF LeafSized
  <2> QED
    BY <2>3, TreeAssumption DEF InternalSized, IsInternalPage
<1>4. IsLeafPage(V[cur]) /\ V[cur].leaf = TRUE /\ V[cur].entries = rest /\ V[cur].next = pages[cur].next
  <2>1. IsLeafPage(Leaf(rest, pages[cur].next)) /\ Leaf(rest, pages[cur].next).leaf = TRUE
        /\ Leaf(rest, pages[cur].next).entries = rest /\ Leaf(rest, pages[cur].next).next = pages[cur].next
    BY <1>1, LeafOf, ZenonT(30)
  <2> QED
    BY <1>1, <2>1
<1>5. CASE i > 1
  <2> PICK l : l = pages[up].children[i - 1]
    OBVIOUS
  <2>1. Neighbours(V, pages, up, i - 1, l, cur, cur)
    BY <1>1, <1>3, <1>5, Siblings
  <2>2. l # cur
    <3>1. NeighbourPages(V, pages, root, up, i - 1, l, cur)
      BY <2>1, NeighbourFacts
    <3> QED
      BY <3>1 DEF NeighbourPages
  <2>3. LeafSibling(V, l, cur, l)
    BY <1>4, <2>1, <2>2, LeftSibling
  <2>4. ~CanSpare(l)
    BY <1>5 DEF LeftSpares
  <2>5. V[l] = pages[l] /\ Len(V[l].entries) \in LeafMax \div 2 .. LeafMax /\ ~(Len(V[l].entries) > LeafMax \div 2)
    BY <2>3, <2>4 DEF LeafSibling
  <2>6. FitsLeaf(Len(V[l].entries) + Len(V[cur].entries))
    <3>1. HalfLess(Len(V[cur].entries))
      BY <1>1, <1>4, LengthOf DEF HalfLess
    <3>2. SparesNone(Len(V[l].entries))
      BY <2>5 DEF SparesNone
    <3> QED
      BY <3>1, <3>2, BothFit
  <2>7. MergeLeaves(held, up, i - 1, pages[l].entries, rest, pages[cur].next)
    BY <1>2, <1>5 DEF MergesLeaf
  <2>8. MergeLeaves(held, up, i - 1, V[l].entries, V[cur].entries, V[cur].next)
    BY <1>4, <2>5, <2>7
  <2> QED
    BY <1>4, <2>1, <2>6, <2>8, LeavesMerged
<1>6. CASE i = 1
  <2> PICK r : r = pages[up].children[i + 1]
    OBVIOUS
  <2>1. Neighbours(V, pages, up, i, cur, r, cur)
    BY <1>1, <1>3, <1>6, Siblings
  <2>2. r # cur
    <3>1. NeighbourPages(V, pages, root, up, i, cur, r)
      BY <2>1, NeighbourFacts
    <3> QED
      BY <3>1 DEF NeighbourPages
  <2>3. LeafSibling(V, cur, r, r)
    BY <1>4, <2>1, <2>2, RightSibling
  <2>4. ~CanSpare(r)
    BY <1>3, <1>6 DEF RightSpares
  <2>5. V[r] = pages[r] /\ Len(V[r].entries) \in LeafMax \div 2 .. LeafMax /\ ~(Len(V[r].entries) > LeafMax \div 2)
    BY <2>3, <2>4 DEF LeafSibling
  <2>6. FitsLeaf(Len(V[cur].entries) + Len(V[r].entries))
    <3>1. HalfLess(Len(V[cur].entries))
      BY <1>1, <1>4, LengthOf DEF HalfLess
    <3>2. SparesNone(Len(V[r].entries))
      BY <2>5 DEF SparesNone
    <3> QED
      BY <3>1, <3>2, BothFit
  <2>7. MergeLeaves(held, up, i, rest, pages[r].entries, pages[r].next)
    BY <1>6 DEF MergesLeaf
  <2>8. MergeLeaves(held, up, i, V[cur].entries, V[r].entries, V[r].next)
    BY <1>4, <2>5, <2>7
  <2> QED
    BY <1>4, <2>1, <2>6, <2>8, LeavesMerged
<1> QED
  BY <1>2, <1>3, <1>5, <1>6

\* What is left in a leaf is enough.
LEMMA PlainRemovalSound ==
  ASSUME NEW h, NEW R, Tree(pages, root, h, R), Sizes(pages, root), Ready(write_set, call), NEW cur \in DOMAIN pages,
         IsLeafPage(pages[cur]), NEW rest, LeafIn(Leaf(rest, pages[cur].next), R[cur]),
         LeafSized(Leaf(rest, pages[cur].next), cur = root),
         pages' = [pages EXCEPT ![cur].entries = rest], root' = root, write_set' = write_set, call' = call
  PROVE  TreeInv' /\ SameEntries([pages EXCEPT ![cur] = Leaf(rest, pages[cur].next)], pages')
<1> PICK pg : pg = Leaf(rest, pages[cur].next)
  OBVIOUS
<1>1. [pages[cur] EXCEPT !.entries = rest] = pg
  BY OtherEntries
<1>2. pages' = [pages EXCEPT ![cur] = pg]
  BY <1>1
<1>3. pg.next = pages[cur].next /\ pages[cur].leaf = TRUE
  <2>1. Leaf(rest, pages[cur].next).next = pages[cur].next
    BY DEF Leaf
  <2>2. pages[cur].leaf = TRUE
    BY LeafKind
  <2> QED
    BY <2>1, <2>2
<1>4. Refills(pages, R, cur, pg, pages')
  BY <1>2, <1>3 DEF Refills
<1>5. Tree(pages', root, h, R) /\ DOMAIN pages' = DOMAIN pages /\ SameBut(pages', pages, cur) /\ pages'[cur] = pg
  BY <1>4, FilledLeaf
<1>6. Sizes(pages', root)
  <2> SUFFICES ASSUME NEW p \in DOMAIN pages' PROVE LeafSized(pages'[p], p = root) \/ InternalSized(pages'[p], p = root)
    BY DEF Sizes
  <2>1. CASE p = cur
    BY <1>5, <2>1
  <2>2. CASE p # cur
    <3>1. p \in DOMAIN pages /\ pages'[p] = pages[p]
      BY <1>5, <2>2 DEF SameBut
    <3> QED
      BY <3>1, OthersSized
  <2> QED
    BY <2>1, <2>2
<1>7. IsTree(pages', root)
  BY <1>5 DEF IsTree
<1>8. Sound(pages', root, write_set, call)
  BY <1>6, <1>7, SoundAtRest
<1>9. SameEntries([pages EXCEPT ![cur] = Leaf(rest, pages[cur].next)], pages')
  BY <1>2 DEF SameEntries
<1> QED
  BY <1>8, <1>9 DEF TreeInv

\* The last entry goes and with it the only page.
LEMMA LastRemovalSound ==
  ASSUME NEW h, NEW R, Tree(pages, root, h, R), Ready(write_set, call), pages[root].leaf = TRUE,
         pages' = WithoutPage(pages, root), root' = NoPage, write_set' = write_set, call' = call
  PROVE  TreeInv' /\ SameEntries([pages EXCEPT ![root] = Leaf(<<>>, pages[root].next)], pages')
<1>1. root \in DOMAIN pages /\ R[root] = Int
  BY DEF Tree
<1>2. h[root] = 0
  BY <1>1, TreeNode
<1>3. ASSUME NEW p \in DOMAIN pages PROVE p = root
  <2>1. h[p] \in Nat /\ h[p] <= h[root] /\ R[p] \in SUBSET Int /\ R[p] # {}
    BY TreeNode
  <2> PICK x \in R[p] : TRUE
    BY <2>1
  <2>2. x \in R[root] /\ h[p] = h[root]
    BY <1>1, <1>2, <2>1
  <2> QED
    BY <1>1, <2>2, SamePage
<1>4. DOMAIN pages' = {}
  BY <1>3 DEF WithoutPage, Restrict
<1>5. SameEntries([pages EXCEPT ![root] = Leaf(<<>>, pages[root].next)], pages')
  <2> PICK V : V = [pages EXCEPT ![root] = Leaf(<<>>, pages[root].next)]
    OBVIOUS
  <2>1. DOMAIN V = {root} /\ V[root].entries = <<>>
    BY <1>1, <1>3 DEF Leaf
  <2>2. \A e : ~HasElement(<<>>, e)
    BY DEF HasElement
  <2>3. \A e : ~HasEntry(V, e)
    BY <2>1, <2>2 DEF HasEntry, HoldsEntry
  <2>4. \A e : ~HasEntry(pages', e)
    BY <1>4 DEF HasEntry
  <2> QED
    BY <2>3, <2>4 DEF SameEntries
<1> QED
  BY <1>4, <1>5 DEF TreeInv, Sound, Ready

\* A leaf that falls below half borrows or merges, and the tree is sound.
LEMMA LeafUnderflowSound ==
  ASSUME NEW h, NEW R, Tree(pages, root, h, R), Sizes(pages, root), NEW key,
         NEW path, Descent(pages, h, R, key, root, path), NEW cur, cur = Last(path), cur \in DOMAIN pages,
         Len(path) >= 2, cur # root, LeafSized(pages[cur], FALSE),
         NEW rest \in Seq(Entry), LeafIn(Leaf(rest, pages[cur].next), R[cur]), Len(rest) + 1 = Len(pages[cur].entries),
         Len(rest) < MinSize(pages[cur]), NEW held, held = HeldAncestors(path, Sparing),
         NEW i, i = UpperBound(pages[Last(held)], key), LeafUnderflows(held, Last(held), i, rest), root' = root
  PROVE  TreeInv' /\ SameEntries([pages EXCEPT ![cur] = Leaf(rest, pages[cur].next)], pages')
<1> PICK up : up = Last(held)
  OBVIOUS
<1> PICK pg, V : pg = Leaf(rest, pages[cur].next) /\ V = [pages EXCEPT ![cur] = pg]
  OBVIOUS
<1>1. IsLeafPage(pages[cur]) /\ pages[cur].leaf = TRUE
  BY LeafKind DEF LeafSized
<1>2. Tree(V, root, h, R) /\ DOMAIN V = DOMAIN pages /\ SameBut(V, pages, cur) /\ V[cur] = pg
  <2>1. pg.next = pages[cur].next
    <3>1. Leaf(rest, pages[cur].next).next = pages[cur].next
      BY DEF Leaf
    <3> QED
      BY <3>1
  <2>2. Refills(pages, R, cur, pg, V)
    BY <1>1, <2>1 DEF Refills
  <2> QED
    BY <2>2, FilledLeaf
<1>3. Len(rest) + 1 = LeafMax \div 2
  <2>1. MinSize(pages[cur]) = LeafMax \div 2 /\ LeafMax \div 2 \in Nat
    BY <1>1, LeastSizes
  <2>2. Len(pages[cur].entries) >= LeafMax \div 2
    BY DEF LeafSized
  <2> PICK m, d : m = Len(rest) /\ d = LeafMax \div 2
    OBVIOUS
  <2>3. m \in Nat /\ d \in Nat /\ m < d /\ m + 1 >= d
    BY <2>1, <2>2
  <2>4. m + 1 = d
    BY <2>3
  <2> QED
    BY <2>4
<1>4. /\ Chain(pages, held) /\ (held[1] = root \/ held[1] \in Sparing)
      /\ IsChild(pages, up, i, cur)
  BY HeldChain
<1>5. Holding(pages, root, held, up, cur)
  <2>1. ASSUME NEW j \in 1 .. Len(held) PROVE held[j] # cur
    BY <1>1, <1>4 DEF Chain
  <2>2. held[1] = root \/ Len(pages[held[1]].children) > LeastChildren
    <3>1. CASE held[1] \in Sparing
      <4>1. held[1] \in DOMAIN pages /\ ~pages[held[1]].leaf
        BY <1>4 DEF Chain
      <4>2. IsInternalPage(pages[held[1]])
        BY <4>1, InnerNode
      <4>3. Size(pages[held[1]]) > MinSize(pages[held[1]])
        BY <3>1 DEF Sparing, CanSpare
      <4> QED
        BY <4>2, <4>3, LeastSizes
    <3> QED
      BY <1>4, <3>1
  <2> QED
    BY <1>4, <2>1, <2>2 DEF Holding
<1>6. up \in DOMAIN pages /\ up # cur /\ IsInternalPage(pages[up])
  <2>1. Len(held) \in 1 .. Len(held) /\ up = held[Len(held)]
    BY <1>4 DEF Chain, Last
  <2>2. up \in DOMAIN pages /\ ~pages[up].leaf
    BY <1>4, <2>1 DEF Chain
  <2> QED
    BY <1>1, <2>2, InnerNode
<1>7. LeafShort(V, pages, up, i, cur, rest)
  BY <1>1, <1>2, <1>3, <1>4, <1>6 DEF LeafShort
<1>8. \/ LeafFromLeft(up, i, rest)
      \/ LeafFromRight(up, i, rest)
      \/ ~LeftSpares(up, i) /\ ~RightSpares(up, i) /\ MergesLeaf(held, up, i, rest)
  BY DEF LeafUnderflows, MergesLeaf
<1>20. SUFFICES TreeInv' /\ SameEntries(V, pages')
  OBVIOUS
<1>9. CASE LeafFromLeft(up, i, rest)
  BY <1>2, <1>7, <1>9, LeafFromLeftSound
<1>10. CASE LeafFromRight(up, i, rest)
  BY <1>2, <1>7, <1>10, LeafFromRightSound
<1>11. CASE ~LeftSpares(up, i) /\ ~RightSpares(up, i) /\ MergesLeaf(held, up, i, rest)
  BY <1>2, <1>5, <1>7, <1>11, MergeLeavesSound
<1> QED
  BY <1>8, <1>9, <1>10, <1>11

\* A call of Remove up to its first call of RemoveInternal keeps the invariant.
LEMMA RemoveKeySound ==
  ASSUME TreeInv, NEW key \in Keys, RemoveKey(key)
  PROVE  TreeInv' /\ SameEntries(Taken(key), pages')
<1> PICK path : path = Path(key)
  OBVIOUS
<1> PICK cur : cur = Last(path)
  OBVIOUS
<1> PICK pos : pos = LeafLowerBound(pages[cur], key)
  OBVIOUS
<1> PICK rest : rest = RemoveAt(pages[cur].entries, pos)
  OBVIOUS
<1> PICK held : held = HeldAncestors(path, Sparing)
  OBVIOUS
<1> PICK i : i = UpperBound(pages[Last(held)], key)
  OBVIOUS
<1>1. /\ root # NoPage /\ call = NoCall /\ HasKeyAt(pages[cur], pos, key)
      /\ \/ /\ Len(rest) >= MinSize(pages[cur]) \/ (cur = root /\ rest # <<>>)
            /\ pages' = [pages EXCEPT ![cur].entries = rest] /\ root' = root /\ write_set' = write_set /\ call' = call
         \/ /\ rest = <<>> /\ cur = root /\ pages' = WithoutPage(pages, cur)
            /\ root' = NoPage /\ write_set' = write_set /\ call' = call
         \/ cur # root /\ Len(rest) < MinSize(pages[cur]) /\ LeafUnderflows(held, Last(held), i, rest) /\ root' = root
  BY DEF RemoveKey, Idle
<1>2. IsTree(pages, root) /\ Sizes(pages, root) /\ Ready(write_set, call) /\ HaveKeys(pages)
  BY <1>1, AtRest DEF TreeInv
<1>3. PICK h, R : Tree(pages, root, h, R)
  BY <1>2 DEF IsTree
<1>4. key \in Int
  BY TreeAssumption
<1>5. /\ Descent(pages, h, R, key, root, path) /\ cur \in DOMAIN pages /\ pages[cur].leaf = TRUE
      /\ LeafIn(pages[cur], R[cur]) /\ key \in R[cur] /\ R[cur] \in SUBSET Int
      /\ LeafSized(pages[cur], cur = root) /\ Len(pages[cur].entries) >= 1
      /\ cur # root => Len(path) >= 2
  BY <1>2, <1>3, <1>4, AtLeaf
<1> PICK pg, A : pg = pages[cur] /\ A = R[cur]
  OBVIOUS
<1>6. pos \in 1 .. Len(pg.entries)
  <2>1. LeafIn(pg, A) /\ A \in SUBSET Int /\ Len(pg.entries) >= 1 /\ HasKeyAt(pg, pos, key) /\ pos = LeafLowerBound(pg, key)
    BY <1>1, <1>5
  <2> QED
    BY <1>4, <2>1, KeyFound
<1>7. LeafIn(Leaf(rest, pg.next), A) /\ Len(rest) = Len(pg.entries) - 1
  <2>1. TakesEntry(pg, A, pos, rest)
    BY <1>5, <1>6 DEF TakesEntry
  <2> QED
    BY <2>1, EntryTaken
<1>8. rest \in Seq(Entry) /\ IsLeafPage(pg) /\ Leaf(rest, pg.next).entries = rest /\ IsLeafPage(Leaf(rest, pg.next))
  <2>1. IsLeafPage(Leaf(rest, pg.next)) /\ IsLeafPage(pg)
    BY <1>5, <1>7 DEF LeafIn
  <2>2. Leaf(rest, pg.next).entries = rest
    BY DEF Leaf
  <2> QED
    BY <2>1, <2>2 DEF IsLeafPage
<1>9. MinSize(pg) = LeafMax \div 2 /\ LeafMax \div 2 \in Nat /\ LeafMax \div 2 >= 1
  BY <1>8, LeastSizes
<1>20. Taken(key) = [pages EXCEPT ![cur] = Leaf(rest, pages[cur].next)]
  BY DEF Taken
<1>10. CASE /\ Len(rest) >= MinSize(pages[cur]) \/ (cur = root /\ rest # <<>>)
            /\ pages' = [pages EXCEPT ![cur].entries = rest] /\ root' = root /\ write_set' = write_set /\ call' = call
  <2> PICK n, m, d : n = Len(rest) /\ m = Len(pg.entries) /\ d = LeafMax \div 2
    OBVIOUS
  <2>1. n \in Nat /\ (rest # <<>> => n >= 1) /\ m \in 1 .. LeafMax /\ n = m - 1 /\ d \in Nat /\ d >= 1
    BY <1>5, <1>7, <1>8, <1>9 DEF LeafSized
  <2>2. n \in 1 .. LeafMax /\ (cur # root => n >= d)
    BY <1>9, <1>10, <2>1, TreeAssumption
  <2>3. LeafSized(Leaf(rest, pg.next), cur = root)
    BY <1>8, <2>2 DEF LeafSized
  <2>4. pages' = [pages EXCEPT ![cur].entries = rest] /\ root' = root /\ write_set' = write_set /\ call' = call
    BY <1>10
  <2>5. TreeInv' /\ SameEntries([pages EXCEPT ![cur] = Leaf(rest, pages[cur].next)], pages')
    BY <1>2, <1>3, <1>5, <1>7, <1>8, <2>3, <2>4, PlainRemovalSound
  <2> QED
    BY <1>20, <2>5
<1>11. CASE /\ rest = <<>> /\ cur = root /\ pages' = WithoutPage(pages, cur)
            /\ root' = NoPage /\ write_set' = write_set /\ call' = call
  BY <1>2, <1>3, <1>5, <1>11, <1>20, LastRemovalSound
<1>12. CASE cur # root /\ Len(rest) < MinSize(pages[cur]) /\ LeafUnderflows(held, Last(held), i, rest) /\ root' = root
  <2>1. Len(rest) + 1 = Len(pages[cur].entries)
    <3>1. Len(pg.entries) \in Nat
      BY <1>8, LeafKind
    <3> QED
      BY <1>7, <3>1
  <2>2. LeafSized(pages[cur], FALSE)
    BY <1>5, <1>12
  <2>3. LeafIn(Leaf(rest, pages[cur].next), R[cur])
    BY <1>7
  <2>4. TreeInv' /\ SameEntries([pages EXCEPT ![cur] = Leaf(rest, pages[cur].next)], pages')
    BY <1>2, <1>3, <1>5, <1>8, <1>12, <2>1, <2>2, <2>3, LeafUnderflowSound
  <2> QED
    BY <1>20, <2>4
<1> QED
  BY <1>1, <1>10, <1>11, <1>12

(* RemoveInternal: loans between internal pages. *)

\* A child lent to a neighbour goes with the key between the two pages.
LEMMA InternalLoan ==
  ASSUME NEW left, IsInternalPage(left), NEW right, IsInternalPage(right), NEW old,
         NEW ak \in Seq(Keys), NEW sk \in Seq(Keys), NEW tk \in Seq(Keys), NEW k \in Keys,
         KeysJoin(left.keys, old, right.keys, ak), KeysJoin(sk, k, tk, ak),
         NEW ac \in Seq(Nat), NEW sc \in Seq(Nat), NEW tc \in Seq(Nat),
         Joins(left.children, right.children, ac), Joins(sc, tc, ac),
         Len(sc) = Len(sk) + 1, Len(tc) = Len(tk) + 1, FitsInternal(Len(sc)), FitsInternal(Len(tc)), NEW b
  PROVE  Loan(left, old, right, Internal(sk, sc), k, Internal(tk, tc), b)
<1> PICK x, y, all : x = Internal(sk, sc) /\ y = Internal(tk, tc) /\ all = Internal(ak, ac)
  OBVIOUS
<1>1. Len(ac) = Len(ak) + 1
  <2>1. /\ Len(ak) = Len(left.keys) + 1 + Len(right.keys) /\ Len(ac) = Len(left.children) + Len(right.children)
        /\ Len(left.children) = Len(left.keys) + 1 /\ Len(right.children) = Len(right.keys) + 1
        /\ Len(left.keys) \in Nat /\ Len(right.keys) \in Nat
    BY InternalKind DEF KeysJoin, Joins
  <2> PICK p, q : p = Len(left.keys) /\ q = Len(right.keys)
    OBVIOUS
  <2>2. p \in Nat /\ q \in Nat /\ Len(ak) = p + 1 + q /\ Len(ac) = (p + 1) + (q + 1)
    BY <2>1
  <2>3. \A m, n \in Nat : m + 1 + n + 1 = (m + 1) + (n + 1)
    OBVIOUS
  <2> QED
    BY <2>2, <2>3
<1>2. IsInternalPage(x) /\ x.keys = sk /\ x.children = sc /\ x.leaf = FALSE
  <2>1. /\ IsInternalPage(Internal(sk, sc)) /\ Internal(sk, sc).keys = sk /\ Internal(sk, sc).children = sc
        /\ Internal(sk, sc).leaf = FALSE
    BY InternalOf
  <2> QED
    BY <2>1
<1>3. IsInternalPage(y) /\ y.keys = tk /\ y.children = tc
  <2>1. IsInternalPage(Internal(tk, tc)) /\ Internal(tk, tc).keys = tk /\ Internal(tk, tc).children = tc
    BY InternalOf
  <2> QED
    BY <2>1
<1>4. IsInternalPage(all) /\ all.keys = ak /\ all.children = ac
  <2>1. IsInternalPage(Internal(ak, ac)) /\ Internal(ak, ac).keys = ak /\ Internal(ak, ac).children = ac
    BY <1>1, InternalOf
  <2> QED
    BY <2>1
<1>5. InternalJoin(left, old, right, all) /\ InternalJoin(x, k, y, all)
  BY <1>2, <1>3, <1>4 DEF InternalJoin
<1>6. PageJoin(left, old, right, all) /\ PageHalves(x, k, y, all, b)
  BY <1>2, <1>5 DEF PageJoin, PageHalves
<1>7. Fits(x) /\ Fits(y)
  BY <1>2, <1>3 DEF Fits, InternalSized, FitsInternal
<1>8. Loan(left, old, right, x, k, y, b)
  BY <1>6, <1>7 DEF Loan
<1> QED
  BY <1>8

\* The last child of left goes right: old goes down with it and the last key of left goes up.
LEMMA LastChildLent ==
  ASSUME NEW left, IsInternalPage(left), NEW right, IsInternalPage(right), NEW old \in Keys, NEW b,
         FitsInternal(Len(left.children) - 1), FitsInternal(Len(right.children) + 1), NEW x, NEW y,
         x = Internal(Front(left.keys), Front(left.children)),
         y = Internal(<<old>> \o right.keys, <<Last(left.children)>> \o right.children)
  PROVE  Loan(left, old, right, x, Last(left.keys), y, b)
<1> PICK lk, rk, lc, rc : lk = left.keys /\ rk = right.keys /\ lc = left.children /\ rc = right.children
  OBVIOUS
<1> PICK sk, tk, ak : sk = Front(lk) /\ tk = <<old>> \o rk /\ ak = lk \o <<old>> \o rk
  OBVIOUS
<1> PICK sc, tc, ac : sc = Front(lc) /\ tc = <<Last(lc)>> \o rc /\ ac = lc \o rc
  OBVIOUS
<1>1. /\ lk \in Seq(Keys) /\ rk \in Seq(Keys) /\ lc \in Seq(Nat) /\ rc \in Seq(Nat)
      /\ Len(lc) = Len(lk) + 1 /\ Len(rc) = Len(rk) + 1
  BY DEF IsInternalPage
<1>2. Len(lk) >= 1 /\ Len(lc) >= 1
  <2>1. Len(lc) - 1 >= 2
    BY DEF FitsInternal
  <2> QED
    BY <1>1, <2>1
<1>3. LastKeyGone(Keys, lk, old, rk, sk, tk)
  <2>1. LastKeyGoes(lk, old, rk, sk, tk)
    BY DEF LastKeyGoes
  <2> QED
    BY <1>1, <1>2, <2>1, LastKeyLent
<1>4. LastGone(Nat, lc, rc, sc, tc)
  <2>1. LastGoes(lc, rc, sc, tc)
    BY DEF LastGoes
  <2> QED
    BY <1>1, <1>2, <2>1, LastLent
<1>5. ak \in Seq(Keys) /\ KeysJoin(lk, old, rk, ak)
  BY <1>1, KeysChained
<1>6. ac \in Seq(Nat) /\ Joins(lc, rc, ac)
  BY <1>1, Chained
<1>7. /\ sk \in Seq(Keys) /\ tk \in Seq(Keys) /\ Len(sk) = Len(lk) - 1 /\ Len(tk) = Len(rk) + 1
      /\ Last(lk) \in Keys /\ KeysJoin(sk, Last(lk), tk, ak)
  BY <1>3 DEF LastKeyGone
<1>8. /\ sc \in Seq(Nat) /\ tc \in Seq(Nat) /\ Len(sc) = Len(lc) - 1 /\ Len(tc) = Len(rc) + 1 /\ Joins(sc, tc, ac)
  BY <1>4 DEF LastGone
<1>9. Len(sc) = Len(sk) + 1 /\ Len(tc) = Len(tk) + 1
  BY <1>1, <1>7, <1>8
<1>10. FitsInternal(Len(sc)) /\ FitsInternal(Len(tc))
  BY <1>8
<1>11. Loan(left, old, right, Internal(sk, sc), Last(lk), Internal(tk, tc), b)
  BY <1>5, <1>6, <1>7, <1>8, <1>9, <1>10, InternalLoan
<1> QED
  BY <1>11

\* The first child of right goes left: old goes down with it and the first key of right goes up.
LEMMA FirstChildLent ==
  ASSUME NEW left, IsInternalPage(left), NEW right, IsInternalPage(right), NEW old \in Keys, NEW b,
         FitsInternal(Len(left.children) + 1), FitsInternal(Len(right.children) - 1), NEW x, NEW y,
         x = Internal(Append(left.keys, old), Append(left.children, Head(right.children))),
         y = Internal(Tail(right.keys), Tail(right.children))
  PROVE  Loan(left, old, right, x, Head(right.keys), y, b)
<1> PICK lk, rk, lc, rc : lk = left.keys /\ rk = right.keys /\ lc = left.children /\ rc = right.children
  OBVIOUS
<1> PICK sk, tk, ak : sk = Append(lk, old) /\ tk = Tail(rk) /\ ak = lk \o <<old>> \o rk
  OBVIOUS
<1> PICK sc, tc, ac : sc = Append(lc, Head(rc)) /\ tc = Tail(rc) /\ ac = lc \o rc
  OBVIOUS
<1>1. /\ lk \in Seq(Keys) /\ rk \in Seq(Keys) /\ lc \in Seq(Nat) /\ rc \in Seq(Nat)
      /\ Len(lc) = Len(lk) + 1 /\ Len(rc) = Len(rk) + 1
  BY DEF IsInternalPage
<1>2. Len(rk) >= 1 /\ Len(rc) >= 1
  <2>1. Len(rc) - 1 >= 2
    BY DEF FitsInternal
  <2>2. Len(rk) \in Nat /\ Len(rc) \in Nat
    BY <1>1, LengthOf, Zenon
  <2>3. \A m, n \in Nat : n = m + 1 /\ n - 1 >= 2 => m >= 1 /\ n >= 1
    OBVIOUS
  <2> QED
    BY <1>1, <2>1, <2>2, <2>3
<1>3. FirstKeyGone(Keys, lk, old, rk, sk, tk)
  <2>1. FirstKeyGoes(lk, old, rk, sk, tk)
    BY DEF FirstKeyGoes
  <2> QED
    BY <1>1, <1>2, <2>1, FirstKeyLent
<1>4. FirstGone(Nat, lc, rc, sc, tc)
  <2>1. FirstGoes(lc, rc, sc, tc)
    BY DEF FirstGoes
  <2> QED
    BY <1>1, <1>2, <2>1, FirstLent
<1>5. ak \in Seq(Keys) /\ KeysJoin(lk, old, rk, ak)
  BY <1>1, KeysChained
<1>6. ac \in Seq(Nat) /\ Joins(lc, rc, ac)
  BY <1>1, Chained
<1>7. /\ sk \in Seq(Keys) /\ tk \in Seq(Keys) /\ Len(sk) = Len(lk) + 1 /\ Len(tk) = Len(rk) - 1
      /\ Head(rk) \in Keys /\ KeysJoin(sk, Head(rk), tk, ak)
  BY <1>3 DEF FirstKeyGone
<1>8. /\ sc \in Seq(Nat) /\ tc \in Seq(Nat) /\ Len(sc) = Len(lc) + 1 /\ Len(tc) = Len(rc) - 1 /\ Joins(sc, tc, ac)
  BY <1>4 DEF FirstGone
<1>9. Len(sc) = Len(sk) + 1 /\ Len(tc) = Len(tk) + 1
  BY <1>1, <1>7, <1>8
<1>10. FitsInternal(Len(sc)) /\ FitsInternal(Len(tc))
  BY <1>8
<1>11. Loan(left, old, right, Internal(sk, sc), Head(rk), Internal(tk, tc), b)
  BY <1>5, <1>6, <1>7, <1>8, <1>9, <1>10, InternalLoan
<1> QED
  BY <1>11

\* rest is what is left in internal page cur, child i of u, and V is the tree with it.
InternalShort(V, ps, u, i, cur, rest) ==
  /\ DOMAIN V = DOMAIN ps /\ SameBut(V, ps, cur) /\ V[cur] = rest
  /\ cur \in DOMAIN ps /\ IsInternalPage(rest)
  /\ u \in DOMAIN ps /\ u # cur /\ IsInternalPage(ps[u]) /\ IsChild(ps, u, i, cur)
  /\ Len(rest.children) + 1 = LeastChildren

InternalSibling(V, o) ==
  /\ V[o] = pages[o] /\ IsInternalPage(pages[o]) /\ o \in DOMAIN pages
  /\ Len(pages[o].children) \in LeastChildren .. InternalMax
  /\ CanSpare(o) <=> Len(pages[o].children) > LeastChildren

\* The sibling of an internal page that fell below half.
LEMMA SiblingInternal ==
  ASSUME NEW V, NEW h, NEW R, Tree(V, root, h, R), Sizes(pages, root), NEW u, NEW j, NEW a, NEW b, NEW cur,
         Neighbours(V, pages, u, j, a, b, cur), ~V[cur].leaf, NEW o \in {a, b}, o # cur
  PROVE  InternalSibling(V, o)
<1>1. NeighbourPages(V, pages, root, u, j, a, b)
  BY NeighbourFacts
<1>2. a \in DOMAIN pages /\ b \in DOMAIN pages /\ V[b].leaf = V[a].leaf /\ a # root /\ b # root
  BY <1>1 DEF NeighbourPages
<1>3. DOMAIN V = DOMAIN pages /\ SameBut(V, pages, cur) /\ cur \in {a, b}
  BY DEF Neighbours
<1>4. o \in DOMAIN pages /\ V[o] = pages[o] /\ o # root /\ ~V[o].leaf
  BY <1>2, <1>3 DEF SameBut
<1>5. LeafSized(pages[o], o = root) \/ InternalSized(pages[o], o = root)
  BY <1>4, OthersSized
<1>6. InternalSized(pages[o], o = root)
  BY <1>4, <1>5, LeafKind DEF LeafSized
<1>7. IsInternalPage(pages[o]) /\ Len(pages[o].children) \in 2 .. InternalMax /\ Len(pages[o].children) >= LeastChildren
  BY <1>4, <1>6 DEF InternalSized
<1>8. LeastChildren \in Nat /\ MinSize(pages[o]) = LeastChildren /\ Size(pages[o]) = Len(pages[o].children)
  BY <1>7, LeastSizes
<1> PICK n, m : n = Len(pages[o].children) /\ m = LeastChildren
  OBVIOUS
<1>9. n \in m .. InternalMax
  <2>1. n \in 2 .. InternalMax /\ n >= m /\ m \in Nat
    BY <1>7, <1>8
  <2> QED
    BY <2>1, TreeAssumption
<1>10. CanSpare(o) <=> n > m
  BY <1>8 DEF CanSpare
<1> QED
  BY <1>4, <1>7, <1>9, <1>10 DEF InternalSibling

\* Sizes of internal pages after a loan or a merge.
LEMMA HalfFullInternal ==
  ASSUME NEW m \in Nat, m + 1 = LeastChildren
  PROVE  /\ FitsInternal(m + 1)
         /\ \A n \in LeastChildren .. InternalMax : n > LeastChildren => FitsInternal(n - 1)
         /\ \A n \in LeastChildren .. InternalMax : ~(n > LeastChildren) => FitsInternal(n + m) /\ FitsInternal(m + n)
<1> PICK d : d = LeastChildren
  OBVIOUS
<1>1. d \in Nat /\ d >= 2 /\ 2 * d <= InternalMax + 1 /\ InternalMax \in Nat /\ InternalMax >= 3
  BY LeastSizes, TreeAssumption
<1>2. FitsInternal(m + 1)
  BY <1>1 DEF FitsInternal
<1>3. ASSUME NEW n \in d .. InternalMax, n > d PROVE FitsInternal(n - 1)
  BY <1>1, <1>3 DEF FitsInternal
<1>4. ASSUME NEW n \in d .. InternalMax, ~(n > d) PROVE FitsInternal(n + m) /\ FitsInternal(m + n)
  BY <1>1, <1>4 DEF FitsInternal
<1> QED
  BY <1>2, <1>3, <1>4

\* New internal pages a and b and a new key between them.
MovesChild(ps, qs, a, b, u, x, y, j, k) == qs = [ps EXCEPT ![a] = x, ![u].keys[j] = k, ![b] = y]

\* The assignments of a loan between internal pages, as three new pages.
LEMMA InternalsChanged ==
  ASSUME NEW ps, NEW a, NEW b, NEW u, Distinct(ps, a, b, u), IsInternalPage(ps[u]), NEW x, NEW y,
         NEW j, NEW k, NEW qs, MovesChild(ps, qs, a, b, u, x, y, j, k)
  PROVE  Changed(ps, qs, a, b, u, x, y, Bordered(ps[u], j, k))
<1> PICK z : z = [ps[u] EXCEPT !.keys[j] = k]
  OBVIOUS
<1>1. z = Bordered(ps[u], j, k)
  BY OtherKey DEF Bordered
<1>2. DOMAIN qs = DOMAIN ps /\ qs[a] = x /\ qs[b] = y /\ qs[u] = z
  BY DEF Distinct, MovesChild
<1>3. SameButThree(qs, ps, a, b, u)
  BY DEF Distinct, SameButThree, MovesChild
<1> QED
  BY <1>1, <1>2, <1>3 DEF Changed

\* An internal page borrows from its left sibling.
LEMMA InternalFromLeftSound ==
  ASSUME NEW V, NEW h, NEW R, Tree(V, root, h, R), Sizes(pages, root), NEW up, NEW i, NEW cur, NEW rest,
         InternalShort(V, pages, up, i, cur, rest), InternalFromLeft(up, i, rest.keys, rest.children), root' = root
  PROVE  TreeInv' /\ SameEntries(V, pages')
<1> PICK l : l = pages[up].children[i - 1]
  OBVIOUS
<1> PICK old, k : old = pages[up].keys[i - 1] /\ k = Last(pages[l].keys)
  OBVIOUS
<1> PICK x, y : /\ x = Internal(Front(pages[l].keys), Front(pages[l].children))
                /\ y = Internal(<<old>> \o rest.keys, <<Last(pages[l].children)>> \o rest.children)
  OBVIOUS
<1>1. /\ DOMAIN V = DOMAIN pages /\ SameBut(V, pages, cur) /\ V[cur] = rest
      /\ cur \in DOMAIN pages /\ IsInternalPage(rest)
      /\ up \in DOMAIN pages /\ up # cur /\ IsInternalPage(pages[up]) /\ IsChild(pages, up, i, cur)
      /\ Len(rest.children) + 1 = LeastChildren
  BY DEF InternalShort
<1>2. pages[up].children[i] = cur
  BY <1>1 DEF IsChild
<1>3. /\ i > 1 /\ CanSpare(l) /\ Done
      /\ pages' = [pages EXCEPT ![cur] = y, ![up].keys[i - 1] = k, ![l] = Internal(Front(@.keys), Front(@.children))]
  BY <1>2 DEF InternalFromLeft, LeftSpares
<1>4. Neighbours(V, pages, up, i - 1, l, cur, cur)
  <2>1. Len(pages[up].children) \in Nat
    BY <1>1, InternalKind
  <2> QED
    BY <1>1, <1>3, <2>1, Siblings
<1>5. NeighbourPages(V, pages, root, up, i - 1, l, cur)
  BY <1>4, NeighbourFacts
<1>6. l \in DOMAIN pages /\ l # cur /\ l # up /\ V[up] = pages[up] /\ i - 1 \in 1 .. Len(pages[up].keys)
  BY <1>5 DEF NeighbourPages
<1>7. ~V[cur].leaf /\ Len(rest.children) \in Nat
  <2>1. rest.leaf = FALSE /\ Len(rest.children) \in Nat
    BY <1>1 DEF IsInternalPage
  <2> QED
    BY <1>1, <2>1
<1>8. InternalSibling(V, l)
  BY <1>4, <1>6, <1>7, SiblingInternal
<1>9. /\ V[l] = pages[l] /\ IsInternalPage(pages[l])
      /\ Len(pages[l].children) \in LeastChildren .. InternalMax
      /\ Len(pages[l].children) > LeastChildren
  BY <1>3, <1>8 DEF InternalSibling
<1>10. FitsInternal(Len(pages[l].children) - 1) /\ FitsInternal(Len(rest.children) + 1)
  BY <1>1, <1>7, <1>9, HalfFullInternal
<1>11. old \in Keys
  BY <1>1, <1>6, InternalKind
<1>12. Loan(pages[l], old, rest, x, k, y, cur)
  BY <1>1, <1>9, <1>10, <1>11, LastChildLent
<1>13. Loan(V[l], V[up].keys[i - 1], V[cur], x, k, y, cur)
  BY <1>1, <1>6, <1>9, <1>12
<1>14. pages' = [pages EXCEPT ![cur] = y, ![up].keys[i - 1] = k, ![l] = x]
  BY <1>3, <1>6
<1>15. Changed(pages, pages', cur, l, up, y, x, Bordered(pages[up], i - 1, k))
  <2>1. Distinct(pages, cur, l, up)
    BY <1>1, <1>6 DEF Distinct
  <2>2. MovesChild(pages, pages', cur, l, up, y, x, i - 1, k)
    BY <1>14 DEF MovesChild
  <2> QED
    BY <1>1, <2>1, <2>2, InternalsChanged
<1>16. Changed(pages, pages', l, cur, up, x, y, Bordered(pages[up], i - 1, k))
  BY <1>15, ChangedBack
<1>17. Ready(write_set', call')
  BY <1>3 DEF Done, Ready
<1>18. Sound(pages', root, write_set', call') /\ SameEntries(V, pages')
  BY <1>4, <1>13, <1>16, <1>17, LoanSound
<1> QED
  BY <1>18 DEF TreeInv

\* An internal page borrows from its right sibling.
LEMMA InternalFromRightSound ==
  ASSUME NEW V, NEW h, NEW R, Tree(V, root, h, R), Sizes(pages, root), NEW up, NEW i, NEW cur, NEW rest,
         InternalShort(V, pages, up, i, cur, rest), InternalFromRight(up, i, rest.keys, rest.children), root' = root
  PROVE  TreeInv' /\ SameEntries(V, pages')
<1> PICK r : r = pages[up].children[i + 1]
  OBVIOUS
<1> PICK old, k : old = pages[up].keys[i] /\ k = Head(pages[r].keys)
  OBVIOUS
<1> PICK x, y : /\ x = Internal(Append(rest.keys, old), Append(rest.children, Head(pages[r].children)))
                /\ y = Internal(Tail(pages[r].keys), Tail(pages[r].children))
  OBVIOUS
<1>1. /\ DOMAIN V = DOMAIN pages /\ SameBut(V, pages, cur) /\ V[cur] = rest
      /\ cur \in DOMAIN pages /\ IsInternalPage(rest)
      /\ up \in DOMAIN pages /\ up # cur /\ IsInternalPage(pages[up]) /\ IsChild(pages, up, i, cur)
      /\ Len(rest.children) + 1 = LeastChildren
  BY DEF InternalShort
<1>2. pages[up].children[i] = cur
  BY <1>1 DEF IsChild
<1>3. /\ i < Len(pages[up].children) /\ CanSpare(r) /\ Done
      /\ pages' = [pages EXCEPT ![cur] = x, ![up].keys[i] = k, ![r] = Internal(Tail(@.keys), Tail(@.children))]
  BY <1>2 DEF InternalFromRight, RightSpares
<1>4. Neighbours(V, pages, up, i, cur, r, cur)
  <2>1. Len(pages[up].children) \in Nat
    BY <1>1, InternalKind
  <2> QED
    BY <1>1, <1>3, <2>1, Siblings
<1>5. NeighbourPages(V, pages, root, up, i, cur, r)
  BY <1>4, NeighbourFacts
<1>6. r \in DOMAIN pages /\ r # cur /\ r # up /\ V[up] = pages[up] /\ i \in 1 .. Len(pages[up].keys)
  BY <1>5 DEF NeighbourPages
<1>7. ~V[cur].leaf /\ Len(rest.children) \in Nat
  <2>1. rest.leaf = FALSE /\ Len(rest.children) \in Nat
    BY <1>1 DEF IsInternalPage
  <2> QED
    BY <1>1, <2>1
<1>8. InternalSibling(V, r)
  BY <1>4, <1>6, <1>7, SiblingInternal
<1>9. /\ V[r] = pages[r] /\ IsInternalPage(pages[r])
      /\ Len(pages[r].children) \in LeastChildren .. InternalMax
      /\ Len(pages[r].children) > LeastChildren
  BY <1>3, <1>8 DEF InternalSibling
<1>10. FitsInternal(Len(pages[r].children) - 1) /\ FitsInternal(Len(rest.children) + 1)
  BY <1>1, <1>7, <1>9, HalfFullInternal
<1>11. old \in Keys
  BY <1>1, <1>6, InternalKind
<1>12. Loan(rest, old, pages[r], x, k, y, r)
  BY <1>1, <1>9, <1>10, <1>11, FirstChildLent
<1>13. Loan(V[cur], V[up].keys[i], V[r], x, k, y, r)
  BY <1>1, <1>6, <1>9, <1>12
<1>14. pages' = [pages EXCEPT ![cur] = x, ![up].keys[i] = k, ![r] = y]
  BY <1>3, <1>6
<1>15. Changed(pages, pages', cur, r, up, x, y, Bordered(pages[up], i, k))
  <2>1. Distinct(pages, cur, r, up)
    BY <1>1, <1>6 DEF Distinct
  <2>2. MovesChild(pages, pages', cur, r, up, x, y, i, k)
    BY <1>14 DEF MovesChild
  <2> QED
    BY <1>1, <2>1, <2>2, InternalsChanged
<1>17. Ready(write_set', call')
  BY <1>3 DEF Done, Ready
<1>18. Sound(pages', root, write_set', call') /\ SameEntries(V, pages')
  BY <1>4, <1>13, <1>15, <1>17, LoanSound
<1> QED
  BY <1>18 DEF TreeInv

\* What MergeInternals makes of two pages and the key between them.
JoinsPages(left, k, right, pg) ==
  pg = Internal(left.keys \o <<k>> \o right.keys, left.children \o right.children)

\* Two internal pages as one, with the key that was between them.
LEMMA InternalsJoined ==
  ASSUME NEW left, IsInternalPage(left), NEW right, IsInternalPage(right), NEW k \in Keys,
         NEW pg, JoinsPages(left, k, right, pg)
  PROVE  /\ PageJoin(left, k, right, pg) /\ IsInternalPage(pg)
         /\ Len(pg.children) = Len(left.children) + Len(right.children)
<1> PICK lk, rk, lc, rc : lk = left.keys /\ rk = right.keys /\ lc = left.children /\ rc = right.children
  OBVIOUS
<1> PICK ak, ac : ak = lk \o <<k>> \o rk /\ ac = lc \o rc
  OBVIOUS
<1>1. /\ lk \in Seq(Keys) /\ rk \in Seq(Keys) /\ lc \in Seq(Nat) /\ rc \in Seq(Nat)
      /\ Len(lc) = Len(lk) + 1 /\ Len(rc) = Len(rk) + 1
  BY DEF IsInternalPage
<1>2. ak \in Seq(Keys) /\ KeysJoin(lk, k, rk, ak)
  BY <1>1, KeysChained
<1>3. ac \in Seq(Nat) /\ Joins(lc, rc, ac)
  BY <1>1, Chained
<1>4. Len(ac) = Len(lc) + Len(rc)
  BY <1>3 DEF Joins
<1>5. Len(ac) = Len(ak) + 1
  <2>1. Len(lk) \in Nat /\ Len(rk) \in Nat
    BY <1>1
  <2>2. Len(ak) = Len(lk) + 1 + Len(rk)
    BY <1>2 DEF KeysJoin
  <2>3. Len(ac) = (Len(lk) + 1) + (Len(rk) + 1)
    BY <1>1, <1>4
  <2>4. \A m, n \in Nat : m + 1 + n + 1 = (m + 1) + (n + 1)
    OBVIOUS
  <2> QED
    BY <2>1, <2>2, <2>3, <2>4
<1>6. IsInternalPage(pg) /\ pg.keys = ak /\ pg.children = ac
  <2>1. IsInternalPage(Internal(ak, ac)) /\ Internal(ak, ac).keys = ak /\ Internal(ak, ac).children = ac
    BY <1>2, <1>3, <1>5, InternalOf
  <2> QED
    BY <2>1 DEF JoinsPages
<1>7. PageJoin(left, k, right, pg)
  <2>1. InternalJoin(left, k, right, pg)
    BY <1>2, <1>3, <1>6 DEF InternalJoin
  <2> QED
    BY <2>1 DEF PageJoin
<1> QED
  BY <1>4, <1>6, <1>7

\* Two internal pages merge, one of which has fallen below half.
LEMMA InternalsMerged ==
  ASSUME NEW V, NEW h, NEW R, Tree(V, root, h, R), Sizes(pages, root), NEW u, NEW i, NEW a, NEW b, NEW cur,
         Neighbours(V, pages, u, i, a, b, cur), IsInternalPage(V[a]), IsInternalPage(V[b]),
         FitsInternal(Len(V[a].children) + Len(V[b].children)),
         NEW held, Holding(pages, root, held, u, cur), MergeInternals(held, u, i, V[a], V[b]), root' = root
  PROVE  TreeInv' /\ SameEntries(V, pages')
<1>1. NeighbourPages(V, pages, root, u, i, a, b)
  BY NeighbourFacts
<1>2. /\ V[u] = pages[u] /\ pages[u].children[i] = a /\ pages[u].children[i + 1] = b
      /\ IsInternalPage(V[u]) /\ i \in 1 .. Len(V[u].keys)
  BY <1>1 DEF NeighbourPages
<1>3. V[u].keys[i] \in Keys
  BY <1>2, InternalKind
<1>4. PICK pg : pg = Internal(V[a].keys \o <<V[u].keys[i]>> \o V[b].keys, V[a].children \o V[b].children)
  OBVIOUS
<1>5. /\ TakesOver(pages, pages', a, b, pg) /\ JoinsPages(V[a], V[u].keys[i], V[b], pg) /\ write_set' = held
      /\ call' = [of |-> "RemoveInternal", key |-> V[u].keys[i], child |-> b]
  BY <1>2, <1>4 DEF MergeInternals, Demote, TakesOver, JoinsPages
<1>6. /\ PageJoin(V[a], V[u].keys[i], V[b], pg) /\ IsInternalPage(pg)
      /\ Len(pg.children) = Len(V[a].children) + Len(V[b].children)
  BY <1>3, <1>5, InternalsJoined
<1>7. MergesInto(V, pages', u, i, a, b) /\ pages'[a] = pg
  BY <1>5, <1>6, MergedPages
<1>8. Fits(pages'[a])
  BY <1>6, <1>7 DEF Fits, InternalSized, FitsInternal
<1>9. Sound(pages', root, held, call') /\ SameEntries(V, pages')
  BY <1>5, <1>7, <1>8, MergeSound
<1> QED
  BY <1>5, <1>9 DEF TreeInv

\* The merge of a page with the sibling on its left or else with the one on its right.
MergesInternal(held, up, i, rest) ==
  LET of(p) == pages[pages[up].children[p]]
  IN  \/ i > 1 /\ MergeInternals(held, up, i - 1, of(i - 1), rest)
      \/ i = 1 /\ MergeInternals(held, up, i, rest, of(i + 1))

\* An internal page whose siblings cannot lend merges with one of them.
LEMMA MergeInternalsSound ==
  ASSUME NEW V, NEW h, NEW R, Tree(V, root, h, R), Sizes(pages, root), NEW up, NEW i, NEW cur, NEW rest,
         InternalShort(V, pages, up, i, cur, rest), NEW held, Holding(pages, root, held, up, cur),
         ~LeftSpares(up, i), ~RightSpares(up, i), root' = root, MergesInternal(held, up, i, rest)
  PROVE  TreeInv' /\ SameEntries(V, pages')
<1> PICK n : n = Len(pages[up].children)
  OBVIOUS
<1>1. /\ DOMAIN V = DOMAIN pages /\ SameBut(V, pages, cur) /\ V[cur] = rest
      /\ cur \in DOMAIN pages /\ IsInternalPage(rest)
      /\ up \in DOMAIN pages /\ up # cur /\ IsInternalPage(pages[up]) /\ IsChild(pages, up, i, cur)
      /\ Len(rest.children) + 1 = LeastChildren
  BY DEF InternalShort
<1>2. pages[up].children[i] = cur /\ i \in 1 .. n
  BY <1>1 DEF IsChild
<1>3. n \in Nat /\ n >= 2
  <2>1. LeafSized(pages[up], up = root) \/ InternalSized(pages[up], up = root)
    BY <1>1, OthersSized
  <2>2. pages[up].leaf = FALSE
    BY <1>1, InternalKind
  <2>3. InternalSized(pages[up], up = root)
    BY <2>1, <2>2, LeafKind DEF LeafSized
  <2> QED
    BY <2>3, TreeAssumption DEF InternalSized, IsInternalPage
<1>4. ~V[cur].leaf /\ Len(rest.children) \in Nat /\ IsInternalPage(V[cur])
  <2>1. rest.leaf = FALSE /\ Len(rest.children) \in Nat
    BY <1>1 DEF IsInternalPage
  <2> QED
    BY <1>1, <2>1
<1>5. CASE i > 1
  <2> PICK l : l = pages[up].children[i - 1]
    OBVIOUS
  <2>1. Neighbours(V, pages, up, i - 1, l, cur, cur)
    BY <1>1, <1>3, <1>5, Siblings
  <2>2. l # cur
    <3>1. NeighbourPages(V, pages, root, up, i - 1, l, cur)
      BY <2>1, NeighbourFacts
    <3> QED
      BY <3>1 DEF NeighbourPages
  <2>3. InternalSibling(V, l)
    BY <1>4, <2>1, <2>2, SiblingInternal
  <2>4. ~CanSpare(l)
    BY <1>5 DEF LeftSpares
  <2>5. /\ V[l] = pages[l] /\ IsInternalPage(V[l])
        /\ Len(V[l].children) \in LeastChildren .. InternalMax /\ ~(Len(V[l].children) > LeastChildren)
    BY <2>3, <2>4 DEF InternalSibling
  <2>6. FitsInternal(Len(V[l].children) + Len(V[cur].children))
    BY <1>1, <1>4, <2>5, HalfFullInternal
  <2>7. MergeInternals(held, up, i - 1, pages[l], rest)
    BY <1>5 DEF MergesInternal
  <2>8. MergeInternals(held, up, i - 1, V[l], V[cur])
    BY <1>1, <2>5, <2>7
  <2> QED
    BY <1>4, <2>1, <2>5, <2>6, <2>8, InternalsMerged
<1>6. CASE i = 1
  <2> PICK r : r = pages[up].children[i + 1]
    OBVIOUS
  <2>1. Neighbours(V, pages, up, i, cur, r, cur)
    BY <1>1, <1>3, <1>6, Siblings
  <2>2. r # cur
    <3>1. NeighbourPages(V, pages, root, up, i, cur, r)
      BY <2>1, NeighbourFacts
    <3> QED
      BY <3>1 DEF NeighbourPages
  <2>3. InternalSibling(V, r)
    BY <1>4, <2>1, <2>2, SiblingInternal
  <2>4. ~CanSpare(r)
    BY <1>3, <1>6 DEF RightSpares
  <2>5. /\ V[r] = pages[r] /\ IsInternalPage(V[r])
        /\ Len(V[r].children) \in LeastChildren .. InternalMax /\ ~(Len(V[r].children) > LeastChildren)
    BY <2>3, <2>4 DEF InternalSibling
  <2>6. FitsInternal(Len(V[cur].children) + Len(V[r].children))
    BY <1>1, <1>4, <2>5, HalfFullInternal
  <2>7. MergeInternals(held, up, i, rest, pages[r])
    BY <1>6 DEF MergesInternal
  <2>8. MergeInternals(held, up, i, V[cur], V[r])
    BY <1>1, <2>5, <2>7
  <2> QED
    BY <1>4, <2>1, <2>5, <2>6, <2>8, InternalsMerged
<1> QED
  BY <1>2, <1>3, <1>5, <1>6

\* The page a call to remove is for and what is to be left of it.
LEMMA ReducedPage ==
  ASSUME NEW ps, NEW rt, NEW ws, NEW c, Sound(ps, rt, ws, c), c.of = "RemoveInternal"
  PROVE  /\ IsTree(ViewOf(ps, ws, c), rt) /\ Sizes(ps, rt) /\ Chain(ps, ws)
         /\ (ws[1] = rt \/ Len(ps[ws[1]].children) > LeastChildren) /\ c.child \notin DOMAIN ps
         /\ \E i : HasMore(Shrunk(ps[Last(ws)], c.key), i, c.key, c.child, ps[Last(ws)])
         /\ DOMAIN ViewOf(ps, ws, c) = DOMAIN ps /\ Last(ws) \in DOMAIN ps /\ SameBut(ViewOf(ps, ws, c), ps, Last(ws))
         /\ ViewOf(ps, ws, c)[Last(ws)] = Shrunk(ps[Last(ws)], c.key)
<1>1. ~Ready(ws, c)
  BY DEF Ready, NoCall
<1>2. IsTree(ViewOf(ps, ws, c), rt) /\ Sizes(ps, rt) /\ Calling(ps, rt, ws, c)
  BY <1>1 DEF Sound
<1>3. DOMAIN ViewOf(ps, ws, c) = DOMAIN ps /\ Last(ws) \in DOMAIN ps /\ SameBut(ViewOf(ps, ws, c), ps, Last(ws))
         /\ ViewOf(ps, ws, c)[Last(ws)] = Shrunk(ps[Last(ws)], c.key)
  BY <1>2, ViewPages
<1>4. /\ Chain(ps, ws) /\ (ws[1] = rt \/ Len(ps[ws[1]].children) > LeastChildren) /\ c.child \notin DOMAIN ps
      /\ \E i : HasMore(Shrunk(ps[Last(ws)], c.key), i, c.key, c.child, ps[Last(ws)])
  BY <1>2 DEF Calling
<1> QED
  BY <1>2, <1>3, <1>4

\* What is left of the root has one child.
LEMMA RootShrinks ==
  ASSUME NEW W, NEW h, NEW R, Tree(W, root, h, R), NEW ps, Sizes(ps, root), DOMAIN W = DOMAIN ps, SameBut(W, ps, root),
         IsInternalPage(W[root]), Len(W[root].children) = 1, NEW top, top = W[root].children[1],
         NEW qs, qs = WithoutPage(ps, root), NEW ws, NEW c, Ready(ws, c)
  PROVE  Sound(qs, top, ws, c)
<1>1. root \in DOMAIN W /\ root \in Nat
  BY DEF Tree
<1>2. DOMAIN qs = DOMAIN W \ {root} /\ \A p \in DOMAIN qs : qs[p] = ps[p] /\ W[p] = ps[p]
  BY DEF WithoutPage, Restrict, SameBut
<1>3. Len(W[root].keys) = 0
  <2>1. Len(W[root].keys) \in Nat /\ 1 = Len(W[root].keys) + 1
    BY InternalKind
  <2> QED
    BY <2>1
<1>4. Above(qs, W, root, top)
  BY <1>1, <1>2, <1>3 DEF Above
<1>5. Tree(qs, top, h, R)
  BY <1>4, ShrinkTree
<1>6. Sizes(qs, top)
  <2> SUFFICES ASSUME NEW p \in DOMAIN qs PROVE LeafSized(qs[p], p = top) \/ InternalSized(qs[p], p = top)
    BY DEF Sizes
  <2>1. p \in DOMAIN ps /\ p # root /\ qs[p] = ps[p]
    BY <1>2
  <2>2. LeafSized(ps[p], p = root) \/ InternalSized(ps[p], p = root)
    BY <2>1, OthersSized
  <2>3. Fits(qs[p])
    BY <2>1, <2>2 DEF Fits
  <2> QED
    BY <2>3, FitsAnywhere
<1>7. IsTree(qs, top)
  BY <1>5 DEF IsTree
<1> QED
  BY <1>6, <1>7, SoundAtRest

\* Each call of RemoveInternal keeps the invariant.
LEMMA RemoveInternalSound ==
  ASSUME TreeInv, RemoveInternal
  PROVE  TreeInv' /\ SameEntries(pages, pages')
<1> PICK cur, held : cur = Last(write_set) /\ held = Front(write_set)
  OBVIOUS
<1> PICK rest : rest = Shrunk(pages[cur], call.key)
  OBVIOUS
<1> PICK W : W = ViewOf(pages, write_set, call)
  OBVIOUS
<1> PICK up : up = Last(held)
  OBVIOUS
<1>1. /\ call.of = "RemoveInternal"
      /\ \/ ShrinkRoot(cur)
         \/ /\ IF cur = root THEN Size(pages[cur]) > 2 ELSE Size(rest) >= MinSize(rest)
            /\ pages' = [pages EXCEPT ![cur] = rest] /\ Done /\ root' = root
         \/ /\ cur # root /\ Size(rest) < MinSize(rest) /\ root' = root
            /\ \E j \in DOMAIN pages[up].children : pages[up].children[j] = cur /\ InternalUnderflows(held, up, j, rest)
  BY DEF RemoveInternal, Shrunk
<1>2. /\ IsTree(W, root) /\ Sizes(pages, root) /\ Chain(pages, write_set)
      /\ (write_set[1] = root \/ Len(pages[write_set[1]].children) > LeastChildren) /\ call.child \notin DOMAIN pages
      /\ \E i : HasMore(rest, i, call.key, call.child, pages[cur])
      /\ DOMAIN W = DOMAIN pages /\ cur \in DOMAIN pages /\ SameBut(W, pages, cur)
      /\ W[cur] = rest
  BY <1>1, ReducedPage DEF TreeInv
<1>3. PICK i : HasMore(rest, i, call.key, call.child, pages[cur])
  BY <1>2
<1>4. PICK h, R : Tree(W, root, h, R)
  BY <1>2 DEF IsTree
<1>5. /\ IsInternalPage(rest) /\ IsInternalPage(pages[cur]) /\ Len(pages[cur].children) = Len(rest.children) + 1
      /\ Len(rest.children) \in Nat /\ i \in 1 .. Len(pages[cur].keys) /\ PutIn(rest.children, i + 1, call.child, pages[cur].children)
  <2>1. /\ IsInternalPage(rest) /\ IsInternalPage(pages[cur]) /\ i \in 1 .. Len(pages[cur].keys)
        /\ PutIn(rest.children, i + 1, call.child, pages[cur].children)
    BY <1>3 DEF HasMore
  <2>2. Len(rest.children) \in Nat
    BY <2>1 DEF IsInternalPage
  <2> QED
    BY <2>1, <2>2 DEF PutIn
<1>6. /\ Size(pages[cur]) = Len(pages[cur].children) /\ Size(rest) = Len(rest.children) /\ MinSize(rest) = LeastChildren
      /\ LeastChildren \in Nat /\ LeastChildren >= 2
  BY <1>5, LeastSizes
<1>7. Len(pages[cur].children) \in 2 .. InternalMax /\ (cur # root => Len(pages[cur].children) >= LeastChildren)
  <2>1. LeafSized(pages[cur], cur = root) \/ InternalSized(pages[cur], cur = root)
    BY <1>2, OthersSized
  <2>2. pages[cur].leaf = FALSE
    BY <1>5, InternalKind
  <2>3. InternalSized(pages[cur], cur = root)
    BY <2>1, <2>2, LeafKind DEF LeafSized
  <2> QED
    BY <2>3 DEF InternalSized
<1>20. SameEntries(pages, W)
  <2>1. W[cur].leaf = FALSE /\ pages[cur].leaf = FALSE
    BY <1>2, <1>5, InternalKind
  <2>2. DOMAIN pages = DOMAIN W /\ SameBut(pages, W, cur)
    BY <1>2 DEF SameBut
  <2> QED
    BY <2>1, <2>2, SameOutside
<1>8. CASE ShrinkRoot(cur)
  <2> PICK top : top = rest.children[1]
    OBVIOUS
  <2>1. /\ cur = root /\ Size(pages[root]) = 2 /\ pages' = WithoutPage(pages, root) /\ Done
        /\ root' = IF pages[cur].children[1] = call.child THEN pages[cur].children[2] ELSE pages[cur].children[1]
    BY <1>8 DEF ShrinkRoot
  <2>20. \A m \in Nat : m + 1 = 2 => m = 1
    OBVIOUS
  <2>2. Len(rest.children) = 1
    <3>1. Len(rest.children) + 1 = 2
      BY <1>5, <1>6, <2>1
    <3> QED
      BY <1>5, <2>20, <3>1
  <2>3. i = 1
    <3>1. Len(pages[cur].keys) \in Nat /\ Len(pages[cur].children) = Len(pages[cur].keys) + 1
      BY <1>5, InternalKind
    <3>2. Len(pages[cur].keys) = 1
      <4>1. Len(pages[cur].keys) + 1 = 2
        BY <1>6, <2>1, <3>1
      <4> QED
        BY <2>20, <3>1, <4>1
    <3> QED
      BY <1>5, <3>2
  <2>4. pages[cur].children[1] = top
    <3>1. 1 \in 1 .. (i + 1) - 1
      BY <2>3
    <3> QED
      BY <1>5, <3>1 DEF PutIn
  <2>5. top \in DOMAIN W
    <3>1. IsChild(W, cur, 1, top)
      <4>1. rest.leaf = FALSE /\ 1 \in 1 .. Len(rest.children)
        <5>1. rest.leaf = FALSE
          BY <1>5 DEF IsInternalPage
        <5> QED
          BY <2>2, <5>1
      <4> QED
        BY <1>2, <4>1 DEF IsChild
    <3> QED
      BY <1>2, <1>4, <3>1, ChildOfNode
  <2>6. root' = top
    BY <1>2, <2>1, <2>4, <2>5
  <2>7. Ready(write_set', call')
    BY <2>1 DEF Done, Ready
  <2>8. SameBut(W, pages, root) /\ IsInternalPage(W[root]) /\ Len(W[root].children) = 1 /\ top = W[root].children[1]
    BY <1>2, <1>5, <2>1, <2>2
  <2>9. Sound(pages', top, write_set', call')
    BY <1>2, <1>4, <2>1, <2>7, <2>8, RootShrinks
  <2>10. SameEntries(pages, pages')
    <3>1. pages[root].leaf = FALSE
      BY <1>5, <2>1, InternalKind
    <3> QED
      BY <2>1, <3>1, DroppedHolds
  <2> QED
    BY <2>6, <2>9, <2>10 DEF TreeInv
<1>9. CASE /\ IF cur = root THEN Size(pages[cur]) > 2 ELSE Size(rest) >= MinSize(rest)
           /\ pages' = [pages EXCEPT ![cur] = rest] /\ Done /\ root' = root
  <2>1. pages' = [pages EXCEPT ![cur] = rest] /\ Ready(write_set', call') /\ root' = root
    BY <1>9 DEF Done, Ready
  <2>2. W = [pages EXCEPT ![cur] = rest]
    BY <1>1 DEF ViewOf
  <2>3. InternalSized(rest, cur = root)
    <3> PICK n, m, d : n = Len(rest.children) /\ m = Len(pages[cur].children) /\ d = LeastChildren
      OBVIOUS
    <3>1. n \in Nat /\ m = n + 1 /\ m \in 2 .. InternalMax /\ d \in Nat /\ d >= 2 /\ (IF cur = root THEN m > 2 ELSE n >= d)
      BY <1>5, <1>6, <1>7, <1>9
    <3>2. n \in 2 .. InternalMax /\ (cur # root => n >= d)
      BY <3>1, TreeAssumption
    <3> QED
      BY <1>5, <3>2 DEF InternalSized
  <2>4. InternalSized(W[cur], cur = root)
    BY <1>2, <2>3
  <2>5. Sound(W, root, write_set', call')
    BY <1>2, <2>1, <2>4, CallDone
  <2> QED
    BY <1>20, <2>1, <2>2, <2>5 DEF TreeInv
<1>10. CASE /\ cur # root /\ Size(rest) < MinSize(rest) /\ root' = root
            /\ \E j \in DOMAIN pages[up].children : pages[up].children[j] = cur /\ InternalUnderflows(held, up, j, rest)
  <2>1. PICK j \in DOMAIN pages[up].children : pages[up].children[j] = cur /\ InternalUnderflows(held, up, j, rest)
    BY <1>10
  <2>2. Len(rest.children) + 1 = LeastChildren
    <3> PICK n, m, d : n = Len(rest.children) /\ m = Len(pages[cur].children) /\ d = LeastChildren
      OBVIOUS
    <3>1. n \in Nat /\ m = n + 1 /\ d \in Nat /\ n < d /\ m >= d
      BY <1>5, <1>6, <1>7, <1>10
    <3>2. n + 1 = d
      BY <3>1
    <3> QED
      BY <3>2
  <2>3. Len(write_set) >= 2
    <3>1. ~(Len(pages[cur].children) > LeastChildren)
      BY <1>5, <1>6, <2>2
    <3>2. write_set[1] # cur
      BY <1>2, <1>10, <3>1
    <3> QED
      BY <1>2, <3>2, LongChain
  <2>4. /\ Chain(pages, held) /\ held[1] = write_set[1] /\ \A l \in 1 .. Len(held) : held[l] # cur
    BY <1>2, <2>3, ShorterChain
  <2>5. Holding(pages, root, held, up, cur)
    BY <1>2, <2>4 DEF Holding
  <2>6. up \in DOMAIN pages /\ up # cur /\ IsInternalPage(pages[up])
    <3>1. Len(held) \in 1 .. Len(held) /\ up = held[Len(held)]
      BY <2>4 DEF Chain, Last
    <3>2. up \in DOMAIN pages /\ ~pages[up].leaf /\ up # cur
      BY <2>4, <3>1 DEF Chain
    <3>3. W[up] = pages[up] /\ up \in DOMAIN W
      BY <1>2, <3>2 DEF SameBut
    <3>4. IsInternalPage(W[up])
      BY <1>4, <3>2, <3>3, InnerNode
    <3> QED
      BY <3>2, <3>3, <3>4
  <2>7. IsChild(pages, up, j, cur)
    <3>1. pages[up].children \in Seq(Nat) /\ pages[up].leaf = FALSE
      BY <2>6 DEF IsInternalPage
    <3> QED
      BY <2>1, <3>1 DEF IsChild
  <2>8. InternalShort(W, pages, up, j, cur, rest)
    BY <1>2, <1>5, <2>2, <2>6, <2>7 DEF InternalShort
  <2>9. \/ InternalFromLeft(up, j, rest.keys, rest.children)
        \/ InternalFromRight(up, j, rest.keys, rest.children)
        \/ ~LeftSpares(up, j) /\ ~RightSpares(up, j) /\ MergesInternal(held, up, j, rest)
    BY <2>1 DEF InternalUnderflows, MergesInternal
  <2>10. root' = root
    BY <1>10
  <2>11. CASE InternalFromLeft(up, j, rest.keys, rest.children)
    BY <1>2, <1>4, <1>20, <2>8, <2>10, <2>11, InternalFromLeftSound, EntriesTransitive
  <2>12. CASE InternalFromRight(up, j, rest.keys, rest.children)
    BY <1>2, <1>4, <1>20, <2>8, <2>10, <2>12, InternalFromRightSound, EntriesTransitive
  <2>13. CASE ~LeftSpares(up, j) /\ ~RightSpares(up, j) /\ MergesInternal(held, up, j, rest)
    BY <1>2, <1>4, <1>20, <2>5, <2>8, <2>10, <2>13, MergeInternalsSound, EntriesTransitive
  <2> QED
    BY <2>9, <2>11, <2>12, <2>13
<1> QED
  BY <1>1, <1>8, <1>9, <1>10

\* In every state the pages are a balanced search tree, every page but the root at
\* least half full, once the call that is to come has been made.
THEOREM TreeStaysSound == Spec => []TreeInv
<1>1. Init => TreeInv
  BY InitSound
<1>2. TreeInv /\ [Next]_treeVars => TreeInv'
  <2> SUFFICES ASSUME TreeInv, [Next]_treeVars
               PROVE  TreeInv'
    OBVIOUS
  <2>1. ASSUME NEW key \in Keys, RemoveKey(key)
        PROVE  TreeInv'
    BY <2>1, RemoveKeySound
  <2>2. ASSUME NEW key \in Keys, NEW value \in ValuesFor[key], InsertFirst(key, value)
        PROVE  TreeInv'
    BY <2>2, InsertFirstSound
  <2>3. ASSUME NEW key \in Keys, NEW value \in ValuesFor[key], InsertKey(key, value)
        PROVE  TreeInv'
    BY <2>3, InsertKeySound
  <2>4. CASE InsertInternal
    BY <2>4, InsertInternalSound
  <2>5. CASE RemoveInternal
    BY <2>5, RemoveInternalSound
  <2>6. CASE UNCHANGED treeVars
    BY <2>6 DEF TreeInv, treeVars
  <2> QED
    BY <2>1, <2>2, <2>3, <2>4, <2>5, <2>6 DEF Next
<1> QED
  BY <1>1, <1>2, PTL DEF Spec

(* What the runs check follows from the invariant. *)

\* In every state the tree behind the pages, their sizes, and what is to come.
LEMMA SoundTree ==
  ASSUME TreeInv, root # NoPage
  PROVE  /\ IsTree(ViewOf(pages, write_set, call), root) /\ Sizes(pages, root)
         /\ Ready(write_set, call) \/ Calling(pages, root, write_set, call)
BY DEF TreeInv, Sound

\* Every page has the size of its kind.
LEMMA SoundPage ==
  ASSUME TreeInv, NEW p \in DOMAIN pages
  PROVE  root # NoPage /\ (LeafSized(pages[p], p = root) \/ InternalSized(pages[p], p = root))
BY DEF TreeInv, Sound, Sizes

\* The view has the domain of the pages, and their leaves.
LEMMA SoundView ==
  ASSUME TreeInv, root # NoPage
  PROVE  \E V : /\ IsTree(V, root) /\ DOMAIN V = DOMAIN pages
                /\ \A p \in DOMAIN pages : pages[p].leaf = TRUE => V[p] = pages[p]
<1> PICK V : V = ViewOf(pages, write_set, call)
  OBVIOUS
<1>1. IsTree(V, root) /\ (Ready(write_set, call) \/ Calling(pages, root, write_set, call))
  BY SoundTree
<1>2. CASE Ready(write_set, call)
  <2>1. V = pages
    BY <1>2 DEF Ready, ViewOf, NoCall
  <2> QED
    BY <1>1, <2>1
<1>3. CASE Calling(pages, root, write_set, call)
  <2>1. /\ DOMAIN V = DOMAIN pages /\ SameBut(V, pages, Last(write_set)) /\ ~pages[Last(write_set)].leaf
    BY <1>3, ViewPages
  <2> QED
    BY <1>1, <2>1 DEF SameBut
<1> QED
  BY <1>1, <1>2, <1>3

\* The pages, the held ancestors and the call have their types.
LEMMA SoundTypes == TreeInv => TypeOK
<1> SUFFICES ASSUME TreeInv PROVE TypeOK
  OBVIOUS
<1>1. CASE root = NoPage
  <2>1. DOMAIN pages = {} /\ call = NoCall /\ write_set = <<>>
    BY <1>1 DEF TreeInv, Sound, Ready
  <2> QED
    BY <1>1, <2>1 DEF TypeOK, NoCall
<1>2. CASE root # NoPage
  <2>1. PICK V : /\ IsTree(V, root) /\ DOMAIN V = DOMAIN pages
                 /\ \A p \in DOMAIN pages : pages[p].leaf = TRUE => V[p] = pages[p]
    BY <1>2, SoundView
  <2>2. PICK h, R : Tree(V, root, h, R)
    BY <2>1 DEF IsTree
  <2>3. DOMAIN pages \subseteq Nat /\ root \in DOMAIN pages
    BY <2>1, <2>2 DEF Tree
  <2>4. ASSUME NEW p \in DOMAIN pages, LeafSized(pages[p], p = root)
        PROVE  /\ pages[p].leaf = TRUE /\ Size(pages[p]) \in 1 .. LeafMax
               /\ \A e \in Range(pages[p].entries) : e.key \in Keys /\ e.value \in ValuesFor[e.key]
               /\ pages[p].next \in DOMAIN pages \cup {NoPage}
    <3>1. IsLeafPage(pages[p]) /\ pages[p].leaf = TRUE /\ Len(pages[p].entries) \in 1 .. LeafMax /\ pages[p].entries \in Seq(Entry)
      BY <2>4 DEF LeafSized, IsLeafPage
    <3>2. Size(pages[p]) \in 1 .. LeafMax
      BY <3>1 DEF Size
    <3>3. ASSUME NEW e \in Range(pages[p].entries)
          PROVE  e.key \in Keys /\ e.value \in ValuesFor[e.key]
      BY <3>1, EntryParts DEF Range
    <3>4. pages[p].next \in DOMAIN pages \cup {NoPage}
      <4>1. V[p] = pages[p] /\ V[p].leaf
        BY <2>1, <3>1
      <4>2. Linked(V, R, p)
        BY <2>1, <2>2, <4>1 DEF Tree, Links
      <4> QED
        BY <2>1, <4>1, <4>2 DEF Linked
    <3> QED
      BY <3>1, <3>2, <3>3, <3>4
  <2>5. ASSUME NEW p \in DOMAIN pages, InternalSized(pages[p], p = root)
        PROVE  /\ pages[p].leaf = FALSE /\ Size(pages[p]) \in 2 .. InternalMax
               /\ Len(pages[p].keys) = Size(pages[p]) - 1 /\ Range(pages[p].keys) \subseteq Keys
    <3>1. /\ pages[p].leaf = FALSE /\ Len(pages[p].children) \in 2 .. InternalMax
          /\ pages[p].keys \in Seq(Keys) /\ Len(pages[p].children) = Len(pages[p].keys) + 1
      BY <2>5 DEF InternalSized, IsInternalPage
    <3>2. Len(pages[p].keys) \in Nat
      BY <3>1
    <3>3. Size(pages[p]) = Len(pages[p].children)
      BY <3>1 DEF Size
    <3>4. Len(pages[p].keys) = Len(pages[p].children) - 1
      BY <3>1, <3>2
    <3>5. Range(pages[p].keys) \subseteq Keys
      BY <3>1 DEF Range
    <3> QED
      BY <3>1, <3>3, <3>4, <3>5
  <2>6. ASSUME NEW p \in DOMAIN pages
        PROVE  IF pages[p].leaf
               THEN /\ Size(pages[p]) \in 1 .. LeafMax
                    /\ \A e \in Range(pages[p].entries) : e.key \in Keys /\ e.value \in ValuesFor[e.key]
                    /\ pages[p].next \in DOMAIN pages \cup {NoPage}
               ELSE /\ Size(pages[p]) \in 2 .. InternalMax
                    /\ Len(pages[p].keys) = Size(pages[p]) - 1
                    /\ Range(pages[p].keys) \subseteq Keys
    <3>1. CASE LeafSized(pages[p], p = root)
      BY <2>4, <3>1
    <3>2. CASE InternalSized(pages[p], p = root)
      BY <2>5, <3>2
    <3> QED
      BY <3>1, <3>2, SoundPage
  <2>7. call.of \in {"none", "InsertInternal", "RemoveInternal"} /\ write_set \in Seq(DOMAIN pages)
    <3>1. CASE Ready(write_set, call)
      BY <3>1 DEF Ready, NoCall
    <3>2. CASE Calling(pages, root, write_set, call)
      BY <3>2 DEF Calling, Chain
    <3> QED
      BY <1>2, <3>1, <3>2, SoundTree
  <2> QED
    BY <2>3, <2>6, <2>7 DEF TypeOK
<1> QED
  BY <1>1, <1>2

\* The ancestors that are held take up the split or merge that is to come.
LEMMA SoundAncestors == TreeInv => AncestorsSuffice
<1> SUFFICES ASSUME TreeInv, ~Idle PROVE AncestorsSuffice
  BY DEF AncestorsSuffice
<1>1. root # NoPage
  BY DEF TreeInv, Sound, Ready, Idle
<1>2. Calling(pages, root, write_set, call) /\ Sizes(pages, root)
  BY <1>1, SoundTree DEF Ready, Idle
<1>3. Chain(pages, write_set)
  BY <1>2 DEF Calling
<1>4. ASSUME NEW j \in 1 .. Len(write_set)
      PROVE  /\ write_set[j] \in DOMAIN pages /\ IsInternalPage(pages[write_set[j]])
             /\ Size(pages[write_set[j]]) = Len(pages[write_set[j]].children)
             /\ MinSize(pages[write_set[j]]) = LeastChildren
  <2>1. write_set[j] \in DOMAIN pages /\ ~pages[write_set[j]].leaf
    BY <1>3 DEF Chain
  <2>2. IsInternalPage(pages[write_set[j]])
    BY <1>2, <2>1, OthersSized, LeafKind DEF LeafSized, InternalSized
  <2> QED
    BY <2>1, <2>2, LeastSizes
<1>5. Len(write_set) \in Nat /\ Len(write_set) >= 1 /\ 1 \in 1 .. Len(write_set) /\ Len(write_set) \in 1 .. Len(write_set)
  BY <1>3 DEF Chain
<1>6. write_set # <<>>
  BY <1>5
<1>7. ASSUME NEW j \in 1 .. Len(write_set) - 1
      PROVE  write_set[j + 1] \in Range(pages[write_set[j]].children)
  <2>1. j \in 1 .. Len(write_set)
    BY <1>5
  <2>2. PICK i : IsChild(pages, write_set[j], i, write_set[j + 1])
    BY <1>3 DEF Chain
  <2>3. DOMAIN pages[write_set[j]].children = 1 .. Len(pages[write_set[j]].children)
    BY <1>4, <2>1 DEF IsInternalPage
  <2> QED
    BY <2>2, <2>3 DEF IsChild, Range
<1>8. \/ write_set[1] = root
      \/ IF call.of = "InsertInternal" THEN HasRoom(write_set[1]) ELSE CanSpare(write_set[1])
  BY <1>2, <1>4, <1>5 DEF Calling, HasRoom, CanSpare
<1>9. ASSUME call.of = "RemoveInternal"
      PROVE  \E i \in DOMAIN pages[Last(write_set)].keys :
               pages[Last(write_set)].keys[i] = call.key /\ pages[Last(write_set)].children[i + 1] = call.child
  <2> PICK pg : pg = pages[Last(write_set)]
    OBVIOUS
  <2>1. PICK i : HasMore(Shrunk(pg, call.key), i, call.key, call.child, pg)
    BY <1>2, <1>9 DEF Calling
  <2>2. IsInternalPage(pg) /\ i \in 1 .. Len(pg.keys) /\ pg.keys[i] = call.key /\ pg.children[i + 1] = call.child
    BY <2>1 DEF HasMore, PutIn
  <2>3. DOMAIN pg.keys = 1 .. Len(pg.keys)
    BY <2>2 DEF IsInternalPage
  <2> QED
    BY <2>2, <2>3
<1> QED
  BY <1>6, <1>7, <1>8, <1>9 DEF AncestorsSuffice

\* What the tree is between two commands.
LEMMA SoundWhenIdle ==
  ASSUME TreeInv, Idle, root # NoPage
  PROVE  IsTree(pages, root) /\ Sizes(pages, root) /\ HaveKeys(pages)
BY AtRest DEF TreeInv, Idle

\* The equation of Height.
Heights(D, f) == f = [p \in D |-> IF pages[p].leaf THEN 0 ELSE 1 + f[pages[p].children[1]]]

\* Height solves its equation when anything does.
LEMMA HeightSolves ==
  ASSUME NEW f, Heights(DOMAIN pages, f)
  PROVE  Heights(DOMAIN pages, Height)
<1>1. Height = CHOOSE g : Heights(DOMAIN pages, g)
  BY DEF Height, Heights
<1> QED
  BY <1>1

\* The first child of an internal page.
LEMMA FirstChild ==
  ASSUME NEW h, NEW R, Tree(pages, root, h, R), NEW p \in DOMAIN pages, ~pages[p].leaf
  PROVE  IsChild(pages, p, 1, pages[p].children[1])
<1>1. Len(pages[p].keys) \in Nat /\ Len(pages[p].children) = Len(pages[p].keys) + 1
  BY InnerNode
<1>2. \A n \in Nat : 1 \in 1 .. n + 1
  OBVIOUS
<1>3. 1 \in 1 .. Len(pages[p].children)
  BY <1>1, <1>2
<1> QED
  BY <1>3 DEF IsChild

\* The height along the first children is the height in the tree.
LEMMA HeightIs ==
  ASSUME NEW h, NEW R, Tree(pages, root, h, R)
  PROVE  \A p \in DOMAIN pages : Height[p] = h[p]
<1> PICK D : D = DOMAIN pages
  OBVIOUS
<1> PICK g : g = [p \in D |-> h[p]]
  OBVIOUS
<1>1. ASSUME NEW p \in D
      PROVE  h[p] \in Nat /\ (IF pages[p].leaf THEN h[p] = 0
                              ELSE LET c == pages[p].children[1] IN c \in D /\ h[p] = 1 + h[c] /\ h[c] \in Nat /\ h[c] < h[p])
  <2>1. h[p] \in Nat /\ (pages[p].leaf <=> h[p] = 0)
    BY TreeNode
  <2>2. CASE pages[p].leaf
    BY <2>1, <2>2
  <2>3. CASE ~pages[p].leaf
    <3> PICK c : c = pages[p].children[1]
      OBVIOUS
    <3>1. IsChild(pages, p, 1, c)
      BY <2>3, FirstChild
    <3>2. c \in D /\ h[c] + 1 = h[p] /\ h[c] < h[p] /\ h[c] \in Nat
      BY <3>1, ChildOfNode
    <3>3. h[p] = 1 + h[c]
      BY <2>1, <3>2
    <3> QED
      BY <2>1, <2>3, <3>2, <3>3
  <2> QED
    BY <2>2, <2>3
<1>2. Heights(D, g)
  <2>1. \A p \in D : g[p] = IF pages[p].leaf THEN 0 ELSE 1 + g[pages[p].children[1]]
    BY <1>1
  <2> QED
    BY <2>1 DEF Heights
<1>3. Heights(D, Height)
  BY <1>2, HeightSolves
<1>4. \A p \in D : Height[p] = IF pages[p].leaf THEN 0 ELSE 1 + Height[pages[p].children[1]]
  BY <1>3 DEF Heights
<1> PICK S : S = {p \in D : Height[p] = h[p]}
  OBVIOUS
<1>5. ASSUME NEW p \in D, \A q \in D : h[q] < h[p] => q \in S
      PROVE  p \in S
  <2>1. CASE pages[p].leaf
    BY <1>1, <1>4, <2>1
  <2>2. CASE ~pages[p].leaf
    <3> PICK c : c = pages[p].children[1]
      OBVIOUS
    <3>1. c \in D /\ h[p] = 1 + h[c] /\ h[c] < h[p]
      BY <1>1, <2>2
    <3>2. Height[c] = h[c]
      BY <1>5, <3>1
    <3>3. Height[p] = 1 + Height[c]
      BY <1>4, <2>2
    <3> QED
      BY <3>1, <3>2, <3>3
  <2> QED
    BY <2>1, <2>2
<1>6. \A p \in D : h[p] \in Nat
  BY <1>1
<1>7. D \subseteq S
  BY <1>5, <1>6, MeasureInduction
<1> QED
  BY <1>7

\* The tree is balanced between two commands.
LEMMA SoundBalance == TreeInv => Balanced
<1> SUFFICES ASSUME TreeInv PROVE Balanced
  OBVIOUS
<1>1. TypeOK
  BY SoundTypes
<1>2. ASSUME Idle, NEW p \in DOMAIN pages
      PROVE  /\ p # root => Size(pages[p]) >= MinSize(pages[p])
             /\ ~pages[p].leaf => \A c \in Range(pages[p].children) : Height[c] + 1 = Height[p]
  <2>1. root # NoPage /\ (LeafSized(pages[p], p = root) \/ InternalSized(pages[p], p = root))
    BY SoundPage
  <2>2. IsTree(pages, root)
    BY <1>2, <2>1, SoundWhenIdle
  <2>3. PICK h, R : Tree(pages, root, h, R)
    BY <2>2 DEF IsTree
  <2>4. p # root => Size(pages[p]) >= MinSize(pages[p])
    <3>1. CASE LeafSized(pages[p], p = root)
      BY <3>1, LeastSizes DEF LeafSized
    <3>2. CASE InternalSized(pages[p], p = root)
      BY <3>2, LeastSizes DEF InternalSized
    <3> QED
      BY <2>1, <3>1, <3>2
  <2>5. ASSUME ~pages[p].leaf, NEW c \in Range(pages[p].children)
        PROVE  Height[c] + 1 = Height[p]
    <3>1. IsInternalPage(pages[p])
      BY <2>3, <2>5, InnerNode
    <3>2. PICK i \in 1 .. Len(pages[p].children) : pages[p].children[i] = c
      BY <3>1 DEF Range, IsInternalPage
    <3>3. IsChild(pages, p, i, c)
      BY <2>5, <3>2 DEF IsChild
    <3>4. c \in DOMAIN pages /\ h[c] + 1 = h[p]
      BY <2>3, <3>3, ChildOfNode
    <3> QED
      BY <2>3, <3>4, HeightIs
  <2> QED
    BY <2>4, <2>5
<1> QED
  BY <1>1, <1>2 DEF Balanced

(* The pages under a page. *)

\* The equation of Under.
Unders(D, f) ==
  f = [p \in D |-> {p} \cup (IF pages[p].leaf THEN {} ELSE UNION {f[c] : c \in Range(pages[p].children)})]

\* Under solves its equation when anything does.
LEMMA UnderSolves ==
  ASSUME NEW f, Unders(DOMAIN pages, f)
  PROVE  \E g : Unders(DOMAIN pages, g) /\ \A top : Under(top) = g[top]
<1> PICK g : g = CHOOSE k : Unders(DOMAIN pages, k)
  OBVIOUS
<1>1. Unders(DOMAIN pages, g)
  OBVIOUS
<1>2. \A top : Under(top) = g[top]
  BY DEF Under, Unders
<1> QED
  BY <1>1, <1>2

\* The children as a set and by their places.
LEMMA ChildrenOf ==
  ASSUME NEW V, NEW rt, NEW h, NEW R, Tree(V, rt, h, R), NEW p \in DOMAIN V, ~V[p].leaf
  PROVE  \A c : c \in Range(V[p].children) <=> \E i : IsChild(V, p, i, c)
<1>1. V[p].children \in Seq(Nat)
  BY InnerNode DEF IsInternalPage
<1> QED
  BY <1>1 DEF Range, IsChild

\* The pages no higher than p whose region is inside that of p.
Inside(D, h, R, p) == {q \in D : h[q] <= h[p] /\ R[q] \subseteq R[p]}

\* The pages inside the region of p are p and those inside the regions of its
\* children.
LEMMA InsideIs ==
  ASSUME NEW V, NEW rt, NEW h, NEW R, Tree(V, rt, h, R), NEW p \in DOMAIN V, NEW q \in DOMAIN V
  PROVE  q \in Inside(DOMAIN V, h, R, p)
           <=> q = p \/ (~V[p].leaf /\ \E i, c : IsChild(V, p, i, c) /\ q \in Inside(DOMAIN V, h, R, c))
<1>1. /\ h[p] \in Nat /\ h[q] \in Nat /\ R[q] \in SUBSET Int /\ R[q] # {} /\ (V[p].leaf <=> h[p] = 0)
  BY TreeNode
<1>2. ASSUME q = p PROVE q \in Inside(DOMAIN V, h, R, p)
  BY <1>1, <1>2 DEF Inside
<1>3. ASSUME NEW i, NEW c, IsChild(V, p, i, c), q \in Inside(DOMAIN V, h, R, c) PROVE q \in Inside(DOMAIN V, h, R, p)
  <2>1. h[c] < h[p] /\ h[c] \in Nat /\ R[c] \subseteq R[p]
    BY <1>3, ChildOfNode, ChildInside
  <2>2. h[q] <= h[c] /\ R[q] \subseteq R[c]
    BY <1>3 DEF Inside
  <2>3. h[q] <= h[p]
    BY <1>1, <2>1, <2>2
  <2> QED
    BY <2>1, <2>2, <2>3 DEF Inside
<1>4. ASSUME q \in Inside(DOMAIN V, h, R, p), q # p
      PROVE  ~V[p].leaf /\ \E i, c : IsChild(V, p, i, c) /\ q \in Inside(DOMAIN V, h, R, c)
  <2>1. h[q] <= h[p] /\ R[q] \subseteq R[p]
    BY <1>4 DEF Inside
  <2>2. PICK x \in R[q] : TRUE
    BY <1>1
  <2>3. x \in R[p]
    BY <2>1, <2>2
  <2>4. h[q] # h[p]
    BY <1>4, <2>2, <2>3, SamePage
  <2>5. ~V[p].leaf
    BY <1>1, <2>1, <2>4
  <2>6. PICK i, c : IsChild(V, p, i, c) /\ c \in DOMAIN V /\ x \in R[c] /\ h[c] + 1 = h[p]
    BY <2>3, <2>5, ChildFor
  <2>7. h[c] \in Nat
    BY <2>6, TreeNode
  <2>8. h[q] <= h[c]
    BY <1>1, <2>1, <2>4, <2>6, <2>7
  <2>9. R[q] \cap R[c] # {}
    BY <2>2, <2>6
  <2>10. R[q] \subseteq R[c]
    BY <2>6, <2>8, <2>9, Nested
  <2> QED
    BY <2>5, <2>6, <2>8, <2>10 DEF Inside
<1> QED
  BY <1>2, <1>3, <1>4

\* The pages under p are those inside its region.
LEMMA UnderIs ==
  ASSUME NEW h, NEW R, Tree(pages, root, h, R)
  PROVE  \A p \in DOMAIN pages : Under(p) = Inside(DOMAIN pages, h, R, p)
<1> PICK D : D = DOMAIN pages
  OBVIOUS
<1> PICK f : f = [p \in D |-> Inside(D, h, R, p)]
  OBVIOUS
<1>1. \A p \in D : h[p] \in Nat
  BY TreeNode
<1>2. ASSUME NEW p \in D, ~pages[p].leaf, NEW c \in Range(pages[p].children)
      PROVE  c \in D /\ h[c] < h[p]
  BY <1>2, ChildrenOf, ChildOfNode
<1>3. ASSUME NEW p \in D
      PROVE  Inside(D, h, R, p)
               = {p} \cup (IF pages[p].leaf THEN {} ELSE UNION {Inside(D, h, R, c) : c \in Range(pages[p].children)})
  <2>1. Inside(D, h, R, p) \subseteq D
    BY DEF Inside
  <2>2. \A c : Inside(D, h, R, c) \subseteq D
    BY DEF Inside
  <2>3. ASSUME NEW q \in D
        PROVE  q \in Inside(D, h, R, p)
                 <=> q = p \/ (~pages[p].leaf /\ \E c \in Range(pages[p].children) : q \in Inside(D, h, R, c))
    <3>1. q \in Inside(D, h, R, p)
            <=> q = p \/ (~pages[p].leaf /\ \E i, c : IsChild(pages, p, i, c) /\ q \in Inside(D, h, R, c))
      BY InsideIs
    <3>2. ~pages[p].leaf => \A c : c \in Range(pages[p].children) <=> \E i : IsChild(pages, p, i, c)
      BY ChildrenOf
    <3> QED
      BY <3>1, <3>2
  <2>4. CASE pages[p].leaf
    BY <2>1, <2>3, <2>4
  <2>5. CASE ~pages[p].leaf
    BY <2>1, <2>2, <2>3, <2>5
  <2> QED
    BY <2>4, <2>5
<1>4. Unders(D, f)
  <2>1. ASSUME NEW p \in D
        PROVE  f[p] = {p} \cup (IF pages[p].leaf THEN {} ELSE UNION {f[c] : c \in Range(pages[p].children)})
    <3>1. ~pages[p].leaf => {f[c] : c \in Range(pages[p].children)} = {Inside(D, h, R, c) : c \in Range(pages[p].children)}
      BY <1>2
    <3> QED
      BY <1>3, <3>1
  <2> QED
    BY <2>1 DEF Unders
<1>5. PICK g : Unders(D, g) /\ \A top : Under(top) = g[top]
  BY <1>4, UnderSolves
<1>6. \A p \in D : g[p] = {p} \cup (IF pages[p].leaf THEN {} ELSE UNION {g[c] : c \in Range(pages[p].children)})
  BY <1>5 DEF Unders
<1> PICK S : S = {p \in D : g[p] = Inside(D, h, R, p)}
  OBVIOUS
<1>7. ASSUME NEW p \in D, \A q \in D : h[q] < h[p] => q \in S
      PROVE  p \in S
  <2>1. CASE pages[p].leaf
    BY <1>3, <1>6, <2>1
  <2>2. CASE ~pages[p].leaf
    <3>1. \A c \in Range(pages[p].children) : g[c] = Inside(D, h, R, c)
      BY <1>2, <1>7, <2>2
    <3>2. {g[c] : c \in Range(pages[p].children)} = {Inside(D, h, R, c) : c \in Range(pages[p].children)}
      BY <3>1
    <3> QED
      BY <1>3, <1>6, <2>2, <3>2
  <2> QED
    BY <2>1, <2>2
<1>8. D \subseteq S
  BY <1>1, <1>7, MeasureInduction
<1> QED
  BY <1>5, <1>8

\* Every page is under the root between two commands.
LEMMA SoundPages == TreeInv => NoPageLost
<1> SUFFICES ASSUME TreeInv, Idle PROVE NoPageLost
  BY DEF NoPageLost
<1>1. CASE root = NoPage
  <2>1. DOMAIN pages = {}
    BY <1>1 DEF TreeInv, Sound
  <2> QED
    BY <1>1, <2>1 DEF NoPageLost
<1>2. CASE root # NoPage
  <2>1. IsTree(pages, root)
    BY <1>2, SoundWhenIdle
  <2>2. PICK h, R : Tree(pages, root, h, R)
    BY <2>1 DEF IsTree
  <2>3. root \in DOMAIN pages /\ R[root] = Int
    BY <2>2 DEF Tree
  <2>4. \A q \in DOMAIN pages : h[q] <= h[root] /\ R[q] \in SUBSET Int
    BY <2>2, TreeNode
  <2>5. Under(root) = DOMAIN pages
    <3>1. Under(root) = Inside(DOMAIN pages, h, R, root)
      BY <2>2, <2>3, UnderIs
    <3> QED
      BY <2>3, <2>4, <3>1 DEF Inside
  <2>6. ASSUME NEW p \in DOMAIN pages, NEW q \in DOMAIN pages, p # q, ~pages[p].leaf, ~pages[q].leaf
        PROVE  Range(pages[p].children) \cap Range(pages[q].children) = {}
    <3> SUFFICES ASSUME NEW c \in Range(pages[p].children), c \in Range(pages[q].children)
                 PROVE  FALSE
      OBVIOUS
    <3>1. PICK i : IsChild(pages, p, i, c)
      BY <2>2, <2>6, ChildrenOf
    <3>2. PICK j : IsChild(pages, q, j, c)
      BY <2>2, <2>6, ChildrenOf
    <3> QED
      BY <2>2, <2>6, <3>1, <3>2, OneParent
  <2> QED
    BY <1>2, <2>5, <2>6 DEF NoPageLost
<1> QED
  BY <1>1, <1>2

\* No key is on the wrong side of a key above it.
LEMMA SoundSeparation == TreeInv => SubtreesSeparated
<1> SUFFICES ASSUME TreeInv, Idle, NEW p \in DOMAIN pages, ~pages[p].leaf, NEW i \in DOMAIN pages[p].keys
             PROVE  /\ \A k \in KeysUnder(pages[p].children[i]) : k < pages[p].keys[i]
                    /\ \A k \in KeysUnder(pages[p].children[i + 1]) : pages[p].keys[i] <= k
  BY DEF SubtreesSeparated
<1>1. root # NoPage
  BY SoundPage
<1>2. IsTree(pages, root)
  BY <1>1, SoundWhenIdle
<1>3. PICK h, R : Tree(pages, root, h, R)
  BY <1>2 DEF IsTree
<1>4. IsInternalPage(pages[p]) /\ R[p] \in SUBSET Int /\ IsKeys(pages[p].keys)
  BY <1>3, InnerNode, TreeNode
<1> PICK K, C, n : K = pages[p].keys /\ C = pages[p].children /\ n = Len(pages[p].keys)
  OBVIOUS
<1>5. n \in Nat /\ i \in 1 .. n /\ Len(C) = n + 1
  BY <1>4 DEF IsInternalPage
<1>6. IsChild(pages, p, i, C[i]) /\ IsChild(pages, p, i + 1, C[i + 1])
  <2>1. i \in 1 .. n + 1 /\ i + 1 \in 1 .. n + 1
    BY <1>5
  <2> QED
    BY <1>5, <2>1 DEF IsChild
<1>7. ASSUME NEW c \in DOMAIN pages, NEW k \in KeysUnder(c)
      PROVE  k \in R[c]
  <2>1. Under(c) = Inside(DOMAIN pages, h, R, c)
    BY <1>3, UnderIs
  <2>2. PICK q \in Under(c) : pages[q].leaf /\ \E e \in Range(pages[q].entries) : k = e.key
    BY DEF KeysUnder
  <2>3. q \in DOMAIN pages /\ R[q] \subseteq R[c]
    BY <2>1, <2>2 DEF Inside
  <2>4. PICK e \in Range(pages[q].entries) : k = e.key
    BY <2>2
  <2>5. LeafIn(pages[q], R[q])
    BY <1>3, <2>2, <2>3, TreeNode, LeafNode
  <2>6. PICK j \in 1 .. Len(pages[q].entries) : pages[q].entries[j] = e
    BY <2>4, <2>5 DEF LeafIn, IsLeafPage, Range
  <2>7. pages[q].entries[j].key \in R[q]
    BY <2>5, <2>6 DEF LeafIn
  <2> QED
    BY <2>3, <2>4, <2>6, <2>7
<1>8. C[i] \in DOMAIN pages /\ C[i + 1] \in DOMAIN pages /\ R[C[i]] = Part(R[p], K, i) /\ R[C[i + 1]] = Part(R[p], K, i + 1)
  BY <1>3, <1>6, ChildOfNode
<1>9. ASSUME NEW k \in KeysUnder(C[i]) PROVE k < K[i]
  <2>1. k \in Part(R[p], K, i)
    BY <1>7, <1>8
  <2> QED
    BY <1>5, <2>1 DEF Part
<1>10. ASSUME NEW k \in KeysUnder(C[i + 1]) PROVE K[i] <= k
  <2>1. k \in Part(R[p], K, i + 1)
    BY <1>7, <1>8
  <2>2. i + 1 > 1 /\ (i + 1) - 1 = i
    BY <1>5
  <2> QED
    BY <2>1, <2>2 DEF Part
<1> QED
  BY <1>9, <1>10

-----------------------------------------------------------------------------
(* What the runs check, for every value of the constants. *)

\* After any insertions and removals no page is over-full, every page but the root
\* is at least half full and all leaves are equally deep (Split, Coalesce and
\* Redistribute in b_plus_tree.cpp).
THEOREM TreesStayBalanced == Spec => []Balanced
BY TreeStaysSound, SoundBalance, PTL

\* The keys under a child lie between the keys on both sides of it, also when those
\* keys have been removed from the leaves (b_plus_tree_internal_page.h).
THEOREM SubtreesStaySeparated == Spec => []SubtreesSeparated
BY TreeStaysSound, SoundSeparation, PTL

\* Between two commands every page is under the root and has one parent: DeletePage
\* is called for just those pages that leave the tree.
THEOREM NoPageIsLost == Spec => []NoPageLost
BY TreeStaysSound, SoundPages, PTL

\* InsertInternal and RemoveInternal never take write_set_.back() of an empty set,
\* and the set begins where the change can end.
THEOREM AncestorsAlwaysSuffice == Spec => []AncestorsSuffice
BY TreeStaysSound, SoundAncestors, PTL

-----------------------------------------------------------------------------
(* Contents and lookups. *)

\* The pages have the leaves and the first children of the tree that is their view.
LEMMA SoundContents ==
  ASSUME TreeInv, root # NoPage
  PROVE  \E V, h, R : Tree(V, root, h, R) /\ SeenIn(V, pages)
<1> PICK V : V = ViewOf(pages, write_set, call)
  OBVIOUS
<1>1. IsTree(V, root) /\ (Ready(write_set, call) \/ Calling(pages, root, write_set, call))
  BY SoundTree
<1>2. CASE Ready(write_set, call)
  <2>1. V = pages
    BY <1>2 DEF Ready, ViewOf, NoCall
  <2> QED
    BY <1>1, <2>1 DEF SeenIn, IsTree
<1>3. CASE Calling(pages, root, write_set, call)
  <2> PICK cur : cur = Last(write_set)
    OBVIOUS
  <2>1. DOMAIN V = DOMAIN pages /\ cur \in DOMAIN pages /\ SameBut(V, pages, cur) /\ ~pages[cur].leaf
    BY <1>3, ViewPages
  <2>2. V[cur].children[1] = pages[cur].children[1] /\ ~V[cur].leaf
    <3>1. CASE call.of = "InsertInternal"
      <4>1. V[cur] = Grown(pages[cur], call.key, call.child)
        BY <1>3, <3>1, ViewPages
      <4>2. \E i : HasMore(pages[cur], i, call.key, call.child, Grown(pages[cur], call.key, call.child))
        BY <1>3, <3>1 DEF Calling
      <4> QED
        BY <4>1, <4>2, FirstChildStays
    <3>2. CASE call.of = "RemoveInternal"
      <4>1. V[cur] = Shrunk(pages[cur], call.key)
        BY <1>3, <3>2, ViewPages
      <4>2. \E i : HasMore(Shrunk(pages[cur], call.key), i, call.key, call.child, pages[cur])
        BY <1>3, <3>2 DEF Calling
      <4> QED
        BY <4>1, <4>2, FirstChildStays
    <3> QED
      BY <1>3, <3>1, <3>2 DEF Calling
  <2>3. SeenIn(V, pages)
    BY <2>1, <2>2 DEF SeenIn, SameBut
  <2> QED
    BY <1>1, <2>3 DEF IsTree
<1> QED
  BY <1>1, <1>2, <1>3

\* Contents joins the leaves from the first on.
LEMMA ContentsJoin ==
  ASSUME root # NoPage, NEW f0, Firsts(pages, f0), NEW g0, Joined(pages, g0)
  PROVE  \E f, g : Firsts(pages, f) /\ Joined(pages, g) /\ Contents = g[f[root]]
<1> PICK f : f = CHOOSE k : Firsts(pages, k)
  OBVIOUS
<1> PICK g : g = CHOOSE k : Joined(pages, k)
  OBVIOUS
<1>1. Firsts(pages, f) /\ Joined(pages, g)
  OBVIOUS
<1>2. Contents = g[f[root]]
  BY DEF Contents, Firsts, Joined, LeavesOf
<1> QED
  BY <1>1, <1>2

\* What Contents lists is what the leaves hold.
LEMMA ContentsAre ==
  ASSUME TreeInv
  PROVE  Range(Contents) = Held(pages)
<1>1. CASE root = NoPage
  <2>1. DOMAIN pages = {}
    BY <1>1 DEF TreeInv, Sound
  <2>2. Held(pages) = {}
    BY <2>1 DEF Held, EntriesIn, LeavesOf
  <2>3. Contents = <<>>
    BY <1>1 DEF Contents
  <2>4. Range(<<>>) = {}
    BY DEF Range
  <2> QED
    BY <2>2, <2>3, <2>4
<1>2. CASE root # NoPage
  <2>1. PICK V, h, R : Tree(V, root, h, R) /\ SeenIn(V, pages)
    BY <1>2, SoundContents
  <2>2. LeafRegions(pages, R)
    BY <2>1, TreeLeaves DEF SeenIn
  <2>3. PICK f0 : Firsts(pages, f0)
    BY <2>1, FirstsExist
  <2>4. PICK g0 : Joined(pages, g0)
    BY <2>2, JoinedExists
  <2>5. PICK f, g : Firsts(pages, f) /\ Joined(pages, g) /\ Contents = g[f[root]]
    BY <1>2, <2>3, <2>4, ContentsJoin
  <2> QED
    BY <2>1, <2>5, FirstHoldsAll
<1> QED
  BY <1>1, <1>2

\* Between two commands a search ends in the leaf whose region has the key.
LEMMA SearchLeaf ==
  ASSUME TreeInv, Idle, root # NoPage
  PROVE  \E R : /\ LeafRegions(pages, R)
                /\ \A p \in LeavesOf(pages) : Len(pages[p].entries) >= 1
                /\ \A k \in Int : Last(Path(k)) \in LeavesOf(pages) /\ k \in R[Last(Path(k))]
<1>1. IsTree(pages, root) /\ Sizes(pages, root) /\ HaveKeys(pages)
  BY SoundWhenIdle
<1>2. PICK h, R : Tree(pages, root, h, R)
  BY <1>1 DEF IsTree
<1>3. LeafRegions(pages, R)
  BY <1>2, TreeLeaves
<1>4. ASSUME NEW k \in Int
      PROVE  Last(Path(k)) \in LeavesOf(pages) /\ k \in R[Last(Path(k))]
  <2> PICK cur : cur = Last(Path(k))
    OBVIOUS
  <2>1. cur \in DOMAIN pages /\ pages[cur].leaf = TRUE /\ k \in R[cur]
    BY <1>1, <1>2, AtLeaf
  <2> QED
    BY <2>1 DEF LeavesOf
<1>5. ASSUME NEW p \in LeavesOf(pages)
      PROVE  Len(pages[p].entries) >= 1
  <2>1. p \in DOMAIN pages /\ pages[p].leaf
    BY DEF LeavesOf
  <2>2. LeafSized(pages[p], p = root)
    BY <1>1, <2>1, InternalKind DEF Sizes, InternalSized
  <2>3. Len(pages[p].entries) \in 1 .. LeafMax
    BY <2>2 DEF LeafSized
  <2> QED
    BY <2>3, TreeAssumption
<1> QED
  BY <1>3, <1>4, <1>5

\* What HasKeyAt says of the leaf a search ends in, it says of all leaves.
LEMMA FoundIsHeld ==
  ASSUME NEW ps, NEW R, LeafRegions(ps, R), NEW cur \in LeavesOf(ps), NEW k \in R[cur], Len(ps[cur].entries) >= 1,
         NEW pos, pos = LeafLowerBound(ps[cur], k)
  PROVE  /\ HasKeyAt(ps[cur], pos, k) =>
              /\ pos \in 1 .. Len(ps[cur].entries)
              /\ ps[cur].entries[pos].key = k /\ ps[cur].entries[pos] \in Held(ps)
              /\ \A e \in Held(ps) : e.key = k => e = ps[cur].entries[pos]
         /\ ~HasKeyAt(ps[cur], pos, k) => \A e \in Held(ps) : e.key # k
<1>1. LeafIn(ps[cur], R[cur]) /\ R[cur] \in SUBSET Int /\ k \in Int
  BY OneLeaf
<1>2. CASE HasKeyAt(ps[cur], pos, k)
  <2>1. pos \in 1 .. Len(ps[cur].entries) /\ ps[cur].entries[pos].key = k
    BY <1>1, <1>2, KeyFound
  <2>2. ps[cur].entries[pos] \in Held(ps)
    BY <2>1, EntryAt
  <2>3. ASSUME NEW e \in Held(ps), e.key = k
        PROVE  e = ps[cur].entries[pos]
    BY <2>1, <2>2, <2>3, KeysUnique
  <2> QED
    BY <1>2, <2>1, <2>2, <2>3
<1>3. CASE ~HasKeyAt(ps[cur], pos, k)
  <2>1. \A j \in 1 .. Len(ps[cur].entries) : ps[cur].entries[j].key # k
    BY <1>1, <1>3, KeyFound
  <2>2. ASSUME NEW e \in Held(ps), e.key = k
        PROVE  FALSE
    <3>1. PICK p \in LeavesOf(ps) : \E i \in 1 .. Len(ps[p].entries) : e = ps[p].entries[i]
      BY HeldPlaces
    <3>2. PICK i \in 1 .. Len(ps[p].entries) : e = ps[p].entries[i]
      BY <3>1
    <3>3. p = cur
      BY <2>2, <3>2, OnlyInItsLeaf
    <3> QED
      BY <2>1, <2>2, <3>2, <3>3
  <2> QED
    BY <1>3, <2>2
<1> QED
  BY <1>2, <1>3

\* GetValue finds what the leaves hold.
LEMMA GetValueIs ==
  ASSUME TreeInv, Idle, NEW k \in Int
  PROVE  GetValue(k) = {e.value : e \in {x \in Held(pages) : x.key = k}}
<1>1. CASE root = NoPage
  <2>1. GetValue(k) = {}
    BY <1>1 DEF GetValue
  <2>2. DOMAIN pages = {}
    BY <1>1 DEF TreeInv, Sound
  <2>3. Held(pages) = {}
    BY <2>2 DEF Held, EntriesIn, LeavesOf
  <2> QED
    BY <2>1, <2>3
<1>2. CASE root # NoPage
  <2> PICK R : /\ LeafRegions(pages, R)
               /\ \A p \in LeavesOf(pages) : Len(pages[p].entries) >= 1
               /\ \A x \in Int : Last(Path(x)) \in LeavesOf(pages) /\ x \in R[Last(Path(x))]
    BY <1>2, SearchLeaf
  <2> PICK cur : cur = Last(Path(k))
    OBVIOUS
  <2> PICK pos : pos = LeafLowerBound(pages[cur], k)
    OBVIOUS
  <2>1. GetValue(k) = IF HasKeyAt(pages[cur], pos, k) THEN {pages[cur].entries[pos].value} ELSE {}
    BY <1>2 DEF GetValue
  <2>2. cur \in LeavesOf(pages) /\ k \in R[cur] /\ Len(pages[cur].entries) >= 1
    OBVIOUS
  <2>3. CASE HasKeyAt(pages[cur], pos, k)
    <3>1. /\ pages[cur].entries[pos].key = k /\ pages[cur].entries[pos] \in Held(pages)
          /\ \A e \in Held(pages) : e.key = k => e = pages[cur].entries[pos]
      BY <2>2, <2>3, FoundIsHeld
    <3>2. {x \in Held(pages) : x.key = k} = {pages[cur].entries[pos]}
      BY <3>1
    <3> QED
      BY <2>1, <2>3, <3>2
  <2>4. CASE ~HasKeyAt(pages[cur], pos, k)
    <3>1. \A e \in Held(pages) : e.key # k
      BY <2>2, <2>4, FoundIsHeld
    <3>2. {x \in Held(pages) : x.key = k} = {}
      BY <3>1
    <3> QED
      BY <2>1, <2>4, <3>2
  <2> QED
    BY <2>3, <2>4
<1> QED
  BY <1>1, <1>2

\* The descent finds exactly what the leaves hold.
LEMMA SoundLookup == TreeInv => LookupComplete
<1> SUFFICES ASSUME TreeInv, Idle, NEW k \in Keys
             PROVE  GetValue(k) = {e.value : e \in {x \in Range(Contents) : x.key = k}}
  BY DEF LookupComplete
<1>1. k \in Int
  BY TreeAssumption
<1> QED
  BY <1>1, ContentsAre, GetValueIs

\* In every state between two commands a lookup of a key yields the value that is
\* stored under it in the leaves, and nothing if none is (GetValue).
THEOREM LookupsAreComplete == Spec => []LookupComplete
BY TreeStaysSound, SoundLookup, PTL

(* Scans. *)

EntryOf(it) == pages[it.leaf].entries[it.at]

\* A place is a leaf and a position in it.
LEMMA PlaceParts ==
  ASSUME NEW R, LeafRegions(pages, R), NEW it
  PROVE  it \in Places <=> \E p \in LeavesOf(pages) : \E i \in 1 .. Len(pages[p].entries) : it = [leaf |-> p, at |-> i]
<1>1. \A p \in LeavesOf(pages) : DOMAIN pages[p].entries = 1 .. Len(pages[p].entries)
  BY OneLeaf
<1> QED
  BY <1>1 DEF Places, LeavesOf

\* What the place of an entry is.
LEMMA PlaceAt ==
  ASSUME NEW R, LeafRegions(pages, R), NEW it \in Places
  PROVE  /\ it = [leaf |-> it.leaf, at |-> it.at] /\ it.leaf \in LeavesOf(pages)
         /\ it.at \in 1 .. Len(pages[it.leaf].entries)
<1>1. PICK p \in LeavesOf(pages) : \E i \in 1 .. Len(pages[p].entries) : it = [leaf |-> p, at |-> i]
  BY PlaceParts
<1>2. PICK i \in 1 .. Len(pages[p].entries) : it = [leaf |-> p, at |-> i]
  BY <1>1
<1> QED
  BY <1>2

\* The next place in the same leaf.
LEMMA NextInLeaf ==
  ASSUME NEW R, LeafRegions(pages, R), NEW p \in LeavesOf(pages), NEW i \in 1 .. Len(pages[p].entries) - 1
  PROVE  /\ i \in 1 .. Len(pages[p].entries) /\ i + 1 \in 1 .. Len(pages[p].entries)
         /\ pages[p].entries[i].key < pages[p].entries[i + 1].key
         /\ \A e \in Held(pages) : pages[p].entries[i].key < e.key => pages[p].entries[i + 1].key <= e.key
<1> PICK s : s = pages[p].entries
  OBVIOUS
<1>1. Len(s) \in Nat /\ SortedEntries(s) /\ Convex(R[p])
  BY OneLeaf DEF LeafIn
<1>2. i \in 1 .. Len(s) /\ i + 1 \in 1 .. Len(s) /\ i < i + 1
  BY <1>1
<1>3. s[i].key < s[i + 1].key /\ s[i].key \in Int /\ s[i + 1].key \in Int /\ s[i].key \in R[p] /\ s[i + 1].key \in R[p]
  BY <1>1, <1>2, EntryAt DEF SortedEntries
<1>4. ASSUME NEW e \in Held(pages), s[i].key < e.key, ~(s[i + 1].key <= e.key)
      PROVE  FALSE
  <2>1. PICK q \in LeavesOf(pages) : \E j \in 1 .. Len(pages[q].entries) : e = pages[q].entries[j]
    BY HeldPlaces
  <2>2. PICK j \in 1 .. Len(pages[q].entries) : e = pages[q].entries[j]
    BY <2>1
  <2>3. e.key \in Int /\ e.key \in R[q]
    BY <2>2, EntryAt
  <2>4. e.key < s[i + 1].key
    BY <1>3, <1>4, <2>3
  <2>5. e.key \in R[p]
    BY <1>1, <1>3, <1>4, <2>3, <2>4 DEF Convex
  <2>6. q = p
    BY <2>3, <2>5 DEF LeafRegions
  <2>7. j \in 1 .. Len(s) /\ e = s[j]
    BY <2>2, <2>6
  <2>8. ~(j <= i)
    <3>1. j < i => s[j].key < s[i].key
      BY <1>1, <1>2, <2>7 DEF SortedEntries
    <3>2. j < i => e.key < s[i].key
      BY <2>7, <3>1
    <3>3. j = i => e.key = s[i].key
      BY <2>7
    <3>4. j \in Int /\ i \in Int
      BY <1>1, <2>7
    <3> QED
      BY <1>3, <1>4, <2>3, <3>2, <3>3, <3>4
  <2>9. i + 1 < j => s[i + 1].key < s[j].key
    BY <1>1, <1>2, <2>7 DEF SortedEntries
  <2>10. j = i + 1 \/ i + 1 < j
    BY <1>1, <2>7, <2>8
  <2>11. s[i + 1].key <= s[j].key
    BY <1>3, <2>3, <2>7, <2>9, <2>10
  <2> QED
    BY <1>4, <2>7, <2>11
<1> QED
  BY <1>2, <1>3, <1>4

\* No key of a leaf is greater than its last.
LEMMA LastOfLeaf ==
  ASSUME NEW R, LeafRegions(pages, R), NEW p \in LeavesOf(pages), NEW n, n = Len(pages[p].entries), n >= 1,
         NEW j \in 1 .. n
  PROVE  n \in 1 .. n /\ pages[p].entries[j].key <= pages[p].entries[n].key
<1>1. n \in Nat /\ SortedEntries(pages[p].entries)
  BY OneLeaf DEF LeafIn
<1>2. n \in 1 .. n
  BY <1>1
<1>3. j < n => pages[p].entries[j].key < pages[p].entries[n].key
  <2> PICK s : s = pages[p].entries
    OBVIOUS
  <2>1. SortedEntries(s) /\ j \in 1 .. Len(s) /\ n \in 1 .. Len(s)
    BY <1>1, <1>2
  <2>2. j < n => s[j].key < s[n].key
    BY <2>1 DEF SortedEntries
  <2> QED
    BY <2>2
<1>4. pages[p].entries[j].key \in Int /\ pages[p].entries[n].key \in Int
  BY <1>2, EntryAt
<1>5. j < n \/ j = n
  BY <1>1
<1> QED
  BY <1>2, <1>3, <1>4, <1>5

\* After the last entry of the last leaf nothing follows.
LEMMA NothingNext ==
  ASSUME NEW R, LeafRegions(pages, R), NEW p \in LeavesOf(pages), NEW n, n = Len(pages[p].entries), n >= 1,
         pages[p].next = NoPage, NEW e \in Held(pages)
  PROVE  e.key <= pages[p].entries[n].key
<1>1. n \in 1 .. n
  BY OneLeaf
<1>2. PICK q \in LeavesOf(pages) : \E j \in 1 .. Len(pages[q].entries) : e = pages[q].entries[j]
  BY HeldPlaces
<1>3. PICK j \in 1 .. Len(pages[q].entries) : e = pages[q].entries[j]
  BY <1>2
<1>4. e.key \in Int /\ e.key \in R[q] /\ pages[p].entries[n].key \in Int /\ pages[p].entries[n].key \in R[p]
  BY <1>1, <1>3, EntryAt
<1> SUFFICES ASSUME pages[p].entries[n].key < e.key PROVE FALSE
  BY <1>4
<1>5. Unbounded(R[p])
  BY DEF LeafRegions
<1>6. e.key \in R[p]
  BY <1>4, <1>5 DEF Unbounded
<1>7. q = p
  BY <1>4, <1>6 DEF LeafRegions
<1>8. e.key <= pages[p].entries[n].key
  BY <1>3, <1>7, LastOfLeaf
<1> QED
  BY <1>4, <1>8

\* After the last entry of a leaf the first one of the next leaf follows.
LEMMA NextIsFirst ==
  ASSUME NEW R, LeafRegions(pages, R), NEW p \in LeavesOf(pages), NEW n, n = Len(pages[p].entries), n >= 1,
         NEW q, q = pages[p].next, q # NoPage, Len(pages[q].entries) >= 1
  PROVE  /\ q \in LeavesOf(pages) /\ 1 \in 1 .. Len(pages[q].entries)
         /\ \A x \in R[p] : x < pages[q].entries[1].key
         /\ pages[p].entries[n].key < pages[q].entries[1].key
         /\ \A e \in Held(pages) : pages[p].entries[n].key < e.key => pages[q].entries[1].key <= e.key
<1>1. q \in LeavesOf(pages) /\ Adjacent(R[p], R[q])
  BY DEF LeafRegions
<1>2. Len(pages[q].entries) \in Nat /\ SortedEntries(pages[q].entries) /\ n \in Nat
  BY <1>1, OneLeaf DEF LeafIn
<1>3. 1 \in 1 .. Len(pages[q].entries) /\ n \in 1 .. n
  BY <1>2
<1>4. /\ pages[q].entries[1].key \in R[q] /\ pages[q].entries[1].key \in Int
      /\ pages[p].entries[n].key \in R[p] /\ pages[p].entries[n].key \in Int
  BY <1>1, <1>3, EntryAt
<1>5. \A x \in R[p] : x < pages[q].entries[1].key
  BY <1>1, <1>4 DEF Adjacent
<1>6. ASSUME NEW e \in Held(pages), pages[p].entries[n].key < e.key
      PROVE  pages[q].entries[1].key <= e.key
  <2>1. PICK r \in LeavesOf(pages) : \E j \in 1 .. Len(pages[r].entries) : e = pages[r].entries[j]
    BY HeldPlaces
  <2>2. PICK j \in 1 .. Len(pages[r].entries) : e = pages[r].entries[j]
    BY <2>1
  <2>3. e.key \in Int /\ e.key \in R[r]
    BY <2>2, EntryAt
  <2> SUFFICES ASSUME e.key < pages[q].entries[1].key PROVE FALSE
    BY <1>4, <2>3
  <2>4. e.key \in R[p] \/ e.key \in R[q]
    BY <1>1, <1>4, <1>6, <2>3 DEF Adjacent
  <2>5. CASE r = p
    <3>1. e.key <= pages[p].entries[n].key
      BY <2>2, <2>5, LastOfLeaf
    <3> QED
      BY <1>4, <1>6, <2>3, <3>1
  <2>6. CASE r = q
    <3>1. j = 1 \/ 1 < j
      BY <1>2, <2>2, <2>6
    <3>2. 1 < j => pages[q].entries[1].key < pages[q].entries[j].key
      BY <1>2, <1>3, <2>2, <2>6 DEF SortedEntries
    <3> QED
      BY <1>4, <2>2, <2>3, <2>6, <3>1, <3>2
  <2> QED
    BY <1>1, <2>3, <2>4, <2>5, <2>6 DEF LeafRegions
<1> QED
  BY <1>1, <1>3, <1>4, <1>5, <1>6

\* An iterator at its end has the greatest key; otherwise it advances to the next
\* greater one (IndexIterator::operator++).
LEMMA ScanStep ==
  ASSUME NEW R, LeafRegions(pages, R), \A p \in LeavesOf(pages) : Len(pages[p].entries) >= 1, NEW it \in Places
  PROVE  /\ IsEnd(it) => \A e \in Held(pages) : e.key <= EntryOf(it).key
         /\ ~IsEnd(it) => /\ Advanced(it) \in Places
                          /\ EntryOf(it).key < EntryOf(Advanced(it)).key
                          /\ \A e \in Held(pages) : EntryOf(it).key < e.key => EntryOf(Advanced(it)).key <= e.key
<1> PICK p, i : p = it.leaf /\ i = it.at
  OBVIOUS
<1>1. it = [leaf |-> p, at |-> i] /\ p \in LeavesOf(pages) /\ i \in 1 .. Len(pages[p].entries)
  BY PlaceAt
<1>2. EntryOf(it) = pages[p].entries[i]
  BY DEF EntryOf
<1>3. Len(pages[p].entries) \in Nat /\ Len(pages[p].entries) >= 1
  BY <1>1, OneLeaf
<1>4. CASE i # Len(pages[p].entries)
  <2>1. i \in 1 .. Len(pages[p].entries) - 1
    BY <1>1, <1>3, <1>4
  <2>2. ~IsEnd(it)
    BY <1>4 DEF IsEnd
  <2>3. Advanced(it) = [leaf |-> p, at |-> i + 1]
    BY <1>1, <1>4 DEF Advanced
  <2> PICK nx : nx = [leaf |-> p, at |-> i + 1]
    OBVIOUS
  <2>5. nx \in Places
    BY <1>1, <2>1, NextInLeaf, PlaceParts
  <2>6. EntryOf(nx) = pages[p].entries[i + 1]
    BY DEF EntryOf
  <2>4. Advanced(it) \in Places /\ EntryOf(Advanced(it)) = pages[p].entries[i + 1]
    BY <2>3, <2>5, <2>6
  <2> QED
    BY <1>1, <1>2, <2>1, <2>2, <2>4, NextInLeaf
<1>5. CASE i = Len(pages[p].entries) /\ pages[p].next = NoPage
  <2>1. IsEnd(it)
    BY <1>5 DEF IsEnd
  <2> QED
    BY <1>1, <1>2, <1>3, <1>5, <2>1, NothingNext
<1>6. CASE i = Len(pages[p].entries) /\ pages[p].next # NoPage
  <2> PICK q : q = pages[p].next
    OBVIOUS
  <2>1. ~IsEnd(it)
    BY <1>6 DEF IsEnd
  <2>2. Advanced(it) = [leaf |-> q, at |-> 1]
    BY <1>6 DEF Advanced
  <2>3. q \in LeavesOf(pages)
    BY <1>1, <1>6 DEF LeafRegions
  <2>4. Len(pages[q].entries) >= 1
    BY <2>3
  <2>5. Advanced(it) \in Places /\ EntryOf(Advanced(it)) = pages[q].entries[1]
    BY <1>1, <1>3, <1>6, <2>2, <2>4, NextIsFirst, PlaceParts DEF EntryOf
  <2> QED
    BY <1>1, <1>2, <1>3, <1>6, <2>1, <2>4, <2>5, NextIsFirst
<1> QED
  BY <1>4, <1>5, <1>6

\* A finite set of entries is held.
LEMMA FiniteHeld ==
  ASSUME NEW ps, NEW R, LeafRegions(ps, R)
  PROVE  IsFiniteSet(Held(ps))
<1> PICK L : L = LeavesOf(ps)
  OBVIOUS
<1> PICK T : T = {Range(ps[p].entries) : p \in L}
  OBVIOUS
<1>1. IsFiniteSet(L)
  BY DEF LeafRegions
<1>2. ASSUME NEW p \in L
      PROVE  IsFiniteSet(Range(ps[p].entries))
  <2> PICK s : s = ps[p].entries
    OBVIOUS
  <2>1. s \in Seq(Entry)
    BY OneLeaf
  <2>2. Len(s) \in Nat /\ DOMAIN s = 1 .. Len(s) /\ s = [i \in 1 .. Len(s) |-> s[i]]
    BY <2>1
  <2>3. s \in Surjection(1 .. Len(s), Range(s))
    BY <2>2 DEF Surjection, Range
  <2>4. IsFiniteSet(1 .. Len(s))
    BY <2>2, FS_Interval
  <2> QED
    BY <2>3, <2>4, FS_Surjection
<1>3. IsFiniteSet(T)
  <2> PICK f : f = [p \in L |-> Range(ps[p].entries)]
    OBVIOUS
  <2>1. f \in Surjection(L, T)
    BY DEF Surjection
  <2> QED
    BY <1>1, <2>1, FS_Surjection
<1>4. Held(ps) = UNION T
  BY DEF Held, EntriesIn
<1>5. \A A \in T : IsFiniteSet(A)
  BY <1>2
<1> QED
  BY <1>3, <1>4, <1>5, FS_UNION

\* The entries with keys above that of a place.
StillToCome(it) == {e \in Held(pages) : EntryOf(it).key < e.key}

Remaining == [it \in Places |-> Cardinality(StillToCome(it))]

NotEmpty(ps) == \A p \in LeavesOf(ps) : Len(ps[p].entries) >= 1

\* The key of a place.
LEMMA KeyAtPlace ==
  ASSUME NEW R, LeafRegions(pages, R), NEW it \in Places
  PROVE  EntryOf(it) \in Entry /\ EntryOf(it).key \in Int /\ EntryOf(it) \in Held(pages)
BY PlaceAt, EntryAt DEF EntryOf

\* Keys are numbers.
LEMMA HeldKey ==
  ASSUME NEW ps, NEW R, LeafRegions(ps, R), NEW e \in Held(ps)
  PROVE  e.key \in Int /\ e.key \in Keys /\ e \in Entry
<1>1. PICK p \in LeavesOf(ps) : \E i \in 1 .. Len(ps[p].entries) : e = ps[p].entries[i]
  BY HeldPlaces
<1>2. PICK i \in 1 .. Len(ps[p].entries) : e = ps[p].entries[i]
  BY <1>1
<1> QED
  BY <1>2, EntryAt

\* Advancing leaves one entry less.
LEMMA LessRemains ==
  ASSUME NEW R, LeafRegions(pages, R), NotEmpty(pages)
  PROVE  /\ Cardinality(Held(pages)) + 1 \in Nat
         /\ \A it \in Places :
              /\ Remaining[it] \in Nat /\ Remaining[it] < Cardinality(Held(pages)) + 1
              /\ ~IsEnd(it) => Advanced(it) \in Places /\ Remaining[Advanced(it)] < Remaining[it]
<1>1. IsFiniteSet(Held(pages)) /\ Cardinality(Held(pages)) \in Nat
  BY FiniteHeld, FS_CardinalityType
<1>2. ASSUME NEW it \in Places
      PROVE  /\ IsFiniteSet(StillToCome(it)) /\ Remaining[it] = Cardinality(StillToCome(it)) /\ Remaining[it] \in Nat
             /\ Remaining[it] <= Cardinality(Held(pages))
  <2>1. StillToCome(it) \subseteq Held(pages)
    BY DEF StillToCome
  <2>2. IsFiniteSet(StillToCome(it)) /\ Cardinality(StillToCome(it)) <= Cardinality(Held(pages))
    BY <1>1, <2>1, FS_Subset
  <2>3. Cardinality(StillToCome(it)) \in Nat /\ Remaining[it] = Cardinality(StillToCome(it))
    BY <2>2, FS_CardinalityType DEF Remaining
  <2> QED
    BY <2>2, <2>3
<1>3. ASSUME NEW it \in Places, ~IsEnd(it), NEW nx, nx = Advanced(it)
      PROVE  nx \in Places /\ Remaining[nx] < Remaining[it]
  <2>1. nx \in Places /\ EntryOf(it).key < EntryOf(nx).key
    BY <1>3, ScanStep DEF NotEmpty
  <2>2. EntryOf(nx) \in StillToCome(it)
    BY <2>1, KeyAtPlace DEF StillToCome
  <2>3. EntryOf(nx) \notin StillToCome(nx)
    <3>1. EntryOf(nx).key \in Int
      BY <2>1, KeyAtPlace
    <3>2. ~(EntryOf(nx).key < EntryOf(nx).key)
      BY <3>1
    <3> QED
      BY <3>2 DEF StillToCome
  <2>4. StillToCome(nx) \subseteq StillToCome(it)
    <3> SUFFICES ASSUME NEW e \in Held(pages), EntryOf(nx).key < e.key PROVE EntryOf(it).key < e.key
      BY DEF StillToCome
    <3>1. EntryOf(nx).key \in Int /\ EntryOf(it).key \in Int /\ e.key \in Int
      BY <2>1, KeyAtPlace, HeldKey
    <3> QED
      BY <2>1, <3>1
  <2>5. StillToCome(nx) \cup {EntryOf(nx)} \subseteq StillToCome(it)
    BY <2>2, <2>4
  <2>6. Cardinality(StillToCome(nx) \cup {EntryOf(nx)}) = Cardinality(StillToCome(nx)) + 1
    BY <1>2, <2>1, <2>3, FS_AddElement
  <2>7. Cardinality(StillToCome(nx) \cup {EntryOf(nx)}) <= Cardinality(StillToCome(it))
    BY <1>2, <2>5, FS_Subset
  <2>8. Remaining[nx] + 1 <= Remaining[it] /\ Remaining[nx] \in Nat /\ Remaining[it] \in Nat
    BY <1>2, <2>1, <2>6, <2>7
  <2> QED
    BY <2>1, <2>8
<1>4. Cardinality(Held(pages)) + 1 \in Nat /\ \A n \in Nat : n <= Cardinality(Held(pages)) => n < Cardinality(Held(pages)) + 1
  BY <1>1
<1> QED
  BY <1>2, <1>3, <1>4

\* What a scan from a place on is.
Scanned(f) == f = [it \in Places |-> <<pages[it.leaf].entries[it.at]>> \o (IF IsEnd(it) THEN <<>> ELSE f[Advanced(it)])]

\* Every scan ends, so some function is the scan from each place.
LEMMA ScannedExists ==
  ASSUME NEW R, LeafRegions(pages, R), NotEmpty(pages)
  PROVE  \E f : Scanned(f)
<1> DEFINE D == Places
           item == [it \in D |-> <<EntryOf(it)>>]
           stop == [it \in D |-> IsEnd(it)]
           nxt == [it \in D |-> Advanced(it)]
<1>1. \A it \in D : item[it] \in Seq(Entry)
  <2> SUFFICES ASSUME NEW it \in D PROVE item[it] \in Seq(Entry)
    OBVIOUS
  <2>1. EntryOf(it) \in Entry
    BY KeyAtPlace
  <2> QED
    BY <2>1
<1>2. \A it \in D : ~stop[it] => nxt[it] \in D /\ Remaining[nxt[it]] < Remaining[it]
  <2> SUFFICES ASSUME NEW it \in D, ~stop[it] PROVE nxt[it] \in D /\ Remaining[nxt[it]] < Remaining[it]
    OBVIOUS
  <2>1. ~IsEnd(it) /\ nxt[it] = Advanced(it)
    OBVIOUS
  <2> HIDE DEF stop, nxt
  <2> QED
    BY <2>1, LessRemains
<1>3. PICK f : LinksJoin(D, item, stop, nxt, f)
  <2> PICK N \in Nat : N = Cardinality(Held(pages)) + 1
    BY LessRemains
  <2> PICK m : m = Remaining
    OBVIOUS
  <2>1. \A it \in D : m[it] \in Nat /\ m[it] < N
    BY LessRemains
  <2> HIDE DEF D, item, stop, nxt
  <2> QED
    BY <1>1, <1>2, <2>1, LinksFollowed
<1>4. f = [it \in D |-> item[it] \o (IF stop[it] THEN <<>> ELSE f[nxt[it]])]
  BY <1>3 DEF LinksJoin
<1>5. f = [it \in Places |-> <<EntryOf(it)>> \o (IF IsEnd(it) THEN <<>> ELSE f[Advanced(it)])]
  BY <1>4
<1> HIDE DEF D, item, stop, nxt
<1> QED
  BY <1>5 DEF Scanned, EntryOf

Leads(x, t, u) == SortedEntries(t) /\ (\A e \in Range(t) : x.key < e.key) /\ u = <<x>> \o t

\* An entry in front of entries with greater keys.
LEMMA InFront ==
  ASSUME NEW x \in Entry, NEW t \in Seq(Entry), NEW u, Leads(x, t, u)
  PROVE  u \in Seq(Entry) /\ SortedEntries(u) /\ Range(u) = {x} \cup Range(t)
<1>0. SortedEntries(t) /\ (\A e \in Range(t) : x.key < e.key) /\ u = <<x>> \o t
  BY DEF Leads
<1>1. Len(t) \in Nat /\ u \in Seq(Entry) /\ Len(u) = Len(t) + 1 /\ u[1] = x /\ \A j \in 1 .. Len(t) : u[j + 1] = t[j]
  BY <1>0
<1>2. DOMAIN t = 1 .. Len(t) /\ DOMAIN u = 1 .. Len(t) + 1
  BY <1>1
<1>3. \A j \in 1 .. Len(t) + 1 : j = 1 \/ (j - 1 \in 1 .. Len(t) /\ u[j] = t[j - 1])
  <2> SUFFICES ASSUME NEW j \in 1 .. Len(t) + 1, j # 1 PROVE j - 1 \in 1 .. Len(t) /\ u[j] = t[j - 1]
    OBVIOUS
  <2>1. j - 1 \in 1 .. Len(t) /\ (j - 1) + 1 = j
    BY <1>1
  <2> QED
    BY <1>1, <2>1
<1>4. ASSUME NEW i \in 1 .. Len(u), NEW j \in 1 .. Len(u), i < j
      PROVE  u[i].key < u[j].key
  <2>1. j # 1 /\ j \in 1 .. Len(t) + 1 /\ i \in 1 .. Len(t) + 1
    BY <1>1, <1>4
  <2>2. j - 1 \in 1 .. Len(t) /\ u[j] = t[j - 1]
    BY <1>3, <2>1
  <2>3. CASE i = 1
    BY <1>0, <1>1, <1>2, <2>2, <2>3 DEF Range
  <2>4. CASE i # 1
    <3>1. i - 1 \in 1 .. Len(t) /\ u[i] = t[i - 1]
      BY <1>3, <2>1, <2>4
    <3>2. i - 1 < j - 1
      BY <1>1, <1>4
    <3> QED
      BY <1>0, <2>2, <3>1, <3>2 DEF SortedEntries
  <2> QED
    BY <2>3, <2>4
<1>5. Range(u) = {x} \cup Range(t)
  <2> PICK w : w = <<x>>
    OBVIOUS
  <2>1. w \in Seq(Entry) /\ Range(w) = {x}
    BY DEF Range
  <2>2. Range(w \o t) = Range(w) \cup Range(t)
    BY <2>1, JoinedRange
  <2> QED
    BY <1>0, <2>1, <2>2
<1> QED
  BY <1>1, <1>4, <1>5 DEF SortedEntries

\* A scan from a place on lists the entry there and all with greater keys, in order.
LEMMA ScannedHolds ==
  ASSUME NEW R, LeafRegions(pages, R), NotEmpty(pages), NEW f, Scanned(f)
  PROVE  \A it \in Places : /\ f[it] \in Seq(Entry) /\ SortedEntries(f[it])
                            /\ Range(f[it]) = {e \in Held(pages) : EntryOf(it).key <= e.key}
<1> DEFINE S == {it \in Places : /\ f[it] \in Seq(Entry) /\ SortedEntries(f[it])
                                 /\ Range(f[it]) = {e \in Held(pages) : EntryOf(it).key <= e.key}}
<1>1. \A it \in Places : f[it] = <<EntryOf(it)>> \o (IF IsEnd(it) THEN <<>> ELSE f[Advanced(it)])
  BY DEF Scanned, EntryOf
<1>2. ASSUME NEW it \in Places, \A at \in Places : Remaining[at] < Remaining[it] => at \in S
      PROVE  it \in S
  <2> PICK x : x = EntryOf(it)
    OBVIOUS
  <2>1. x \in Entry /\ x.key \in Int /\ x \in Held(pages)
    BY KeyAtPlace
  <2>2. \A e \in Held(pages) : x.key = e.key => e = x
    BY <2>1, KeysUnique
  <2>3. CASE IsEnd(it)
    <3> PICK t : t = <<>>
      OBVIOUS
    <3>1. t \in Seq(Entry) /\ Range(t) = {} /\ SortedEntries(t)
      BY DEF Range, SortedEntries
    <3>2. f[it] = <<x>> \o t
      BY <1>1, <2>3
    <3>3. f[it] \in Seq(Entry) /\ SortedEntries(f[it]) /\ Range(f[it]) = {x}
      <4>1. \A e \in Range(t) : x.key < e.key
        BY <3>1
      <4>2. f[it] \in Seq(Entry) /\ SortedEntries(f[it]) /\ Range(f[it]) = {x} \cup Range(t)
        <5>1. Leads(x, t, f[it])
          BY <3>1, <3>2, <4>1 DEF Leads
        <5> QED
          BY <2>1, <3>1, <5>1, InFront
      <4> QED
        BY <3>1, <4>2
    <3>4. \A e \in Held(pages) : x.key <= e.key => e = x
      <4> SUFFICES ASSUME NEW e \in Held(pages), x.key <= e.key PROVE e = x
        OBVIOUS
      <4>1. e.key <= x.key /\ e.key \in Int
        BY <2>3, ScanStep, HeldKey DEF NotEmpty
      <4>2. e.key = x.key
        BY <2>1, <4>1
      <4> QED
        BY <2>2, <4>2
    <3>5. x.key <= x.key
      BY <2>1
    <3>6. {e \in Held(pages) : x.key <= e.key} = {x}
      BY <2>1, <3>4, <3>5
    <3> QED
      BY <3>3, <3>6
  <2>4. CASE ~IsEnd(it)
    <3> PICK nx : nx = Advanced(it)
      OBVIOUS
    <3>1. nx \in Places /\ Remaining[nx] < Remaining[it]
      BY <2>4, LessRemains
    <3>2. nx \in S
      BY <1>2, <3>1
    <3> PICK t, y : t = f[nx] /\ y = EntryOf(nx)
      OBVIOUS
    <3>3. t \in Seq(Entry) /\ SortedEntries(t) /\ Range(t) = {e \in Held(pages) : y.key <= e.key}
      BY <3>2
    <3>4. x.key < y.key /\ y.key \in Int /\ \A e \in Held(pages) : x.key < e.key => y.key <= e.key
      BY <2>4, <3>1, ScanStep, KeyAtPlace DEF NotEmpty
    <3>5. \A e \in Held(pages) : y.key <= e.key <=> x.key < e.key
      <4> SUFFICES ASSUME NEW e \in Held(pages), y.key <= e.key PROVE x.key < e.key
        BY <3>4
      <4>1. e.key \in Int
        BY HeldKey
      <4> QED
        BY <2>1, <3>4, <4>1
    <3>6. Range(t) = {e \in Held(pages) : x.key < e.key}
      BY <3>3, <3>5
    <3>7. \A e \in Range(t) : x.key < e.key
      BY <3>6
    <3>8. f[it] = <<x>> \o t
      BY <1>1, <2>4
    <3>9. f[it] \in Seq(Entry) /\ SortedEntries(f[it]) /\ Range(f[it]) = {x} \cup Range(t)
      <4>1. Leads(x, t, f[it])
        BY <3>3, <3>7, <3>8 DEF Leads
      <4> QED
        BY <2>1, <3>3, <4>1, InFront
    <3>10. \A e \in Held(pages) : x.key <= e.key <=> e = x \/ x.key < e.key
      <4> SUFFICES ASSUME NEW e \in Held(pages) PROVE x.key <= e.key <=> e = x \/ x.key < e.key
        OBVIOUS
      <4>1. e.key \in Int
        BY HeldKey
      <4>2. x.key <= e.key <=> e.key = x.key \/ x.key < e.key
        BY <2>1, <4>1
      <4> QED
        BY <2>2, <4>2
    <3>11. {e \in Held(pages) : x.key <= e.key} = {x} \cup Range(t)
      BY <2>1, <3>6, <3>10
    <3> QED
      BY <3>9, <3>11
  <2> QED
    BY <2>3, <2>4
<1>3. \A it \in Places : Remaining[it] \in Nat
  BY LessRemains
<1>4. Places \subseteq S
  <2>1. \A it \in Places : (\A at \in Places : Remaining[at] < Remaining[it] => at \in S) => it \in S
    BY <1>2
  <2> HIDE DEF S
  <2> QED
    BY <1>3, <2>1, MeasureInduction
<1> QED
  BY <1>4

\* No key is at least k.
NoneFrom(k) == \A e \in Held(pages) : e.key < k

\* The place has the least key that is at least k.
LeastFrom(k, it) ==
  it \in Places /\ k <= EntryOf(it).key /\ \A e \in Held(pages) : k <= e.key => EntryOf(it).key <= e.key

\* The place LowerBound finds in the leaf of the key.
LEMMA BoundInLeaf ==
  ASSUME NEW R, LeafRegions(pages, R), NEW k \in Int, NEW p \in LeavesOf(pages), k \in R[p],
         NEW pos, LeafPlace(pages[p].entries, k, pos), pos <= Len(pages[p].entries)
  PROVE  LeastFrom(k, [leaf |-> p, at |-> pos])
<1> PICK s : s = pages[p].entries
  OBVIOUS
<1> PICK it : it = [leaf |-> p, at |-> pos]
  OBVIOUS
<1>1. Len(s) \in Nat /\ SortedEntries(s) /\ Convex(R[p])
  BY OneLeaf DEF LeafIn
<1>2. pos \in 1 .. Len(s) + 1 /\ \A j \in 1 .. Len(s) : IF j < pos THEN s[j].key < k ELSE k <= s[j].key
  BY DEF LeafPlace
<1>3. pos \in 1 .. Len(s) /\ ~(pos < pos)
  BY <1>1, <1>2
<1>4. k <= s[pos].key /\ s[pos].key \in Int /\ s[pos].key \in R[p]
  BY <1>2, <1>3, EntryAt
<1>5. it \in Places /\ EntryOf(it) = s[pos]
  BY <1>3, PlaceParts DEF EntryOf
<1>6. ASSUME NEW e \in Held(pages), k <= e.key
      PROVE  s[pos].key <= e.key
  <2>1. PICK q \in LeavesOf(pages) : \E j \in 1 .. Len(pages[q].entries) : e = pages[q].entries[j]
    BY HeldPlaces
  <2>2. PICK j \in 1 .. Len(pages[q].entries) : e = pages[q].entries[j]
    BY <2>1
  <2>3. e.key \in Int /\ e.key \in R[q]
    BY <2>2, EntryAt
  <2> SUFFICES ASSUME e.key < s[pos].key PROVE FALSE
    BY <1>4, <2>3
  <2>4. e.key = k \/ k < e.key
    BY <1>6, <2>3
  <2>5. e.key \in R[p]
    BY <1>1, <1>4, <2>3, <2>4 DEF Convex
  <2>6. q = p
    BY <2>3, <2>5 DEF LeafRegions
  <2>7. j \in 1 .. Len(s) /\ e = s[j]
    BY <2>2, <2>6
  <2>8. ~(j < pos)
    <3>1. j < pos => e.key < k
      BY <1>2, <2>7
    <3> QED
      BY <1>6, <2>3, <3>1
  <2>9. j = pos \/ pos < j
    BY <1>1, <1>3, <2>7, <2>8
  <2>10. pos < j => s[pos].key < s[j].key
    BY <1>1, <1>3, <2>7 DEF SortedEntries
  <2> QED
    BY <1>4, <2>3, <2>7, <2>9, <2>10
<1> QED
  BY <1>4, <1>5, <1>6 DEF LeastFrom

\* The place it goes on to when all keys of the leaf are smaller.
LEMMA BoundBeyondLeaf ==
  ASSUME NEW R, LeafRegions(pages, R), NotEmpty(pages), NEW k \in Int, NEW p \in LeavesOf(pages), k \in R[p],
         NEW n, n = Len(pages[p].entries), LeafPlace(pages[p].entries, k, n + 1),
         NEW last, last = [leaf |-> p, at |-> n]
  PROVE  /\ IsEnd(last) => NoneFrom(k)
         /\ ~IsEnd(last) => LeastFrom(k, Advanced(last))
<1>1. n \in Nat /\ n >= 1 /\ n \in 1 .. n
  <2>1. n \in Nat /\ n >= 1
    BY OneLeaf DEF NotEmpty
  <2> QED
    BY <2>1
<1>2. pages[p].entries[n].key < k /\ pages[p].entries[n].key \in Int
  <2>1. n < n + 1 /\ n \in 1 .. Len(pages[p].entries)
    BY <1>1
  <2> QED
    BY <2>1, EntryAt DEF LeafPlace
<1>3. IsEnd(last) <=> pages[p].next = NoPage
  BY DEF IsEnd
<1>4. CASE pages[p].next = NoPage
  <2>1. ASSUME NEW e \in Held(pages)
        PROVE  e.key < k
    <3>1. e.key <= pages[p].entries[n].key /\ e.key \in Int
      BY <1>1, <1>4, NothingNext, HeldKey
    <3> QED
      BY <1>2, <3>1
  <2> QED
    BY <1>3, <1>4, <2>1 DEF NoneFrom
<1>5. CASE pages[p].next # NoPage
  <2> PICK q : q = pages[p].next
    OBVIOUS
  <2> PICK it : it = [leaf |-> q, at |-> 1]
    OBVIOUS
  <2>1. Advanced(last) = it
    BY <1>5 DEF Advanced
  <2>2. q \in LeavesOf(pages) /\ Len(pages[q].entries) >= 1
    BY <1>5 DEF LeafRegions, NotEmpty
  <2>3. /\ 1 \in 1 .. Len(pages[q].entries)
        /\ \A x \in R[p] : x < pages[q].entries[1].key
        /\ \A e \in Held(pages) : pages[p].entries[n].key < e.key => pages[q].entries[1].key <= e.key
    BY <1>1, <1>5, <2>2, NextIsFirst
  <2>4. it \in Places /\ EntryOf(it) = pages[q].entries[1] /\ EntryOf(it).key \in Int
    BY <2>2, <2>3, PlaceParts, EntryAt DEF EntryOf
  <2>5. k < EntryOf(it).key
    BY <2>3, <2>4
  <2>6. ASSUME NEW e \in Held(pages), k <= e.key
        PROVE  EntryOf(it).key <= e.key
    <3>1. e.key \in Int
      BY HeldKey
    <3>2. pages[p].entries[n].key < e.key
      BY <1>2, <2>6, <3>1
    <3> QED
      BY <2>3, <2>4, <3>2
  <2>7. k <= EntryOf(it).key
    BY <2>4, <2>5
  <2> QED
    BY <1>3, <1>5, <2>1, <2>4, <2>6, <2>7 DEF LeastFrom
<1> QED
  BY <1>4, <1>5

\* LowerBound finds the least key from k on, if there is one.
LEMMA LowerBoundIs ==
  ASSUME TreeInv, Idle, root # NoPage, NEW k \in Int
  PROVE  \/ LowerBoundOf(k) = {} /\ NoneFrom(k)
         \/ \E it : LowerBoundOf(k) = {it} /\ LeastFrom(k, it)
<1> PICK R : /\ LeafRegions(pages, R)
             /\ \A p \in LeavesOf(pages) : Len(pages[p].entries) >= 1
             /\ \A x \in Int : Last(Path(x)) \in LeavesOf(pages) /\ x \in R[Last(Path(x))]
  BY SearchLeaf
<1> PICK p : p = Last(Path(k))
  OBVIOUS
<1> PICK pos : pos = LeafLowerBound(pages[p], k)
  OBVIOUS
<1> PICK last : last = [leaf |-> p, at |-> Len(pages[p].entries)]
  OBVIOUS
<1>1. p \in LeavesOf(pages) /\ k \in R[p] /\ NotEmpty(pages)
  BY DEF NotEmpty
<1>2. LowerBoundOf(k) = IF pos <= Len(pages[p].entries) THEN {[leaf |-> p, at |-> pos]}
                        ELSE IF IsEnd(last) THEN {} ELSE {Advanced(last)}
  BY DEF LowerBoundOf
<1>3. LeafPlace(pages[p].entries, k, pos)
  <2>1. IsLeafPage(pages[p]) /\ SortedEntries(pages[p].entries) /\ Len(pages[p].entries) >= 1
    BY <1>1, OneLeaf DEF LeafIn
  <2> QED
    BY <2>1, LeafLowerBoundAt
<1>4. CASE pos <= Len(pages[p].entries)
  BY <1>1, <1>2, <1>3, <1>4, BoundInLeaf
<1>5. CASE ~(pos <= Len(pages[p].entries))
  <2>1. pos = Len(pages[p].entries) + 1
    <3>1. pos \in 1 .. Len(pages[p].entries) + 1 /\ Len(pages[p].entries) \in Nat
      BY <1>1, <1>3, OneLeaf DEF LeafPlace
    <3> QED
      BY <1>5, <3>1
  <2>2. LeafPlace(pages[p].entries, k, Len(pages[p].entries) + 1)
    BY <1>3, <2>1
  <2>3. /\ IsEnd(last) => NoneFrom(k)
        /\ ~IsEnd(last) => LeastFrom(k, Advanced(last))
    BY <1>1, <2>2, BoundBeyondLeaf
  <2> QED
    BY <1>2, <1>5, <2>3
<1> QED
  BY <1>4, <1>5

\* Scan joins the places from the lower bound on.
LEMMA ScanJoins ==
  ASSUME NEW f0, Scanned(f0), NEW k
  PROVE  /\ LowerBoundOf(k) = {} => Scan(k) = <<>>
         /\ \A it : LowerBoundOf(k) = {it} => \E f : Scanned(f) /\ Scan(k) = f[it]
<1> PICK f : f = CHOOSE g : Scanned(g)
  OBVIOUS
<1>1. Scanned(f)
  OBVIOUS
<1>2. Scan(k) = IF LowerBoundOf(k) = {} THEN <<>> ELSE f[CHOOSE it \in LowerBoundOf(k) : TRUE]
  BY DEF Scan, Scanned
<1>3. ASSUME NEW it, LowerBoundOf(k) = {it}
      PROVE  Scan(k) = f[it]
  <2>1. (CHOOSE x \in LowerBoundOf(k) : TRUE) = it
    BY <1>3
  <2> QED
    BY <1>2, <1>3, <2>1
<1> QED
  BY <1>1, <1>2, <1>3

\* A scan lists what the leaves hold from the key on.
LEMMA ScanIs ==
  ASSUME TreeInv, Idle, NEW k \in Int
  PROVE  /\ Scan(k) \in Seq(Entry) /\ SortedEntries(Scan(k))
         /\ Range(Scan(k)) = {e \in Held(pages) : k <= e.key}
<1>0. <<>> \in Seq(Entry) /\ SortedEntries(<<>>) /\ Range(<<>>) = {}
  BY DEF SortedEntries, Range
<1>1. CASE root = NoPage
  <2>1. DOMAIN pages = {}
    BY <1>1 DEF TreeInv, Sound
  <2>2. Held(pages) = {}
    BY <2>1 DEF Held, EntriesIn, LeavesOf
  <2>3. Scan(k) = <<>>
    BY <1>1 DEF Scan, LowerBoundOf
  <2> QED
    BY <1>0, <2>2, <2>3
<1>2. CASE root # NoPage
  <2>1. PICK R : /\ LeafRegions(pages, R)
                 /\ \A p \in LeavesOf(pages) : Len(pages[p].entries) >= 1
                 /\ \A x \in Int : Last(Path(x)) \in LeavesOf(pages) /\ x \in R[Last(Path(x))]
    BY <1>2, SearchLeaf
  <2>2. LeafRegions(pages, R) /\ NotEmpty(pages)
    BY <2>1 DEF NotEmpty
  <2>3. PICK f0 : Scanned(f0)
    BY <2>2, ScannedExists
  <2>4. CASE LowerBoundOf(k) = {} /\ NoneFrom(k)
    <3>1. Scan(k) = <<>>
      BY <2>3, <2>4, ScanJoins
    <3>2. \A e \in Held(pages) : ~(k <= e.key)
      <4> SUFFICES ASSUME NEW e \in Held(pages) PROVE ~(k <= e.key)
        OBVIOUS
      <4>1. e.key < k /\ e.key \in Int
        BY <2>2, <2>4, HeldKey DEF NoneFrom
      <4> QED
        BY <4>1
    <3> QED
      BY <1>0, <3>1, <3>2
  <2>5. ASSUME NEW it, LowerBoundOf(k) = {it}, LeastFrom(k, it)
        PROVE  /\ Scan(k) \in Seq(Entry) /\ SortedEntries(Scan(k))
               /\ Range(Scan(k)) = {e \in Held(pages) : k <= e.key}
    <3>1. PICK f : Scanned(f) /\ Scan(k) = f[it]
      BY <2>3, <2>5, ScanJoins
    <3>2. it \in Places /\ k <= EntryOf(it).key /\ \A e \in Held(pages) : k <= e.key => EntryOf(it).key <= e.key
      BY <2>5 DEF LeastFrom
    <3>3. /\ Scan(k) \in Seq(Entry) /\ SortedEntries(Scan(k))
          /\ Range(Scan(k)) = {e \in Held(pages) : EntryOf(it).key <= e.key}
      BY <2>2, <3>1, <3>2, ScannedHolds
    <3>4. \A e \in Held(pages) : EntryOf(it).key <= e.key => k <= e.key
      <4> SUFFICES ASSUME NEW e \in Held(pages), EntryOf(it).key <= e.key PROVE k <= e.key
        OBVIOUS
      <4>1. e.key \in Int /\ EntryOf(it).key \in Int
        BY <2>2, <3>2, HeldKey, KeyAtPlace
      <4> QED
        BY <3>2, <4>1
    <3>5. {e \in Held(pages) : EntryOf(it).key <= e.key} = {e \in Held(pages) : k <= e.key}
      BY <3>2, <3>4
    <3> QED
      BY <3>3, <3>5
  <2> QED
    BY <1>2, <2>4, <2>5, LowerBoundIs
<1> QED
  BY <1>1, <1>2

\* A scan meets all keys from its own on, in order.
LEMMA SoundScans == TreeInv => ScansInOrder
<1> SUFFICES ASSUME TreeInv, Idle, NEW k \in Keys, NEW scan, scan = Scan(k), NEW keys, keys = [i \in DOMAIN scan |-> scan[i].key]
             PROVE  /\ \A i, j \in DOMAIN keys : i < j => keys[i] < keys[j]
                    /\ Range(keys) = {x \in Keys : x >= k /\ GetValue(x) # {}}
  BY DEF ScansInOrder
<1>1. Keys \subseteq Int
  BY TreeAssumption
<1>2. scan \in Seq(Entry) /\ SortedEntries(scan) /\ Range(scan) = {e \in Held(pages) : k <= e.key}
  BY <1>1, ScanIs
<1>3. DOMAIN scan = 1 .. Len(scan) /\ DOMAIN keys = DOMAIN scan /\ \A i \in DOMAIN scan : keys[i] = scan[i].key
  BY <1>2
<1>4. \A i, j \in DOMAIN keys : i < j => keys[i] < keys[j]
  BY <1>2, <1>3 DEF SortedEntries
<1>5. \A x : x \in Range(keys) <=> \E e \in Range(scan) : x = e.key
  BY <1>3 DEF Range
<1>6. \A e \in Range(scan) : e.key \in Keys /\ e.key \in Int
  <2> SUFFICES ASSUME NEW e \in Range(scan) PROVE e.key \in Keys /\ e.key \in Int
    OBVIOUS
  <2>1. e \in Entry
    BY <1>2 DEF Range
  <2> QED
    BY <1>1, <2>1, EntryParts
<1>7. \A x \in Keys : GetValue(x) # {} <=> \E e \in Held(pages) : e.key = x
  <2> SUFFICES ASSUME NEW x \in Keys PROVE GetValue(x) # {} <=> \E e \in Held(pages) : e.key = x
    OBVIOUS
  <2>1. GetValue(x) = {e.value : e \in {d \in Held(pages) : d.key = x}}
    BY <1>1, GetValueIs
  <2> QED
    BY <2>1
<1>8. \A x : x \in Range(keys) <=> x \in Keys /\ k <= x /\ \E e \in Held(pages) : e.key = x
  BY <1>2, <1>5, <1>6
<1>9. \A x \in Keys : x >= k <=> k <= x
  BY <1>1
<1>10. \A x : x \in Range(keys) <=> x \in {y \in Keys : y >= k /\ GetValue(y) # {}}
  BY <1>7, <1>8, <1>9
<1> QED
  BY <1>4, <1>10

\* In every state between two commands a scan from a key meets every key from there
\* on that a lookup finds, once each and in order (LowerBound and the iterator).
THEOREM ScansStayInOrder == Spec => []ScansInOrder
BY TreeStaysSound, SoundScans, PTL

-----------------------------------------------------------------------------
(* The entries before and after an operation. *)

\* The entries of the leaves are those that some page holds.
LEMMA HeldIs ==
  ASSUME NEW ps, NEW rt, NEW ws, NEW c, Sound(ps, rt, ws, c), NEW e
  PROVE  e \in Held(ps) <=> HasEntry(ps, e)
<1>1. ASSUME NEW p \in DOMAIN ps
      PROVE  /\ ps[p].leaf = TRUE \/ ps[p].leaf = FALSE
             /\ ps[p].leaf = TRUE => DOMAIN ps[p].entries = 1 .. Len(ps[p].entries)
  <2>1. Sizes(ps, rt)
    BY DEF Sound
  <2>2. LeafSized(ps[p], p = rt) \/ InternalSized(ps[p], p = rt)
    BY <2>1 DEF Sizes
  <2>3. CASE LeafSized(ps[p], p = rt)
    BY <2>3 DEF LeafSized, IsLeafPage
  <2>4. CASE InternalSized(ps[p], p = rt)
    BY <2>4 DEF InternalSized, IsInternalPage
  <2> QED
    BY <2>2, <2>3, <2>4
<1>2. ASSUME NEW p \in LeavesOf(ps)
      PROVE  e \in Range(ps[p].entries) <=> HoldsEntry(ps[p], e)
  <2>1. p \in DOMAIN ps /\ ps[p].leaf = TRUE /\ DOMAIN ps[p].entries = 1 .. Len(ps[p].entries)
    BY <1>1, <1>2 DEF LeavesOf
  <2> QED
    BY <2>1 DEF Range, HoldsEntry, HasElement
<1>3. e \in Held(ps) <=> \E p \in LeavesOf(ps) : e \in Range(ps[p].entries)
  BY DEF Held, EntriesIn
<1>4. HasEntry(ps, e) <=> \E p \in LeavesOf(ps) : HoldsEntry(ps[p], e)
  BY <1>1 DEF HasEntry, HoldsEntry, LeavesOf
<1> QED
  BY <1>2, <1>3, <1>4

\* The entries of the pages in any state have a key each.
LEMMA HeldKeysUnique ==
  ASSUME TreeInv
  PROVE  OneOfEachKey(Held(pages))
<1>1. CASE root = NoPage
  <2>1. DOMAIN pages = {}
    BY <1>1 DEF TreeInv, Sound
  <2>2. Held(pages) = {}
    BY <2>1 DEF Held, EntriesIn, LeavesOf
  <2> QED
    BY <2>2 DEF OneOfEachKey
<1>2. CASE root # NoPage
  <2>1. PICK V, h, R : Tree(V, root, h, R) /\ SeenIn(V, pages)
    BY <1>2, SoundContents
  <2>2. LeafRegions(pages, R)
    BY <2>1, TreeLeaves DEF SeenIn
  <2>3. \A d, e \in Held(pages) : d.key = e.key => d = e
    BY <2>2, KeysUnique
  <2> QED
    BY <2>3 DEF OneOfEachKey
<1> QED
  BY <1>1, <1>2

\* What Insert gives a leaf is one more entry, with a key that no leaf had.
LEMMA GivenEntries ==
  ASSUME TreeInv, Idle, root # NoPage, NEW key \in Keys, NEW value \in ValuesFor[key],
         NEW cur, cur = Last(Path(key)), NEW pos, pos = LeafLowerBound(pages[cur], key), ~HasKeyAt(pages[cur], pos, key)
  PROVE  /\ \A e \in Held(pages) : e.key # key
         /\ \A e : HasEntry(Given(key, value), e) <=> HasEntry(pages, e) \/ e = [key |-> key, value |-> value]
<1> PICK R : /\ LeafRegions(pages, R)
             /\ \A p \in LeavesOf(pages) : Len(pages[p].entries) >= 1
             /\ \A x \in Int : Last(Path(x)) \in LeavesOf(pages) /\ x \in R[Last(Path(x))]
  BY SearchLeaf
<1> PICK x : x = [key |-> key, value |-> value]
  OBVIOUS
<1> PICK pg, A, all : pg = pages[cur] /\ A = R[cur] /\ all = InsertAt(pages[cur].entries, pos, x)
  OBVIOUS
<1>1. key \in Int
  BY TreeAssumption
<1>2. cur \in LeavesOf(pages) /\ key \in A /\ Len(pg.entries) >= 1
  BY <1>1
<1>3. /\ cur \in DOMAIN pages /\ IsLeafPage(pg) /\ LeafIn(pg, A) /\ A \in SUBSET Int
  BY <1>2, OneLeaf
<1>4. \A e \in Held(pages) : e.key # key
  BY <1>2, FoundIsHeld
<1>5. AddsEntry(pg, key, value, all)
  BY DEF AddsEntry
<1>6. PutIn(pg.entries, pos, x, all)
  <2>1. EntryPut(pg, key, value, all)
    BY <1>2, <1>3, <1>5, EntryAdded
  <2> QED
    BY <2>1 DEF EntryPut
<1>7. Refilled(pages, cur, all, pages[cur].next, Given(key, value))
  BY <1>3 DEF Given, Refilled
<1>8. pg.leaf = TRUE /\ Len(pg.entries) \in Nat
  BY <1>3, LeafKind
<1>9. ASSUME NEW e
      PROVE  HasEntry(Given(key, value), e) <=> HasEntry(pages, e) \/ e = x
  <2>1. HasEntry(Given(key, value), e) <=> HasElement(all, e) \/ HeldElsewhere(pages, cur, e)
    BY <1>7, RefilledEntries
  <2>2. HasElement(all, e) <=> HasElement(pg.entries, e) \/ e = x
    BY <1>6, <1>8, PutElements
  <2>3. HoldsEntry(pages[cur], e) <=> HasElement(pg.entries, e)
    BY <1>8 DEF HoldsEntry
  <2>4. HasEntry(pages, e) <=> HoldsEntry(pages[cur], e) \/ HeldElsewhere(pages, cur, e)
    BY <1>3 DEF HasEntry, HeldElsewhere
  <2> QED
    BY <2>1, <2>2, <2>3, <2>4
<1> QED
  BY <1>4, <1>9

\* What Remove takes from a leaf is the entry of its key.
LEMMA TakenEntries ==
  ASSUME TreeInv, Idle, root # NoPage, NEW key \in Keys,
         NEW cur, cur = Last(Path(key)), NEW pos, pos = LeafLowerBound(pages[cur], key), HasKeyAt(pages[cur], pos, key)
  PROVE  /\ \E e \in Held(pages) : e.key = key
         /\ \A e : HasEntry(Taken(key), e) <=> e \in Held(pages) /\ e.key # key
<1> PICK R : /\ LeafRegions(pages, R)
             /\ \A p \in LeavesOf(pages) : Len(pages[p].entries) >= 1
             /\ \A x \in Int : Last(Path(x)) \in LeavesOf(pages) /\ x \in R[Last(Path(x))]
  BY SearchLeaf
<1> PICK pg, A, rest : pg = pages[cur] /\ A = R[cur] /\ rest = RemoveAt(pages[cur].entries, pos)
  OBVIOUS
<1> PICK x : x = pages[cur].entries[pos]
  OBVIOUS
<1>1. key \in Int
  BY TreeAssumption
<1>2. cur \in LeavesOf(pages) /\ key \in A /\ Len(pg.entries) >= 1
  BY <1>1
<1>3. /\ cur \in DOMAIN pages /\ IsLeafPage(pg) /\ LeafIn(pg, A) /\ A \in SUBSET Int
  BY <1>2, OneLeaf
<1>4. /\ pos \in 1 .. Len(pg.entries) /\ x.key = key /\ x \in Held(pages)
      /\ \A e \in Held(pages) : e.key = key => e = x
  BY <1>2, FoundIsHeld
<1>5. PutIn(rest, pos, x, pg.entries) /\ LeafIn(Leaf(rest, pg.next), A)
  BY <1>3, <1>4, EntryRemoved
<1>6. Len(rest) \in Nat
  <2>1. IsLeafPage(Leaf(rest, pg.next))
    BY <1>5 DEF LeafIn
  <2>2. Leaf(rest, pg.next).entries = rest
    BY DEF Leaf
  <2> QED
    BY <2>1, <2>2, LeafKind
<1>7. Refilled(pages, cur, rest, pages[cur].next, Taken(key))
  BY <1>3 DEF Taken, Refilled
<1>8. pg.leaf = TRUE
  BY <1>3, LeafKind
<1>9. ASSUME NEW q \in LeavesOf(pages), NEW j \in 1 .. Len(pages[q].entries), pages[q].entries[j].key = key
      PROVE  q = cur /\ j = pos
  BY <1>2, <1>4, <1>9, OnePlace
<1>10. ASSUME NEW e
      PROVE  HasEntry(Taken(key), e) <=> e \in Held(pages) /\ e.key # key
  <2>1. HasEntry(Taken(key), e) <=> HasElement(rest, e) \/ HeldElsewhere(pages, cur, e)
    BY <1>7, RefilledEntries
  <2>2. /\ HasElement(pg.entries, e) <=> HasElement(rest, e) \/ e = x
        /\ HasElement(rest, e) => \E j \in 1 .. Len(pg.entries) : j # pos /\ pg.entries[j] = e
    BY <1>5, <1>6, PutElements
  <2>3. e \in Held(pages) <=> HasElement(pg.entries, e) \/ HeldElsewhere(pages, cur, e)
    <3>1. e \in Held(pages) <=> HasEntry(pages, e)
      BY HeldIs DEF TreeInv
    <3> QED
      BY <1>3, <1>8, <3>1 DEF HasEntry, HoldsEntry, HeldElsewhere
  <2>4. HasElement(rest, e) => e.key # key
    BY <1>2, <1>9, <2>2
  <2>5. ASSUME HeldElsewhere(pages, cur, e)
        PROVE  e.key # key
    BY <1>9, <2>5 DEF HeldElsewhere, HoldsEntry, HasElement, LeavesOf
  <2>6. e = x => e.key = key
    BY <1>4
  <2> QED
    BY <2>1, <2>2, <2>3, <2>4, <2>5, <2>6
<1> QED
  BY <1>4, <1>10

-----------------------------------------------------------------------------
(* The steps of the map. *)

\* An insertion into the empty tree.
LEMMA FirstAdds ==
  ASSUME TreeInv, NEW key \in Keys, NEW value \in ValuesFor[key], InsertFirst(key, value)
  PROVE  AddsTo(Held(pages), key, value, Held(pages'))
<1> PICK x, new : x = [key |-> key, value |-> value] /\ new = NewPageId(pages)
  OBVIOUS
<1> PICK leaf, s : leaf = Leaf(s, NoPage) /\ s = <<x>>
  OBVIOUS
<1>1. DOMAIN pages = {}
  BY DEF InsertFirst, TreeInv, Sound
<1>2. pages' = WithPage(pages, new, leaf)
  BY DEF InsertFirst
<1>3. DOMAIN pages' = {new} /\ pages'[new] = leaf
  BY <1>1, <1>2 DEF WithPage
<1>4. leaf.leaf = TRUE /\ leaf.entries = s
  BY DEF Leaf
<1>5. Held(pages) = {}
  BY <1>1 DEF Held, EntriesIn, LeavesOf
<1>6. \A e : HasEntry(pages', e) <=> e = x
  <2>1. Len(s) = 1 /\ s[1] = x
    OBVIOUS
  <2>2. \A e : HasElement(s, e) <=> e = x
    BY <2>1 DEF HasElement
  <2> QED
    BY <1>3, <1>4, <2>2 DEF HasEntry, HoldsEntry
<1>7. TreeInv'
  BY InsertFirstSound
<1>8. \A e : e \in Held(pages') <=> HasEntry(pages', e)
  BY <1>7, HeldIs DEF TreeInv
<1> QED
  BY <1>5, <1>6, <1>8 DEF AddsTo

\* An insertion into a tree.
LEMMA InsertAdds ==
  ASSUME TreeInv, NEW key \in Keys, NEW value \in ValuesFor[key], InsertKey(key, value)
  PROVE  AddsTo(Held(pages), key, value, Held(pages'))
<1> PICK cur : cur = Last(Path(key))
  OBVIOUS
<1> PICK pos : pos = LeafLowerBound(pages[cur], key)
  OBVIOUS
<1> PICK x : x = [key |-> key, value |-> value]
  OBVIOUS
<1>1. Idle /\ root # NoPage /\ ~HasKeyAt(pages[cur], pos, key)
  BY DEF InsertKey
<1>2. /\ \A e \in Held(pages) : e.key # key
      /\ \A e : HasEntry(Given(key, value), e) <=> HasEntry(pages, e) \/ e = x
  BY <1>1, GivenEntries
<1>3. TreeInv' /\ SameEntries(Given(key, value), pages')
  BY InsertKeySound
<1>4. \A e : e \in Held(pages') <=> HasEntry(pages', e)
  BY <1>3, HeldIs DEF TreeInv
<1>5. \A e : e \in Held(pages) <=> HasEntry(pages, e)
  BY HeldIs DEF TreeInv
<1>6. \A e : HasEntry(Given(key, value), e) <=> HasEntry(pages', e)
  BY <1>3 DEF SameEntries
<1> QED
  BY <1>2, <1>4, <1>5, <1>6 DEF AddsTo

\* A removal.
LEMMA RemoveDrops ==
  ASSUME TreeInv, NEW key \in Keys, RemoveKey(key)
  PROVE  DropsFrom(Held(pages), key, Held(pages'))
<1> PICK cur : cur = Last(Path(key))
  OBVIOUS
<1> PICK pos : pos = LeafLowerBound(pages[cur], key)
  OBVIOUS
<1>1. Idle /\ root # NoPage /\ HasKeyAt(pages[cur], pos, key)
  BY DEF RemoveKey
<1>2. /\ \E e \in Held(pages) : e.key = key
      /\ \A e : HasEntry(Taken(key), e) <=> e \in Held(pages) /\ e.key # key
  BY <1>1, TakenEntries
<1>3. TreeInv' /\ SameEntries(Taken(key), pages')
  BY RemoveKeySound
<1>4. \A e : e \in Held(pages') <=> HasEntry(pages', e)
  BY <1>3, HeldIs DEF TreeInv
<1>5. \A e : HasEntry(Taken(key), e) <=> HasEntry(pages', e)
  BY <1>3 DEF SameEntries
<1> QED
  BY <1>2, <1>4, <1>5 DEF DropsFrom

\* The work on the ancestors.
LEMMA AncestorsKeepEntries ==
  ASSUME TreeInv, InsertInternal \/ RemoveInternal
  PROVE  Held(pages') = Held(pages)
<1>1. TreeInv' /\ SameEntries(pages, pages')
  BY InsertInternalSound, RemoveInternalSound
<1>2. \A e : e \in Held(pages') <=> HasEntry(pages', e)
  BY <1>1, HeldIs DEF TreeInv
<1>3. \A e : e \in Held(pages) <=> HasEntry(pages, e)
  BY HeldIs DEF TreeInv
<1>4. \A e : HasEntry(pages, e) <=> HasEntry(pages', e)
  BY <1>1 DEF SameEntries
<1>5. \A e : e \in Held(pages') <=> e \in Held(pages)
  BY <1>2, <1>3, <1>4
<1> QED
  BY <1>5

\* The map of the abstract specification is that of the entries.
LEMMA ContentsMapIs == TreeInv => ContentsMap = MapOf(Held(pages))
<1> SUFFICES ASSUME TreeInv PROVE ContentsMap = MapOf(Held(pages))
  OBVIOUS
<1>1. Range(Contents) = Held(pages)
  BY ContentsAre
<1>2. ContentsMap = MapOf(Range(Contents))
  BY DEF ContentsMap, MapOf
<1> QED
  BY <1>1, <1>2

\* Whatever splits, loans and merges an operation causes, a client sees a map with
\* unique keys: an insertion of a new key adds it, a removal takes it out, and the
\* work on the ancestors that follows changes nothing (b_plus_tree.h).
THEOREM TreeImplementsMap == Spec => ImplementsMap
<1>1. Init => Map!MapInit
  <2> SUFFICES ASSUME Init PROVE ContentsMap = [k \in {} |-> 0]
    BY DEF Map!MapInit
  <2>1. TreeInv /\ DOMAIN pages = {}
    BY InitSound DEF Init
  <2>2. Held(pages) = {}
    BY <2>1 DEF Held, EntriesIn, LeavesOf
  <2>3. ContentsMap = MapOf({})
    BY <2>1, <2>2, ContentsMapIs
  <2>4. MapOf({}) = [k \in {} |-> 0]
    BY DEF MapOf
  <2> QED
    BY <2>3, <2>4
<1>2. /\ TreeInv /\ ContentsMap = MapOf(Held(pages))
      /\ (ContentsMap = MapOf(Held(pages)))'
      /\ [Next]_treeVars
      => [Map!MapNext]_ContentsMap
  <2> SUFFICES ASSUME TreeInv, ContentsMap = MapOf(Held(pages)), (ContentsMap = MapOf(Held(pages)))', [Next]_treeVars
               PROVE  [Map!MapNext]_ContentsMap
    OBVIOUS
  <2> PICK E, F : E = Held(pages) /\ F = Held(pages')
    OBVIOUS
  <2>1. ContentsMap = MapOf(E) /\ ContentsMap' = MapOf(F)
    OBVIOUS
  <2>2. OneOfEachKey(E)
    BY HeldKeysUnique
  <2>3. ASSUME NEW key \in Keys, NEW value \in ValuesFor[key], AddsTo(E, key, value, F)
        PROVE  Map!MapNext
    <3>1. GainsPlace(MapOf(E), key, value, MapOf(F))
      BY <2>2, <2>3, MapAdded
    <3>2. Map!AddKey(key, value)
      BY <2>1, <3>1 DEF Map!AddKey, GainsPlace
    <3> QED
      BY <3>2 DEF Map!MapNext
  <2>4. ASSUME NEW key \in Keys, DropsFrom(E, key, F)
        PROVE  Map!MapNext
    <3>1. LosesPlace(MapOf(E), key, MapOf(F))
      BY <2>2, <2>4, MapDropped
    <3>2. Map!DropKey(key)
      BY <2>1, <3>1 DEF Map!DropKey, LosesPlace
    <3> QED
      BY <3>2 DEF Map!MapNext
  <2>5. ASSUME NEW key \in Keys, RemoveKey(key)
        PROVE  Map!MapNext
    BY <2>4, <2>5, RemoveDrops
  <2>6. ASSUME NEW key \in Keys, NEW value \in ValuesFor[key], InsertFirst(key, value) \/ InsertKey(key, value)
        PROVE  Map!MapNext
    BY <2>3, <2>6, FirstAdds, InsertAdds
  <2>7. CASE InsertInternal \/ RemoveInternal
    <3>1. F = E
      BY <2>7, AncestorsKeepEntries
    <3> QED
      BY <2>1, <3>1
  <2>8. CASE UNCHANGED treeVars
    <3>1. F = E
      BY <2>8 DEF treeVars
    <3> QED
      BY <2>1, <3>1
  <2> QED
    BY <2>5, <2>6, <2>7, <2>8 DEF Next
<1>3. TreeInv => ContentsMap = MapOf(Held(pages))
  BY ContentsMapIs
<1> QED
  BY <1>1, <1>2, <1>3, TreeStaysSound, PTL DEF Spec, ImplementsMap, Map!MapSpec
=============================================================================
