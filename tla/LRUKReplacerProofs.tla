-------------------------- MODULE LRUKReplacerProofs --------------------------
(***************************************************************************)
(* The pass Evict makes over the frames finds the victim LRU-K defines,    *)
(* for any number of frames and any k, and LRUKReplacer is a Replacer as   *)
(* the buffer pool needs one.                                              *)
(***************************************************************************)
EXTENDS LRUKReplacer, FiniteSetTheorems, WellFoundedInduction, NaturalsInduction, TLAPS

\* A set of natural numbers that is not empty has a least element.
LEMMA LeastNumber ==
  ASSUME NEW S \in SUBSET Nat, S # {}
  PROVE  \E n \in S : \A m \in S : n <= m
<1>1. PICK n \in S : \A m \in S : ~(<<m, n>> \in OpToRel(<, Nat))
  BY NatLessThanWellFounded, WFMin
<1>2. ASSUME NEW m \in S PROVE ~(m < n)
  BY <1>1 DEF OpToRel
<1> QED BY <1>2

-----------------------------------------------------------------------------
(* The invariant. *)

\* A history: at least one timestamp and at most k, the oldest first, all in the past.
History(h, now) ==
  /\ h \in Seq(Nat) /\ Len(h) \in 1 .. K
  /\ \A i \in 1 .. Len(h) : h[i] < now
  /\ \A i, j \in 1 .. Len(h) : i < j => h[i] < h[j]

NodeOK(node, now) ==
  /\ node = [history |-> node.history, evictable |-> node.evictable]
  /\ node.evictable \in BOOLEAN /\ History(node.history, now)

\* No two frames were accessed at the same time.
Apart(h, k) == \A i \in 1 .. Len(h), j \in 1 .. Len(k) : h[i] # k[j]

LRUInv ==
  /\ Tracked \subseteq Frames
  /\ current_timestamp \in 0 .. MaxTimestamp
  /\ \A f \in Tracked : NodeOK(node_store[f], current_timestamp)
  /\ \A f, g \in Tracked : f # g => Apart(node_store[f].history, node_store[g].history)
  /\ curr_size = Cardinality(Evictable)

LEMMA EvictableFinite ==
  ASSUME Tracked \subseteq Frames
  PROVE  IsFiniteSet(Evictable) /\ Evictable \subseteq Frames
<1>1. Evictable \subseteq Frames
  BY DEF Evictable
<1>2. IsFiniteSet(Frames)
  BY LRUKAssumption, FS_Interval DEF Frames
<1> QED BY <1>1, <1>2, FS_Subset

-----------------------------------------------------------------------------
(* The pass. *)

Start == [dis |-> 0, history |-> INF, frame |-> -1]

\* b holds what the locals of Evict hold after each of the first n frames.
IsPass(b, n) == b = [i \in 0 .. n |-> IF i = 0 THEN Start ELSE Better(i - 1, b[i - 1])]

LEMMA PassExtends ==
  ASSUME NEW n \in Nat, NEW b, IsPass(b, n)
  PROVE  \E c : IsPass(c, n + 1)
<1> DEFINE c == [i \in 0 .. n + 1 |-> IF i = n + 1 THEN Better(n, b[n]) ELSE b[i]]
<1>1. \A i \in 0 .. n : b[i] = IF i = 0 THEN Start ELSE Better(i - 1, b[i - 1])
  BY DEF IsPass
<1>2. /\ \A i \in 0 .. n : c[i] = b[i]
      /\ c[n + 1] = Better(n, b[n])
      /\ c = [i \in 0 .. n + 1 |-> c[i]]
  OBVIOUS
<1> HIDE DEF c
<1>3. ASSUME NEW i \in 0 .. n + 1
      PROVE  c[i] = IF i = 0 THEN Start ELSE Better(i - 1, c[i - 1])
  <2>1. CASE i = n + 1
    <3>1. n + 1 - 1 = n /\ n + 1 # 0 /\ n \in 0 .. n
      OBVIOUS
    <3>2. c[n] = b[n]
      BY <1>2, <3>1
    <3> QED BY <2>1, <1>2, <3>1, <3>2
  <2>2. CASE i = 0
    <3>1. 0 \in 0 .. n
      OBVIOUS
    <3>2. c[0] = b[0] /\ b[0] = Start
      BY <1>1, <1>2, <3>1
    <3> QED BY <2>2, <3>2
  <2>3. CASE i \in 1 .. n
    <3>1. i - 1 \in 0 .. n /\ i \in 0 .. n /\ i # 0
      BY <2>3
    <3>2. c[i] = Better(i - 1, b[i - 1]) /\ c[i - 1] = b[i - 1]
      BY <1>1, <1>2, <3>1
    <3> QED BY <3>1, <3>2
  <2> QED BY <2>1, <2>2, <2>3
<1>4. [i \in 0 .. n + 1 |-> c[i]]
        = [i \in 0 .. n + 1 |-> IF i = 0 THEN Start ELSE Better(i - 1, c[i - 1])]
  BY <1>3
<1>5. IsPass(c, n + 1)
  BY <1>2, <1>4 DEF IsPass
<1> QED BY <1>5

LEMMA PassExists ==
  ASSUME NEW n \in Nat
  PROVE  \E b : IsPass(b, n)
<1> DEFINE None == {m \in Nat : ~\E b : IsPass(b, m)}
<1> SUFFICES ASSUME None # {} PROVE FALSE
  OBVIOUS
<1>1. PICK m \in None : \A k \in None : m <= k
  BY LeastNumber
<1>2. IsPass([i \in 0 .. 0 |-> Start], 0)
  BY DEF IsPass
<1>3. m \in Nat /\ m # 0
  BY <1>2
<1>4. m - 1 \in Nat /\ m - 1 \notin None
  BY <1>1, <1>3
<1>5. PICK b : IsPass(b, m - 1)
  BY <1>4
<1>6. \E c : IsPass(c, (m - 1) + 1)
  BY <1>4, <1>5, PassExtends
<1>7. (m - 1) + 1 = m
  BY <1>3
<1> QED BY <1>6, <1>7

LEMMA ScanIsPass == \E b : IsPass(b, PoolSize) /\ Scan = b[PoolSize]
<1> DEFINE best == CHOOSE b : IsPass(b, PoolSize)
<1>1. IsPass(best, PoolSize)
  BY PassExists, LRUKAssumption
<1>2. Scan = best[PoolSize]
  BY DEF Scan, IsPass, Start
<1> QED BY <1>1, <1>2

\* What the invariant says of an evictable frame.
NodeFacts(f) ==
  /\ GetHistory(f) \in Nat /\ GetHistory(f) < current_timestamp
  /\ current_timestamp \in Nat /\ current_timestamp < INF /\ INF \in Nat
  /\ HasK(f) \in BOOLEAN
  /\ GetDis(f) = IF HasK(f) THEN current_timestamp - GetHistory(f) ELSE INF

LEMMA FactsOfNodes ==
  ASSUME LRUInv, NEW f \in Evictable
  PROVE  NodeFacts(f)
<1> DEFINE h == node_store[f].history
<1>1. History(h, current_timestamp)
  BY DEF LRUInv, NodeOK, Evictable
<1>2. GetHistory(f) = Head(h) /\ (HasK(f) <=> Len(h) = K)
      /\ GetDis(f) = IF Len(h) < K THEN INF ELSE current_timestamp - Head(h)
  BY DEF GetHistory, HasK, GetDis
<1> HIDE DEF h
<1>3. Head(h) \in Nat /\ Head(h) < current_timestamp /\ (Len(h) < K <=> Len(h) # K)
  BY <1>1, LRUKAssumption DEF History
<1>4. current_timestamp \in Nat /\ current_timestamp < INF /\ INF \in Nat
  BY LRUKAssumption DEF LRUInv, INF
<1> QED BY <1>2, <1>3, <1>4 DEF NodeFacts, HasK

LEMMA HeadsDiffer ==
  ASSUME LRUInv, NEW f \in Evictable, NEW g \in Evictable, f # g
  PROVE  GetHistory(f) # GetHistory(g)
<1> DEFINE h == node_store[f].history
           k == node_store[g].history
<1>1. /\ History(h, current_timestamp) /\ History(k, current_timestamp) /\ Apart(h, k)
  BY DEF LRUInv, NodeOK, Evictable
<1>2. GetHistory(f) = Head(h) /\ GetHistory(g) = Head(k)
  BY DEF GetHistory
<1> HIDE DEF h, k
<1>3. Head(h) = h[1] /\ Head(k) = k[1] /\ 1 \in 1 .. Len(h) /\ 1 \in 1 .. Len(k)
  BY <1>1 DEF History
<1> QED BY <1>1, <1>2, <1>3 DEF Apart

LEMMA GoesBeforeTransitive ==
  ASSUME NEW f, NEW g, NEW h, NodeFacts(f), NodeFacts(g), NodeFacts(h),
         GoesBefore(f, g), GoesBefore(g, h)
  PROVE  GoesBefore(f, h)
BY DEF GoesBefore, NodeFacts

Seen(i) == {f \in Evictable : f < i}

\* The locals of Evict after the frames below i.
Best(best, i) ==
  \/ Seen(i) = {} /\ best = Start
  \/ /\ best = [dis |-> best.dis, history |-> best.history, frame |-> best.frame]
     /\ best.frame \in Seen(i) /\ best.dis = GetDis(best.frame)
     /\ best.history = IF best.dis = INF THEN GetHistory(best.frame) ELSE INF
     /\ \A g \in Seen(i) \ {best.frame} : GoesBefore(best.frame, g)

\* The three cases of the pass, for an evictable frame and the best one so far.
LEMMA FurtherBack ==
  ASSUME NEW f, NEW g, NodeFacts(f), NodeFacts(g), GetDis(f) > GetDis(g)
  PROVE  GoesBefore(f, g) /\ GetDis(g) # INF
<1>1. CASE HasK(f)
  <2>1. GetDis(f) < INF
    BY <1>1 DEF NodeFacts
  <2>2. HasK(g)
    BY <2>1 DEF NodeFacts
  <2> QED BY <1>1, <2>2 DEF NodeFacts, GoesBefore
<1>2. CASE ~HasK(f)
  <2>1. HasK(g)
    BY <1>2 DEF NodeFacts
  <2> QED BY <1>2, <2>1 DEF NodeFacts, GoesBefore
<1> QED BY <1>1, <1>2

LEMMA EquallyFar ==
  ASSUME NEW f, NEW g, NodeFacts(f), NodeFacts(g), GetDis(f) = GetDis(g),
         GetHistory(f) # GetHistory(g)
  PROVE  /\ GetDis(f) = INF
         /\ GetHistory(f) < GetHistory(g) => GoesBefore(f, g)
<1>1. CASE HasK(f)
  <2>1. GetDis(f) < INF
    BY <1>1 DEF NodeFacts
  <2>2. HasK(g)
    BY <2>1 DEF NodeFacts
  <2> QED BY <1>1, <2>2 DEF NodeFacts
<1>2. CASE ~HasK(f)
  <2>1. GetDis(f) = INF
    BY <1>2 DEF NodeFacts
  <2>2. ~HasK(g)
    BY <2>1 DEF NodeFacts
  <2> QED BY <1>2, <2>1, <2>2 DEF NodeFacts, GoesBefore
<1> QED BY <1>1, <1>2

LEMMA BetterIsBest ==
  ASSUME LRUInv, NEW i \in Frames, NEW best, Best(best, i)
  PROVE  Best(Better(i, best), i + 1)
<1> DEFINE new == Better(i, best)
           d   == GetDis(i)
           h   == GetHistory(i)
<1>1. i \in Nat /\ \A f \in Evictable : f \in Nat
  BY EvictableFinite, LRUKAssumption DEF LRUInv, Frames
<1>2. CASE i \notin Evictable
  <2>1. Seen(i + 1) = Seen(i)
    BY <1>1, <1>2 DEF Seen
  <2>2. new = best
    BY <1>2 DEF Better
  <2> QED BY <2>1, <2>2 DEF Best
<1>3. CASE i \in Evictable
  <2>1. Seen(i + 1) = Seen(i) \cup {i} /\ i \notin Seen(i) /\ Seen(i) \subseteq Evictable
    <3>1. \A f \in Evictable : f < i + 1 <=> f < i \/ f = i
      BY <1>1
    <3>2. ~(i < i)
      BY <1>1
    <3> QED BY <1>3, <3>1, <3>2 DEF Seen
  <2>2. NodeFacts(i)
    BY <1>3, FactsOfNodes
  <2>3. d \in Nat /\ d > 0 /\ d <= INF /\ h \in Nat /\ h < INF
    BY <2>2 DEF NodeFacts
  <2>4. new = CASE d > best.dis -> [dis |-> d, history |-> IF d = INF THEN h ELSE best.history, frame |-> i]
              [] d = best.dis /\ h < best.history -> [best EXCEPT !.history = h, !.frame = i]
              [] OTHER -> best
    BY <1>3 DEF Better
  <2> HIDE DEF new, d, h
  <2>5. CASE Seen(i) = {} /\ best = Start
    <3>1. best.dis = 0 /\ best.history = INF
      BY <2>5 DEF Start
    <3>2. new = [dis |-> d, history |-> IF d = INF THEN h ELSE INF, frame |-> i]
      BY <2>3, <2>4, <3>1
    <3>3. Seen(i + 1) = {i}
      BY <2>1, <2>5
    <3> QED BY <3>2, <3>3 DEF Best, new, d, h
  <2>6. CASE /\ best = [dis |-> best.dis, history |-> best.history, frame |-> best.frame]
             /\ best.frame \in Seen(i) /\ best.dis = GetDis(best.frame)
             /\ best.history = IF best.dis = INF THEN GetHistory(best.frame) ELSE INF
             /\ \A g \in Seen(i) \ {best.frame} : GoesBefore(best.frame, g)
    <3> DEFINE f == best.frame
    <3>1. NodeFacts(f) /\ f \in Evictable /\ f # i
      BY <2>1, <2>6, FactsOfNodes
    <3>2. GetHistory(i) # GetHistory(f)
      BY <1>3, <3>1, HeadsDiffer
    <3>3. GetDis(f) \in Nat /\ GetHistory(f) \in Nat /\ INF \in Nat
      BY <3>1 DEF NodeFacts
    <3>4. ASSUME GoesBefore(i, f), NEW g \in Seen(i + 1) \ {i} PROVE GoesBefore(i, g)
      <4>1. CASE g = f
        BY <3>4, <4>1
      <4>2. CASE g # f
        <5>1. GoesBefore(f, g) /\ NodeFacts(g)
          BY <2>1, <2>6, <3>4, <4>2, FactsOfNodes
        <5> QED BY <2>2, <3>1, <3>4, <5>1, GoesBeforeTransitive
      <4> QED BY <4>1, <4>2
    <3>5. CASE d > best.dis
      <4>1. new = [dis |-> d, history |-> IF d = INF THEN h ELSE best.history, frame |-> i]
        BY <2>3, <2>4, <2>6, <3>3, <3>5
      <4>2. GoesBefore(i, f) /\ best.dis # INF
        BY <2>2, <2>6, <3>1, <3>5, FurtherBack DEF d
      <4>3. new = [dis |-> d, history |-> IF d = INF THEN h ELSE INF, frame |-> i]
        BY <2>6, <4>1, <4>2
      <4>4. i \in Seen(i + 1) /\ \A g \in Seen(i + 1) \ {i} : GoesBefore(i, g)
        BY <2>1, <3>4, <4>2
      <4> QED BY <4>3, <4>4 DEF Best, new, d, h
    <3>6. CASE d = best.dis /\ h < best.history
      <4>1. new = [best EXCEPT !.history = h, !.frame = i]
        BY <2>3, <2>4, <3>3, <3>6, <2>6
      <4>2. d = INF
        BY <2>2, <2>6, <3>1, <3>2, <3>6, EquallyFar DEF d
      <4>3. GoesBefore(i, f)
        BY <2>2, <2>6, <3>1, <3>2, <3>6, <4>2, EquallyFar DEF d, h
      <4>4. i \in Seen(i + 1) /\ \A g \in Seen(i + 1) \ {i} : GoesBefore(i, g)
        BY <2>1, <3>4, <4>3
      <4>5. new = [dis |-> d, history |-> h, frame |-> i]
        BY <2>6, <3>6, <4>1
      <4> QED BY <4>2, <4>4, <4>5 DEF Best, new, d, h
    <3>7. CASE ~(d > best.dis) /\ ~(d = best.dis /\ h < best.history)
      <4>1. new = best
        BY <2>4, <3>7
      <4>2. GoesBefore(f, i)
        <5>1. CASE d < best.dis
          BY <2>2, <2>6, <3>1, <3>3, <5>1, FurtherBack DEF d
        <5>2. CASE d = best.dis
          <6>1. GetDis(f) = INF /\ (GetHistory(f) < GetHistory(i) => GoesBefore(f, i))
            BY <2>2, <2>6, <3>1, <3>2, <5>2, EquallyFar DEF d
          <6>2. best.history = GetHistory(f)
            BY <2>6, <6>1
          <6>3. GetHistory(f) < GetHistory(i)
            BY <2>3, <3>2, <3>3, <3>7, <5>2, <6>2 DEF h
          <6> QED BY <6>1, <6>3
        <5> QED BY <2>3, <2>6, <3>3, <3>7, <5>1, <5>2
      <4>3. f \in Seen(i + 1) /\ \A g \in Seen(i + 1) \ {f} : GoesBefore(f, g)
        BY <2>1, <2>6, <4>2
      <4>4. Best(best, i + 1)
        BY <2>6, <4>3 DEF Best
      <4> QED BY <4>1, <4>4 DEF new
    <3> QED BY <3>5, <3>6, <3>7
  <2> QED BY <2>5, <2>6 DEF Best
<1> QED BY <1>2, <1>3

LEMMA ScanIsBest ==
  ASSUME LRUInv
  PROVE  Best(Scan, PoolSize)
<1>1. PICK b : IsPass(b, PoolSize) /\ Scan = b[PoolSize]
  BY ScanIsPass
<1>2. /\ \A i \in 0 .. PoolSize : b[i] = IF i = 0 THEN Start ELSE Better(i - 1, b[i - 1])
      /\ PoolSize \in Nat
  BY <1>1, LRUKAssumption DEF IsPass
<1> DEFINE Wrong == {i \in 0 .. PoolSize : ~Best(b[i], i)}
<1>3. Wrong = {}
  <2> SUFFICES ASSUME Wrong # {} PROVE FALSE
    OBVIOUS
  <2>1. Wrong \in SUBSET Nat
    BY <1>2
  <2>2. PICK i \in Wrong : \A j \in Wrong : i <= j
    BY <2>1, LeastNumber
  <2>3. i \in 0 .. PoolSize /\ ~Best(b[i], i)
    BY <2>2
  <2>4. CASE i = 0
    <3>1. Seen(0) = {}
      BY EvictableFinite, LRUKAssumption DEF LRUInv, Frames, Seen
    <3>2. b[0] = Start
      BY <1>2
    <3> QED BY <2>3, <2>4, <3>1, <3>2 DEF Best
  <2>5. CASE i # 0
    <3>1. i - 1 \in 0 .. PoolSize /\ i - 1 \in Frames /\ ~(i <= i - 1) /\ (i - 1) + 1 = i
      BY <1>2, <2>3, <2>5 DEF Frames
    <3>2. Best(b[i - 1], i - 1)
      BY <2>2, <3>1
    <3>3. b[i] = Better(i - 1, b[i - 1])
      BY <1>2, <2>3, <2>5
    <3>4. Best(Better(i - 1, b[i - 1]), (i - 1) + 1)
      BY <3>1, <3>2, BetterIsBest
    <3> QED BY <2>3, <3>1, <3>3, <3>4
  <2> QED BY <2>4, <2>5
<1>4. PoolSize \in 0 .. PoolSize
  BY <1>2
<1> QED BY <1>1, <1>3, <1>4

LEMMA VictimIsLRUK == LRUInv => EvictPicksLRUK
<1> SUFFICES ASSUME LRUInv, curr_size # 0
             PROVE  /\ Scan.frame \in Evictable /\ Scan.dis # 0
                    /\ \A g \in Evictable \ {Scan.frame} : GoesBefore(Scan.frame, g)
  BY DEF EvictPicksLRUK
<1>1. Seen(PoolSize) = Evictable
  <2>1. \A f \in Evictable : f < PoolSize
    BY EvictableFinite, LRUKAssumption DEF LRUInv, Frames
  <2> QED BY <2>1 DEF Seen
<1>2. Evictable # {}
  BY FS_EmptySet DEF LRUInv
<1>3. /\ Scan.frame \in Evictable /\ Scan.dis = GetDis(Scan.frame)
      /\ \A g \in Evictable \ {Scan.frame} : GoesBefore(Scan.frame, g)
  BY <1>1, <1>2, ScanIsBest DEF Best
<1>4. NodeFacts(Scan.frame)
  BY <1>3, FactsOfNodes
<1>5. Scan.dis # 0
  BY <1>3, <1>4 DEF NodeFacts
<1> QED BY <1>3, <1>5

-----------------------------------------------------------------------------
(* The operations. *)

\* A history, perhaps of a frame not accessed yet.
Past(h, now) ==
  /\ h \in Seq(Nat) /\ Len(h) \in 0 .. K
  /\ \A i \in 1 .. Len(h) : h[i] < now
  /\ \A i, j \in 1 .. Len(h) : i < j => h[i] < h[j]

NextHistory(h, now) == IF Len(Append(h, now)) > K THEN Tail(Append(h, now)) ELSE Append(h, now)

\* Every time in n is now or from h.
FromThese(n, h, now) ==
  \A i \in 1 .. Len(n) : n[i] = now \/ \E j \in 1 .. Len(h) : n[i] = h[j]

Increasing(h) == \A i, j \in 1 .. Len(h) : i < j => h[i] < h[j]

Below(h, now) == \A i \in 1 .. Len(h) : h[i] < now

LEMMA TailOfHistory ==
  ASSUME NEW a \in Seq(Nat), Len(a) > 0, NEW t, Below(a, t), Increasing(a)
  PROVE  /\ Tail(a) \in Seq(Nat) /\ Len(Tail(a)) = Len(a) - 1
         /\ Below(Tail(a), t) /\ Increasing(Tail(a))
         /\ \A h, now : FromThese(a, h, now) => FromThese(Tail(a), h, now)
<1> DEFINE n == Tail(a)
<1>1. /\ n \in Seq(Nat) /\ Len(n) = Len(a) - 1 /\ Len(a) \in Nat
      /\ \A i \in 1 .. Len(n) : n[i] = a[i + 1]
  OBVIOUS
<1> HIDE DEF n
<1>2. \A i \in 1 .. Len(n) : i \in Nat /\ i + 1 \in 1 .. Len(a)
  BY <1>1
<1>3. Below(n, t)
  BY <1>1, <1>2 DEF Below
<1>4. ASSUME NEW i \in 1 .. Len(n), NEW j \in 1 .. Len(n), i < j PROVE n[i] < n[j]
  <2>1. i + 1 < j + 1 /\ i + 1 \in 1 .. Len(a) /\ j + 1 \in 1 .. Len(a)
    BY <1>2, <1>4
  <2>2. a[i + 1] < a[j + 1]
    BY <2>1 DEF Increasing
  <2> QED BY <1>1, <2>2
<1>5. ASSUME NEW h, NEW now, FromThese(a, h, now) PROVE FromThese(n, h, now)
  BY <1>1, <1>2, <1>5 DEF FromThese
<1> QED BY <1>1, <1>3, <1>4, <1>5 DEF n, Increasing

LEMMA AccessedHistory ==
  ASSUME NEW now \in Nat, NEW h, Past(h, now)
  PROVE  /\ History(NextHistory(h, now), now + 1)
         /\ FromThese(NextHistory(h, now), h, now)
<1> DEFINE a == Append(h, now)
           n == NextHistory(h, now)
<1>1. /\ h \in Seq(Nat) /\ Len(h) \in Nat /\ Len(h) <= K /\ K \in Nat /\ K >= 1
      /\ \A i \in 1 .. Len(h) : h[i] \in Nat /\ h[i] < now
      /\ \A i, j \in 1 .. Len(h) : i < j => h[i] < h[j]
  BY LRUKAssumption DEF Past
<1>2. /\ a \in Seq(Nat) /\ Len(a) = Len(h) + 1 /\ a[Len(h) + 1] = now
      /\ \A i \in 1 .. Len(h) : a[i] = h[i]
  BY <1>1
<1> HIDE DEF a
<1>3. \A i \in 1 .. Len(a) : i \in 1 .. Len(h) \/ i = Len(h) + 1
  BY <1>1, <1>2
<1>4. Below(a, now + 1)
  <2>1. ASSUME NEW i \in 1 .. Len(a) PROVE a[i] < now + 1
    <3>1. CASE i \in 1 .. Len(h)
      <4>1. a[i] \in Nat /\ a[i] < now
        BY <1>1, <1>2, <3>1
      <4> QED BY <4>1
    <3>2. CASE i = Len(h) + 1
      BY <1>2, <3>2
    <3> QED BY <1>3, <3>1, <3>2
  <2> QED BY <2>1 DEF Below
<1>5. Increasing(a)
  <2>1. ASSUME NEW i \in 1 .. Len(a), NEW j \in 1 .. Len(a), i < j PROVE a[i] < a[j]
    <3>1. i \in 1 .. Len(h)
      BY <1>1, <1>2, <2>1
    <3>2. CASE j \in 1 .. Len(h)
      <4>1. h[i] < h[j]
        BY <1>1, <2>1, <3>1, <3>2
      <4> QED BY <1>2, <3>1, <3>2, <4>1
    <3>3. CASE j = Len(h) + 1
      BY <1>1, <1>2, <3>1, <3>3
    <3> QED BY <1>3, <3>2, <3>3
  <2> QED BY <2>1 DEF Increasing
<1>6. FromThese(a, h, now)
  <2>1. ASSUME NEW i \in 1 .. Len(a) PROVE a[i] = now \/ \E j \in 1 .. Len(h) : a[i] = h[j]
    BY <1>2, <1>3
  <2> QED BY <2>1 DEF FromThese
<1>7. CASE Len(a) > K
  <2>1. n = Tail(a)
    BY <1>7 DEF NextHistory, a
  <2>2. Len(a) > 0 /\ Len(a) - 1 \in 1 .. K
    BY <1>1, <1>2, <1>7
  <2>3. /\ n \in Seq(Nat) /\ Len(n) = Len(a) - 1
        /\ Below(n, now + 1) /\ Increasing(n) /\ FromThese(n, h, now)
    BY <1>2, <1>4, <1>5, <1>6, <2>1, <2>2, TailOfHistory
  <2> HIDE DEF n
  <2>4. History(n, now + 1)
    BY <2>2, <2>3 DEF History, Below, Increasing
  <2> QED BY <2>3, <2>4 DEF n
<1>8. CASE ~(Len(a) > K)
  <2>1. n = a
    BY <1>8 DEF NextHistory, a
  <2>2. Len(a) \in 1 .. K
    BY <1>1, <1>2, <1>8
  <2>3. History(a, now + 1)
    BY <1>2, <1>4, <1>5, <2>2 DEF History, Below, Increasing
  <2> QED BY <1>6, <2>1, <2>3
<1> QED BY <1>7, <1>8

StoreOK(store, now) ==
  /\ DOMAIN store \subseteq Frames
  /\ \A f \in DOMAIN store : NodeOK(store[f], now)
  /\ \A f, g \in DOMAIN store : f # g => Apart(store[f].history, store[g].history)

LEMMA NextInv ==
  ASSUME StoreOK(node_store', current_timestamp'), current_timestamp' \in 0 .. MaxTimestamp,
         curr_size' = Cardinality(Evictable')
  PROVE  LRUInv'
BY DEF LRUInv, StoreOK, Tracked

LEMMA LaterHistory ==
  ASSUME NEW now \in Nat, NEW h, History(h, now)
  PROVE  History(h, now + 1) /\ Past(h, now)
<1>1. h \in Seq(Nat) /\ Len(h) \in 1 .. K /\ K \in Nat /\ \A i \in 1 .. Len(h) : h[i] \in Nat
  BY LRUKAssumption DEF History
<1>2. \A i \in 1 .. Len(h) : h[i] < now + 1
  BY <1>1 DEF History
<1> QED BY <1>1, <1>2 DEF History, Past

LEMMA AccessKeeps ==
  ASSUME LRUInv, NEW f \in Frames, RecordAccess(f)
  PROVE  /\ StoreOK(node_store', current_timestamp')
         /\ current_timestamp' \in 0 .. MaxTimestamp
         /\ Tracked' = Tracked \cup {f} /\ Evictable' = Evictable /\ curr_size' = curr_size
<1> DEFINE now == current_timestamp
           old == IF f \in Tracked THEN node_store[f] ELSE [history |-> <<>>, evictable |-> FALSE]
           new == Accessed(old)
<1>1. /\ current_timestamp < MaxTimestamp /\ current_timestamp' = now + 1
      /\ node_store' = [g \in Tracked \cup {f} |-> IF g # f THEN node_store[g] ELSE new]
      /\ curr_size' = curr_size
  BY DEF RecordAccess
<1>2. now \in Nat /\ MaxTimestamp \in Nat
  BY LRUKAssumption DEF LRUInv
<1>3. /\ old = [history |-> old.history, evictable |-> old.evictable]
      /\ old.evictable \in BOOLEAN /\ Past(old.history, now)
      /\ f \notin Tracked => old.history = <<>> /\ old.evictable = FALSE
  <2>1. CASE f \in Tracked
    BY <1>2, <2>1, LaterHistory DEF LRUInv, NodeOK
  <2>2. CASE f \notin Tracked
    <3>1. Past(<<>>, now)
      BY LRUKAssumption DEF Past
    <3> QED BY <2>2, <3>1
  <2> QED BY <2>1, <2>2
<1>4. f \in Tracked => old = node_store[f]
  OBVIOUS
<1> HIDE DEF old
<1>5. new = [history |-> NextHistory(old.history, now), evictable |-> old.evictable]
  <2>1. new = [old EXCEPT !.history = NextHistory(old.history, now)]
    BY DEF Accessed, NextHistory
  <2> QED BY <1>3, <2>1
<1>6. /\ History(NextHistory(old.history, now), now + 1)
      /\ FromThese(NextHistory(old.history, now), old.history, now)
  BY <1>2, <1>3, AccessedHistory
<1>7. /\ new.history = NextHistory(old.history, now) /\ new.evictable = old.evictable
      /\ NodeOK(new, now + 1)
  BY <1>3, <1>5, <1>6 DEF NodeOK
<1> HIDE DEF new, now
<1>8. /\ DOMAIN node_store' = Tracked \cup {f} /\ node_store'[f] = new
      /\ \A g \in Tracked \ {f} : node_store'[g] = node_store[g]
  BY <1>1
<1>9. ASSUME NEW g \in Tracked \ {f}
      PROVE  /\ NodeOK(node_store[g], now + 1)
             /\ Apart(new.history, node_store[g].history) /\ Apart(node_store[g].history, new.history)
  <2>1. NodeOK(node_store[g], now) /\ History(node_store[g].history, now)
    BY DEF LRUInv, NodeOK, now
  <2>2. History(node_store[g].history, now + 1)
    BY <1>2, <2>1, LaterHistory DEF now
  <2>3. NodeOK(node_store[g], now + 1)
    BY <2>1, <2>2 DEF NodeOK
  <2>4. \A i \in 1 .. Len(node_store[g].history) : node_store[g].history[i] # now
    <3>1. \A i \in 1 .. Len(node_store[g].history) :
            node_store[g].history[i] < now /\ node_store[g].history[i] \in Nat
      BY <2>1 DEF History
    <3> QED BY <1>2, <3>1 DEF now
  <2>5. Apart(old.history, node_store[g].history)
    <3>1. CASE f \in Tracked
      BY <1>4, <3>1 DEF LRUInv
    <3>2. CASE f \notin Tracked
      BY <1>3, <3>2 DEF Apart
    <3> QED BY <3>1, <3>2
  <2>6. Apart(new.history, node_store[g].history)
    BY <1>6, <1>7, <2>4, <2>5 DEF Apart, FromThese
  <2> QED BY <2>3, <2>6 DEF Apart
<1>10. StoreOK(node_store', now + 1)
  <2>1. DOMAIN node_store' \subseteq Frames
    BY <1>8 DEF LRUInv
  <2>2. \A g \in DOMAIN node_store' : NodeOK(node_store'[g], now + 1)
    BY <1>7, <1>8, <1>9
  <2>3. ASSUME NEW g \in DOMAIN node_store', NEW k \in DOMAIN node_store', g # k
        PROVE  Apart(node_store'[g].history, node_store'[k].history)
    <3>1. CASE g = f
      BY <2>3, <3>1, <1>8, <1>9
    <3>2. CASE k = f
      BY <2>3, <3>2, <1>8, <1>9
    <3>3. CASE g # f /\ k # f
      BY <2>3, <3>3, <1>8 DEF LRUInv
    <3> QED BY <3>1, <3>2, <3>3
  <2> QED BY <2>1, <2>2, <2>3 DEF StoreOK
<1>11. Evictable' = Evictable
  <2>1. \A g \in Tracked \cup {f} : node_store'[g].evictable <=> g \in Tracked /\ node_store[g].evictable
    BY <1>3, <1>4, <1>7, <1>8
  <2> QED BY <1>8, <2>1 DEF Evictable, Tracked
<1>12. current_timestamp' \in 0 .. MaxTimestamp
  BY <1>1, <1>2 DEF now
<1> QED BY <1>1, <1>8, <1>10, <1>11, <1>12 DEF Tracked, now

Flagged(f, flag) == IF flag THEN Evictable \cup {f} ELSE Evictable \ {f}

LEMMA FlagKeeps ==
  ASSUME LRUInv, NEW f \in Tracked, NEW flag \in BOOLEAN, node_store[f].evictable # flag,
         SetEvictable(f, flag)
  PROVE  /\ StoreOK(node_store', current_timestamp')
         /\ current_timestamp' = current_timestamp
         /\ Tracked' = Tracked /\ Evictable' = Flagged(f, flag)
         /\ curr_size' = IF flag THEN curr_size + 1 ELSE curr_size - 1
<1> DEFINE new == [node_store[f] EXCEPT !.evictable = flag]
<1>1. /\ node_store' = [node_store EXCEPT ![f] = new]
      /\ curr_size' = IF flag THEN curr_size + 1 ELSE curr_size - 1
      /\ current_timestamp' = current_timestamp
  BY DEF SetEvictable
<1>2. NodeOK(node_store[f], current_timestamp)
  BY DEF LRUInv
<1>3. new = [history |-> node_store[f].history, evictable |-> flag]
  BY <1>2 DEF NodeOK
<1>4. NodeOK(new, current_timestamp) /\ new.history = node_store[f].history /\ new.evictable = flag
  BY <1>2, <1>3 DEF NodeOK
<1> HIDE DEF new
<1>5. /\ DOMAIN node_store' = Tracked /\ node_store'[f] = new
      /\ \A g \in Tracked \ {f} : node_store'[g] = node_store[g]
  BY <1>1 DEF Tracked
<1>6. StoreOK(node_store', current_timestamp)
  <2>1. \A g \in Tracked : /\ node_store'[g].history = node_store[g].history
                          /\ NodeOK(node_store'[g], current_timestamp)
    BY <1>4, <1>5 DEF LRUInv
  <2> QED BY <1>5, <2>1 DEF LRUInv, StoreOK
<1>7. Evictable' = Flagged(f, flag)
  <2>1. \A g \in Tracked : node_store'[g].evictable <=> IF g = f THEN flag ELSE node_store[g].evictable
    BY <1>4, <1>5
  <2>2. Evictable' = {g \in Tracked : node_store'[g].evictable}
    BY <1>5 DEF Evictable, Tracked
  <2> QED BY <2>1, <2>2 DEF Flagged, Evictable
<1> QED BY <1>1, <1>5, <1>6, <1>7 DEF Tracked

LEMMA WithoutKeeps ==
  ASSUME LRUInv, NEW f, node_store' = Without(f), current_timestamp' = current_timestamp
  PROVE  /\ StoreOK(node_store', current_timestamp')
         /\ Tracked' = Tracked \ {f} /\ Evictable' = Evictable \ {f}
<1>1. /\ DOMAIN node_store' = Tracked \ {f}
      /\ \A g \in Tracked \ {f} : node_store'[g] = node_store[g]
  BY DEF Without
<1>2. StoreOK(node_store', current_timestamp)
  BY <1>1 DEF LRUInv, StoreOK
<1>3. Evictable' = Evictable \ {f}
  <2>1. Evictable' = {g \in Tracked \ {f} : node_store'[g].evictable}
    BY <1>1 DEF Evictable, Tracked
  <2> QED BY <1>1, <2>1 DEF Evictable
<1> QED BY <1>1, <1>2, <1>3 DEF Tracked

LEMMA OneMore ==
  ASSUME NEW S, IsFiniteSet(S), NEW f, f \notin S
  PROVE  Cardinality(S \cup {f}) = Cardinality(S) + 1
BY FS_AddElement

LEMMA OneLess ==
  ASSUME NEW S, IsFiniteSet(S), NEW f \in S
  PROVE  Cardinality(S \ {f}) = Cardinality(S) - 1
BY FS_RemoveElement

THEOREM LRUInvInit == Init => LRUInv
<1> SUFFICES ASSUME Init PROVE LRUInv
  OBVIOUS
<1>1. Tracked = {} /\ Evictable = {} /\ curr_size = 0 /\ current_timestamp = 0
  BY DEF Init, Tracked, Evictable
<1> QED BY <1>1, FS_EmptySet, LRUKAssumption DEF LRUInv

\* The frame Evict returns is evictable.
LEMMA EvictForgets ==
  ASSUME LRUInv, Evict
  PROVE  /\ Scan.frame \in Evictable /\ node_store' = Without(Scan.frame)
         /\ curr_size' = curr_size - 1 /\ current_timestamp' = current_timestamp
BY VictimIsLRUK DEF Evict, EvictPicksLRUK

THEOREM LRUInvNext == LRUInv /\ [Next]_lruVars => LRUInv'
<1> SUFFICES ASSUME LRUInv, [Next]_lruVars PROVE LRUInv'
  OBVIOUS
<1>1. /\ current_timestamp \in 0 .. MaxTimestamp /\ curr_size = Cardinality(Evictable)
      /\ Tracked \subseteq Frames /\ IsFiniteSet(Evictable)
  BY EvictableFinite DEF LRUInv
<1>2. CASE Evict
  <2>1. StoreOK(node_store', current_timestamp') /\ Evictable' = Evictable \ {Scan.frame}
    BY <1>2, EvictForgets, WithoutKeeps
  <2>2. curr_size' = Cardinality(Evictable')
    BY <1>1, <1>2, <2>1, EvictForgets, OneLess
  <2> QED BY <1>1, <1>2, <2>1, <2>2, EvictForgets, NextInv
<1>3. ASSUME NEW f \in Frames, RecordAccess(f) PROVE LRUInv'
  BY <1>1, <1>3, AccessKeeps, NextInv
<1>4. ASSUME NEW f \in Frames, NEW flag \in BOOLEAN, SetEvictable(f, flag) PROVE LRUInv'
  <2>1. CASE f \in Tracked /\ node_store[f].evictable # flag
    <3>1. /\ StoreOK(node_store', current_timestamp') /\ current_timestamp' = current_timestamp
          /\ Evictable' = Flagged(f, flag)
          /\ curr_size' = IF flag THEN curr_size + 1 ELSE curr_size - 1
      BY <1>4, <2>1, FlagKeeps
    <3>2. node_store[f].evictable \in BOOLEAN
      BY <2>1 DEF LRUInv, NodeOK
    <3>3. curr_size' = Cardinality(Evictable')
      <4>1. CASE flag
        <5>1. f \notin Evictable
          BY <2>1, <3>2, <4>1 DEF Evictable
        <5> QED BY <1>1, <3>1, <4>1, <5>1, OneMore DEF Flagged
      <4>2. CASE ~flag
        <5>1. f \in Evictable
          BY <2>1, <3>2, <4>2 DEF Evictable
        <5> QED BY <1>1, <3>1, <4>2, <5>1, OneLess DEF Flagged
      <4> QED BY <4>1, <4>2
    <3> QED BY <1>1, <3>1, <3>3, NextInv
  <2>2. CASE ~(f \in Tracked /\ node_store[f].evictable # flag)
    BY <1>4, <2>2 DEF SetEvictable, LRUInv, Tracked, Evictable
  <2> QED BY <2>1, <2>2
<1>5. ASSUME NEW f \in Frames, Remove(f) PROVE LRUInv'
  <2>1. /\ node_store' = Without(f) /\ current_timestamp' = current_timestamp
        /\ f \in Tracked => f \in Evictable
        /\ curr_size' = IF f \in Tracked THEN curr_size - 1 ELSE curr_size
    BY <1>5 DEF Remove
  <2>2. StoreOK(node_store', current_timestamp') /\ Evictable' = Evictable \ {f}
    BY <2>1, WithoutKeeps
  <2>3. curr_size' = Cardinality(Evictable')
    <3>1. CASE f \in Tracked
      BY <1>1, <2>1, <2>2, <3>1, OneLess
    <3>2. CASE f \notin Tracked
      <4>1. Evictable \ {f} = Evictable
        BY <3>2 DEF Evictable
      <4> QED BY <1>1, <2>1, <2>2, <3>2, <4>1
    <3> QED BY <3>1, <3>2
  <2> QED BY <1>1, <2>1, <2>2, <2>3, NextInv
<1>6. CASE UNCHANGED lruVars
  BY <1>6 DEF lruVars, LRUInv, Tracked, Evictable
<1> QED BY <1>2, <1>3, <1>4, <1>5, <1>6 DEF Next

THEOREM LRUInvariant == Spec => []LRUInv
<1> QED BY LRUInvInit, LRUInvNext, PTL DEF Spec

\* The one pass over the frames finds the frame whose k-th last access is furthest back,
\* whatever frames and k, and it finds one whenever there is one (LRUKReplacer::Evict).
THEOREM EvictIsLRUK == Spec => []EvictPicksLRUK
<1> QED BY LRUInvariant, VictimIsLRUK, PTL

-----------------------------------------------------------------------------
(* LRU-K is a Replacer. *)

View == [tracked |-> Tracked, evictable |-> Evictable, size |-> curr_size]

NextView == View' = [tracked |-> Tracked', evictable |-> Evictable', size |-> curr_size']

LEMMA ViewNext == NextView
BY DEF NextView, View

LEMMA AccessImplements ==
  ASSUME LRUInv, NEW f \in Frames, RecordAccess(f)
  PROVE  Policy!AccessFrame(f)
<1>1. Tracked' = Tracked \cup {f} /\ Evictable' = Evictable /\ curr_size' = curr_size
  BY AccessKeeps
<1>2. View' = [View EXCEPT !.tracked = @ \cup {f}]
  BY <1>1, ViewNext DEF NextView, View
<1> QED BY <1>2 DEF Policy!AccessFrame, Policy!RecordAccess, View

LEMMA FlagImplements ==
  ASSUME LRUInv, NEW f \in Frames, NEW flag \in BOOLEAN, SetEvictable(f, flag)
  PROVE  Policy!FlagFrame(f, flag)
<1>1. CASE f \in Tracked /\ node_store[f].evictable # flag
  <2>1. /\ Tracked' = Tracked /\ Evictable' = Flagged(f, flag)
        /\ curr_size' = IF flag THEN curr_size + 1 ELSE curr_size - 1
    BY <1>1, FlagKeeps
  <2>2. f \in Tracked /\ (f \in Evictable) # flag
    BY <1>1 DEF LRUInv, NodeOK, Evictable
  <2>3. View' = IF flag THEN [View EXCEPT !.evictable = @ \cup {f}, !.size = @ + 1]
                ELSE [View EXCEPT !.evictable = @ \ {f}, !.size = @ - 1]
    BY <2>1, ViewNext DEF NextView, View, Flagged
  <2>4. f \in View.tracked /\ (f \in View.evictable) # flag
    BY <2>2 DEF View
  <2> QED BY <2>3, <2>4 DEF Policy!FlagFrame, Policy!SetEvictable, View
<1>2. CASE ~(f \in Tracked /\ node_store[f].evictable # flag)
  <2>1. View' = View
    BY <1>2 DEF SetEvictable, View, Tracked, Evictable
  <2>2. f \notin View.tracked \/ (f \in View.evictable) = flag
    BY <1>2 DEF LRUInv, NodeOK, Evictable, View
  <2> QED BY <2>1, <2>2 DEF Policy!FlagFrame, Policy!SetEvictable, View
<1> QED BY <1>1, <1>2

LEMMA EvictImplements ==
  ASSUME LRUInv, Evict
  PROVE  \E f \in Frames : Policy!EvictFrame(f)
<1>1. /\ Scan.frame \in Evictable /\ curr_size # 0 /\ curr_size' = curr_size - 1
      /\ Tracked' = Tracked \ {Scan.frame} /\ Evictable' = Evictable \ {Scan.frame}
  BY EvictForgets, WithoutKeeps DEF Evict
<1>2. Scan.frame \in Frames
  BY <1>1, EvictableFinite DEF LRUInv
<1>3. View' = [tracked |-> View.tracked \ {Scan.frame}, evictable |-> View.evictable \ {Scan.frame},
               size |-> View.size - 1]
  BY <1>1, ViewNext DEF NextView, View
<1>4. Scan.frame \in View.evictable /\ View.size # 0
  BY <1>1 DEF View
<1>5. Policy!EvictFrame(Scan.frame)
  BY <1>3, <1>4 DEF Policy!EvictFrame, Policy!Victims, Policy!Forget, View
<1> QED BY <1>2, <1>5

LEMMA RemoveImplements ==
  ASSUME LRUInv, NEW f \in Frames, Remove(f)
  PROVE  Policy!RemoveFrame(f)
<1>1. /\ node_store' = Without(f) /\ current_timestamp' = current_timestamp
      /\ f \in Tracked => f \in Evictable
      /\ curr_size' = IF f \in Tracked THEN curr_size - 1 ELSE curr_size
  BY DEF Remove
<1>2. Tracked' = Tracked \ {f} /\ Evictable' = Evictable \ {f} /\ Evictable \subseteq Tracked
  BY <1>1, WithoutKeeps DEF Evictable
<1>3. View' = IF f \in View.tracked
              THEN [tracked |-> View.tracked \ {f}, evictable |-> View.evictable \ {f},
                    size |-> View.size - 1]
              ELSE View
  <2>1. CASE f \in Tracked
    BY <2>1, <1>1, <1>2, ViewNext DEF NextView, View
  <2>2. CASE f \notin Tracked
    <3>1. Tracked' = Tracked /\ Evictable' = Evictable
      BY <1>2, <2>2
    <3> QED BY <2>2, <1>1, <3>1, ViewNext DEF NextView, View
  <2> QED BY <2>1, <2>2
<1>4. f \in View.tracked => f \in View.evictable
  BY <1>1 DEF View
<1> QED BY <1>3, <1>4 DEF Policy!RemoveFrame, Policy!Remove, Policy!Forget, View

LEMMA StepImplements == LRUInv /\ [Next]_lruVars => [Policy!ReplacerNext]_View
<1> SUFFICES ASSUME LRUInv, [Next]_lruVars PROVE Policy!ReplacerNext \/ UNCHANGED View
  OBVIOUS
<1>1. CASE Evict
  BY <1>1, EvictImplements DEF Policy!ReplacerNext
<1>2. ASSUME NEW f \in Frames, RecordAccess(f) PROVE Policy!ReplacerNext
  BY <1>2, AccessImplements DEF Policy!ReplacerNext
<1>3. ASSUME NEW f \in Frames, NEW flag \in BOOLEAN, SetEvictable(f, flag)
      PROVE  Policy!ReplacerNext
  BY <1>3, FlagImplements DEF Policy!ReplacerNext
<1>4. ASSUME NEW f \in Frames, Remove(f) PROVE Policy!ReplacerNext
  BY <1>4, RemoveImplements DEF Policy!ReplacerNext
<1>5. CASE UNCHANGED lruVars
  BY <1>5 DEF lruVars, View, Tracked, Evictable
<1> QED BY <1>1, <1>2, <1>3, <1>4, <1>5 DEF Next

LEMMA InitImplements == Init => Policy!ReplacerInit
BY DEF Init, Policy!ReplacerInit, Policy!EmptyReplacer, Tracked, Evictable

\* LRU-K is a Replacer, for any pool and any k: whatever is proved of a pool on top of
\* Replacer holds of the pool on top of LRUKReplacer.
THEOREM LRUKImplementsReplacer == Spec => ImplementsReplacer
<1>1. LRUInv /\ [Next]_lruVars => [Policy!ReplacerNext]_View
  BY StepImplements
<1> QED
  BY <1>1, InitImplements, LRUInvariant, PTL
  DEF Spec, ImplementsReplacer, Policy!ReplacerSpec, View
=============================================================================
