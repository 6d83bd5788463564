-------------------------- MODULE TicketSalesProofs --------------------------
(***************************************************************************)
(* What buying, queueing and refunding promise, for any trains, users,     *)
(* legs, party sizes and page sizes: the chains of pages stay sorted, the  *)
(* queues hold exactly the pending orders, seats are neither lost nor sold *)
(* twice, nobody waits in vain, and a customer sees TicketOffice.          *)
(***************************************************************************)
EXTENDS TicketSales, FiniteSetTheorems, SequenceTheorems, WellFoundedInduction, NaturalsInduction, TLAPS

-----------------------------------------------------------------------------
(* Chains of pages. *)

LEMMA MinNat ==
  ASSUME NEW S \in SUBSET Nat, S # {}
  PROVE  Min(S) \in S /\ \A y \in S : Min(S) <= y
<1>1. PICK x \in S : \A y \in S : ~ (<<y, x>> \in OpToRel(<, Nat))
  BY NatLessThanWellFounded, WFMin
<1>2. \A y \in S : ~ (y < x)
  BY <1>1 DEF OpToRel
<1>3. \A y \in S : x <= y
  BY <1>2
<1> QED BY <1>3 DEF Min

LEMMA InEntries ==
  ASSUME NEW pages, NEW e
  PROVE  e \in Entries(pages) <=> \E p \in DOMAIN pages : \E j \in DOMAIN pages[p] : e = pages[p][j]
BY DEF Entries

LEMMA Shape ==
  ASSUME NEW T, NEW size \in Nat, NEW pages, PagesOf(pages, T, size)
  PROVE  /\ DOMAIN pages = 1 .. Len(pages) /\ Len(pages) \in Nat
         /\ \A p \in DOMAIN pages : /\ p \in Int /\ pages[p] \in Seq(T)
                                    /\ DOMAIN pages[p] = 1 .. Len(pages[p])
                                    /\ Len(pages[p]) \in 1 .. size
                                    /\ \A j \in DOMAIN pages[p] : j \in Int /\ pages[p][j] \in T
         /\ Entries(pages) \subseteq T
BY DEF PagesOf, Entries

\* Changing one entry, but not its timestamp.
Rewritten(pages, p, j, e) == [pages EXCEPT ![p][j] = e]

IsRewritten(new, pages, p, j, e) ==
  /\ DOMAIN new = DOMAIN pages /\ Len(new) = Len(pages)
  /\ \A q \in DOMAIN pages : /\ DOMAIN new[q] = DOMAIN pages[q]
                             /\ Len(new[q]) = Len(pages[q])
                             /\ \A i \in DOMAIN pages[q] :
                                  /\ new[q][i] = IF q = p /\ i = j THEN e ELSE pages[q][i]
                                  /\ new[q][i].timestamp = pages[q][i].timestamp

LEMMA Rewrite ==
  ASSUME NEW T, NEW size \in Nat, NEW pages, PagesOf(pages, T, size),
         NEW p \in DOMAIN pages, NEW j \in DOMAIN pages[p],
         NEW e \in T, e.timestamp = pages[p][j].timestamp
  PROVE  /\ PagesOf(Rewritten(pages, p, j, e), T, size)
         /\ IsRewritten(Rewritten(pages, p, j, e), pages, p, j, e)
<1> DEFINE new == Rewritten(pages, p, j, e)
<1>1. [pages[p] EXCEPT ![j] = e] \in Seq(T) /\ Len([pages[p] EXCEPT ![j] = e]) = Len(pages[p])
  BY Shape
<1>2. new = [pages EXCEPT ![p] = [pages[p] EXCEPT ![j] = e]]
  BY Shape DEF Rewritten
<1>3. new \in Seq(Seq(T)) /\ Len(new) = Len(pages) /\ DOMAIN new = DOMAIN pages
  BY <1>1, <1>2 DEF PagesOf
<1>4. \A q \in DOMAIN pages : new[q] = IF q = p THEN [pages[p] EXCEPT ![j] = e] ELSE pages[q]
  BY <1>2, Shape
<1>5. \A q \in DOMAIN pages : /\ DOMAIN new[q] = DOMAIN pages[q]
                              /\ Len(new[q]) = Len(pages[q])
  BY <1>1, <1>4, Shape
<1>6. \A q \in DOMAIN pages : \A i \in DOMAIN pages[q] :
        new[q][i] = IF q = p /\ i = j THEN e ELSE pages[q][i]
  BY <1>4, Shape
<1>7. PagesOf(new, T, size)
  BY <1>3, <1>5, Shape DEF PagesOf
<1> QED BY <1>3, <1>5, <1>6, <1>7 DEF IsRewritten

LEMMA RewriteEntries ==
  ASSUME NEW T, NEW size \in Nat, NEW pages, PagesOf(pages, T, size),
         NEW p \in DOMAIN pages, NEW j \in DOMAIN pages[p],
         NEW e \in T, e.timestamp = pages[p][j].timestamp,
         \A q \in DOMAIN pages : \A i \in DOMAIN pages[q] :
           pages[q][i] = pages[p][j] => q = p /\ i = j
  PROVE  Entries(Rewritten(pages, p, j, e)) = (Entries(pages) \ {pages[p][j]}) \cup {e}
<1> DEFINE new == Rewritten(pages, p, j, e)
<1> DEFINE old == pages[p][j]
<1>1. /\ DOMAIN new = DOMAIN pages
      /\ \A q \in DOMAIN pages : /\ DOMAIN new[q] = DOMAIN pages[q]
                                 /\ \A i \in DOMAIN pages[q] :
                                      new[q][i] = IF q = p /\ i = j THEN e ELSE pages[q][i]
  <2>1. IsRewritten(new, pages, p, j, e)
    BY Rewrite
  <2> QED BY <2>1 DEF IsRewritten
<1>2. ASSUME NEW x \in Entries(new) PROVE x \in (Entries(pages) \ {old}) \cup {e}
  <2>1. PICK q \in DOMAIN new : \E i \in DOMAIN new[q] : x = new[q][i]
    BY <1>2 DEF Entries
  <2>2. PICK i \in DOMAIN new[q] : x = new[q][i]
    BY <2>1
  <2> QED BY <1>1, <2>2, InEntries
<1>3. ASSUME NEW x \in Entries(pages), x # old PROVE x \in Entries(new)
  <2>1. PICK q \in DOMAIN pages : \E i \in DOMAIN pages[q] : x = pages[q][i]
    BY <1>3, InEntries
  <2>2. PICK i \in DOMAIN pages[q] : x = pages[q][i]
    BY <2>1
  <2>3. x = new[q][i]
    BY <1>1, <1>3, <2>2
  <2> QED BY <1>1, <2>3, InEntries
<1>4. e \in Entries(new)
  BY <1>1, InEntries
<1> QED BY <1>2, <1>3, <1>4

Stamped(T) == \A e \in T : e.timestamp \in Nat

Sorted(pages) == OldestFirst(pages) \/ NewestFirst(pages)

LEMMA OneStamp ==
  ASSUME NEW T, NEW size \in Nat, NEW pages, PagesOf(pages, T, size), Stamped(T), Sorted(pages),
         NEW p \in DOMAIN pages, NEW q \in DOMAIN pages,
         NEW i \in DOMAIN pages[p], NEW j \in DOMAIN pages[q],
         pages[p][i].timestamp = pages[q][j].timestamp
  PROVE  p = q /\ i = j
<1>1. /\ p \in Int /\ q \in Int /\ i \in Int /\ j \in Int
      /\ pages[p][i].timestamp \in Nat
  <2>1. \A r \in DOMAIN pages : r \in Int /\ \A x \in DOMAIN pages[r] : x \in Int /\ pages[r][x] \in T
    BY Shape
  <2> QED BY <2>1 DEF Stamped
<1>2. ~Older(pages, p, i, q, j) /\ ~Older(pages, q, j, p, i)
  BY <1>1 DEF Older
<1>3. CASE OldestFirst(pages)
  <2>1. ~(p < q) /\ ~(q < p)
    BY <1>2, <1>3 DEF OldestFirst
  <2>2. p = q
    BY <1>1, <2>1
  <2>3. ~(i < j) /\ ~(j < i)
    BY <1>2, <1>3, <2>2 DEF OldestFirst
  <2> QED BY <1>1, <2>2, <2>3
<1>4. CASE NewestFirst(pages)
  <2>1. ~(p < q) /\ ~(q < p)
    BY <1>2, <1>4 DEF NewestFirst
  <2>2. p = q
    BY <1>1, <2>1
  <2>3. ~(i < j) /\ ~(j < i)
    BY <1>2, <1>4, <2>2 DEF NewestFirst
  <2> QED BY <1>1, <2>2, <2>3
<1> QED BY <1>3, <1>4 DEF Sorted

\* In a sorted chain a timestamp names one entry.
LEMMA StampNames ==
  ASSUME NEW T, NEW size \in Nat, NEW pages, PagesOf(pages, T, size), Stamped(T), Sorted(pages),
         NEW e \in Entries(pages), NEW f \in Entries(pages), e.timestamp = f.timestamp
  PROVE  e = f
<1>1. PICK p, i : p \in DOMAIN pages /\ i \in DOMAIN pages[p] /\ e = pages[p][i]
  BY DEF Entries
<1>2. PICK q, j : q \in DOMAIN pages /\ j \in DOMAIN pages[q] /\ f = pages[q][j]
  BY DEF Entries
<1> QED BY <1>1, <1>2, OneStamp

LEMMA RewriteSorted ==
  ASSUME NEW T, NEW size \in Nat, NEW pages, PagesOf(pages, T, size),
         NEW p \in DOMAIN pages, NEW j \in DOMAIN pages[p],
         NEW e \in T, e.timestamp = pages[p][j].timestamp
  PROVE  /\ OldestFirst(pages) => OldestFirst(Rewritten(pages, p, j, e))
         /\ NewestFirst(pages) => NewestFirst(Rewritten(pages, p, j, e))
<1> DEFINE new == Rewritten(pages, p, j, e)
<1>1. /\ DOMAIN new = DOMAIN pages
      /\ \A q \in DOMAIN pages : /\ DOMAIN new[q] = DOMAIN pages[q]
                                 /\ \A i \in DOMAIN pages[q] : new[q][i].timestamp = pages[q][i].timestamp
  <2>1. IsRewritten(new, pages, p, j, e)
    BY Rewrite
  <2> QED BY <2>1 DEF IsRewritten
<1>2. ASSUME OldestFirst(pages) PROVE OldestFirst(new)
  BY <1>1, <1>2 DEF OldestFirst, Older
<1>3. ASSUME NewestFirst(pages) PROVE NewestFirst(new)
  BY <1>1, <1>3 DEF NewestFirst, Older
<1> QED BY <1>2, <1>3

\* A new entry at the end of the last page, or of the first one.
Grown(pages, p, e) == [pages EXCEPT ![p] = Append(pages[p], e)]

IsGrown(new, pages, p, e) ==
  /\ DOMAIN new = DOMAIN pages /\ Len(new) = Len(pages)
  /\ \A q \in DOMAIN pages : q # p => new[q] = pages[q]
  /\ DOMAIN new[p] = 1 .. Len(pages[p]) + 1
  /\ \A i \in DOMAIN pages[p] : new[p][i] = pages[p][i]
  /\ new[p][Len(pages[p]) + 1] = e
  /\ Entries(new) = Entries(pages) \cup {e}

LEMMA GrowPage ==
  ASSUME NEW T, NEW size \in Nat, NEW pages, PagesOf(pages, T, size),
         NEW p \in DOMAIN pages, Len(pages[p]) < size, NEW e \in T
  PROVE  /\ PagesOf(Grown(pages, p, e), T, size)
         /\ IsGrown(Grown(pages, p, e), pages, p, e)
<1> DEFINE new == Grown(pages, p, e)
<1>0. /\ pages[p] \in Seq(T) /\ Len(pages[p]) \in Nat /\ DOMAIN pages[p] = 1 .. Len(pages[p])
  BY Shape
<1> DEFINE page == Append(pages[p], e)
<1>1. /\ page \in Seq(T) /\ Len(page) = Len(pages[p]) + 1 /\ DOMAIN page = 1 .. Len(pages[p]) + 1
      /\ \A i \in DOMAIN pages[p] : page[i] = pages[p][i]
      /\ page[Len(pages[p]) + 1] = e
  BY <1>0
<1>2. new = [pages EXCEPT ![p] = page]
  BY DEF page, Grown
<1> HIDE DEF page
<1>3. new \in Seq(Seq(T)) /\ Len(new) = Len(pages) /\ DOMAIN new = DOMAIN pages
  BY <1>1, <1>2 DEF PagesOf
<1>4. new[p] = page /\ \A q \in DOMAIN pages : q # p => new[q] = pages[q]
  BY <1>2, Shape
<1>5. \A q \in DOMAIN new : Len(new[q]) \in 1 .. size
  <2>1. \A q \in DOMAIN pages : Len(pages[q]) \in 1 .. size
    BY DEF PagesOf
  <2>2. Len(new[p]) \in 1 .. size
    BY <2>1, <1>0, <1>1, <1>4
  <2> QED BY <2>1, <2>2, <1>3, <1>4
<1>6. PagesOf(new, T, size)
  BY <1>3, <1>5 DEF PagesOf
<1>7. ASSUME NEW x \in Entries(new) PROVE x \in Entries(pages) \cup {e}
  <2>1. PICK q, i : q \in DOMAIN new /\ i \in DOMAIN new[q] /\ x = new[q][i]
    BY DEF Entries
  <2>2. CASE q # p
    BY <2>1, <2>2, <1>3, <1>4 DEF Entries
  <2>3. CASE q = p /\ i \in DOMAIN pages[p]
    BY <2>1, <2>3, <1>1, <1>4 DEF Entries
  <2>4. CASE q = p /\ i \notin DOMAIN pages[p]
    BY <2>1, <2>4, <1>0, <1>1, <1>4
  <2> QED BY <2>2, <2>3, <2>4
<1>8. ASSUME NEW x \in Entries(pages) PROVE x \in Entries(new)
  <2>1. PICK q, i : q \in DOMAIN pages /\ i \in DOMAIN pages[q] /\ x = pages[q][i]
    BY DEF Entries
  <2>2. CASE q # p
    BY <2>1, <2>2, <1>3, <1>4 DEF Entries
  <2>3. CASE q = p
    <3>1. i \in DOMAIN new[p] /\ x = new[p][i]
      BY <2>1, <2>3, <1>0, <1>1, <1>4
    <3> QED BY <3>1, <1>3 DEF Entries
  <2> QED BY <2>2, <2>3
<1>9. e \in Entries(new)
  <2>1. Len(pages[p]) + 1 \in DOMAIN new[p] /\ e = new[p][Len(pages[p]) + 1]
    BY <1>0, <1>1, <1>4
  <2> QED BY <2>1, <1>3 DEF Entries
<1>10. Entries(new) = Entries(pages) \cup {e}
  BY <1>7, <1>8, <1>9
<1> HIDE DEF new
<1>11. IsGrown(new, pages, p, e)
  BY <1>0, <1>1, <1>3, <1>4, <1>10 DEF IsGrown
<1> QED BY <1>6, <1>11 DEF new

-----------------------------------------------------------------------------
(* The orders of a user. *)

LEMMA AppendOrderKeeps ==
  ASSUME NEW T, NEW pages, PagesOf(pages, T, OrderPageSize), Stamped(T),
         NewestFirst(pages), NEW order \in T,
         \A e \in Entries(pages) : e.timestamp < order.timestamp
  PROVE  /\ PagesOf(AppendOrder(pages, order), T, OrderPageSize)
         /\ Entries(AppendOrder(pages, order)) = Entries(pages) \cup {order}
         /\ NewestFirst(AppendOrder(pages, order))
<1> DEFINE new == AppendOrder(pages, order)
<1>0. OrderPageSize \in Nat /\ OrderPageSize >= 1
  BY SalesAssumption
<1>1. CASE pages = <<>> \/ Len(pages[1]) = OrderPageSize
  <2>1. new = <<<<order>>>> \o pages
    BY <1>1 DEF AppendOrder
  <2>2. <<order>> \in Seq(T) /\ <<<<order>>>> \in Seq(Seq(T)) /\ Len(<<order>>) = 1
    OBVIOUS
  <2>3. new \in Seq(Seq(T)) /\ Len(new) = Len(pages) + 1
    BY <2>1, <2>2 DEF PagesOf
  <2>4. new[1] = <<order>> /\ \A p \in DOMAIN pages : new[p + 1] = pages[p]
    BY <2>1, <2>2, Shape, <1>0 DEF PagesOf
  <2>5. /\ DOMAIN new = 1 .. Len(pages) + 1 /\ DOMAIN pages = 1 .. Len(pages) /\ Len(pages) \in Nat
        /\ DOMAIN new[1] = {1} /\ new[1][1] = order
    BY <2>3, <2>4, Shape, <1>0
  <2> HIDE DEF new
  <2>6. \A p \in DOMAIN new : p = 1 \/ (p - 1 \in DOMAIN pages /\ new[p] = pages[p - 1])
    BY <2>4, <2>5
  <2>7. PagesOf(new, T, OrderPageSize)
    <3>0. \A p \in DOMAIN pages : Len(pages[p]) \in 1 .. OrderPageSize
      BY DEF PagesOf
    <3>1. ASSUME NEW p \in DOMAIN new PROVE Len(new[p]) \in 1 .. OrderPageSize
      <4>1. CASE p = 1
        BY <4>1, <2>2, <2>4, <1>0
      <4>2. CASE p # 1
        BY <4>2, <2>6, <3>0
      <4> QED BY <4>1, <4>2
    <3> QED BY <3>1, <2>3 DEF PagesOf
  <2>8. Entries(new) = Entries(pages) \cup {order}
    <3>1. ASSUME NEW x \in Entries(new) PROVE x \in Entries(pages) \cup {order}
      <4>1. PICK p, j : p \in DOMAIN new /\ j \in DOMAIN new[p] /\ x = new[p][j]
        BY DEF Entries
      <4> QED BY <4>1, <2>5, <2>6 DEF Entries
    <3>2. ASSUME NEW x \in Entries(pages) PROVE x \in Entries(new)
      <4>1. PICK p, j : p \in DOMAIN pages /\ j \in DOMAIN pages[p] /\ x = pages[p][j]
        BY DEF Entries
      <4>2. p + 1 \in DOMAIN new /\ j \in DOMAIN new[p + 1] /\ x = new[p + 1][j]
        BY <4>1, <2>4, <2>5
      <4> QED BY <4>2 DEF Entries
    <3>3. order \in Entries(new)
      BY <2>5 DEF Entries
    <3> QED BY <3>1, <3>2, <3>3
  <2>9. NewestFirst(new)
    <3> SUFFICES ASSUME NEW p \in DOMAIN new, NEW q \in DOMAIN new,
                        NEW i \in DOMAIN new[p], NEW j \in DOMAIN new[q],
                        q < p \/ (p = q /\ i < j)
                 PROVE  Older(new, p, i, q, j)
      BY DEF NewestFirst
    <3>1. CASE q = 1
      <4>1. p # 1 /\ p - 1 \in DOMAIN pages /\ new[p] = pages[p - 1]
        BY <3>1, <2>5, <2>6
      <4>2. new[p][i] \in Entries(pages)
        BY <4>1 DEF Entries
      <4>3. new[q][j] = order
        BY <3>1, <2>5
      <4> QED BY <4>2, <4>3 DEF Older
    <3>2. CASE q # 1
      <4>1. p # 1 /\ p \in Int /\ q \in Int
        BY <3>2, <2>5
      <4>2. /\ p - 1 \in DOMAIN pages /\ new[p] = pages[p - 1]
            /\ q - 1 \in DOMAIN pages /\ new[q] = pages[q - 1]
        BY <3>2, <4>1, <2>6
      <4>3. q - 1 < p - 1 \/ (p - 1 = q - 1 /\ i < j)
        BY <4>1
      <4>4. Older(pages, p - 1, i, q - 1, j)
        BY <4>2, <4>3 DEF NewestFirst
      <4> QED BY <4>2, <4>4 DEF Older
    <3> QED BY <3>1, <3>2
  <2> QED BY <2>7, <2>8, <2>9 DEF new
<1>2. CASE pages # <<>> /\ Len(pages[1]) # OrderPageSize
  <2>1. new = Grown(pages, 1, order)
    BY <1>2 DEF AppendOrder, Grown, new
  <2>2. 1 \in DOMAIN pages /\ Len(pages[1]) < OrderPageSize
    <3>1. Len(pages) # 0
      BY <1>2 DEF PagesOf
    <3>2. DOMAIN pages = 1 .. Len(pages) /\ Len(pages) \in Nat
      BY DEF PagesOf
    <3>3. 1 \in DOMAIN pages
      BY <3>1, <3>2
    <3>4. Len(pages[1]) \in 1 .. OrderPageSize
      BY <3>3 DEF PagesOf
    <3> QED BY <3>3, <3>4, <1>0, <1>2
  <2> HIDE DEF new
  <2>3. PagesOf(new, T, OrderPageSize) /\ IsGrown(new, pages, 1, order)
    BY <2>1, <2>2, <1>0, GrowPage
  <2>4. Len(pages[1]) \in Nat /\ DOMAIN pages[1] = 1 .. Len(pages[1]) /\ DOMAIN pages = 1 .. Len(pages)
    BY <2>2, Shape, <1>0
  <2>5. NewestFirst(new)
    <3> SUFFICES ASSUME NEW p \in DOMAIN new, NEW q \in DOMAIN new,
                        NEW i \in DOMAIN new[p], NEW j \in DOMAIN new[q],
                        q < p \/ (p = q /\ i < j)
                 PROVE  Older(new, p, i, q, j)
      BY DEF NewestFirst
    <3>1. p \in DOMAIN pages /\ i \in DOMAIN pages[p] /\ new[p][i] = pages[p][i]
      <4>1. p # 1 \/ (p = 1 /\ i \in DOMAIN pages[1])
        BY <2>3, <2>4 DEF IsGrown
      <4> QED BY <4>1, <2>3 DEF IsGrown
    <3>2. CASE q # 1 \/ (q = 1 /\ j \in DOMAIN pages[1])
      <4>1. q \in DOMAIN pages /\ j \in DOMAIN pages[q] /\ new[q][j] = pages[q][j]
        BY <3>2, <2>3 DEF IsGrown
      <4>2. Older(pages, p, i, q, j)
        BY <3>1, <4>1 DEF NewestFirst
      <4> QED BY <3>1, <4>1, <4>2 DEF Older
    <3>3. CASE q = 1 /\ j \notin DOMAIN pages[1]
      <4>1. new[q][j] = order
        BY <3>3, <2>3, <2>4 DEF IsGrown
      <4>2. new[p][i] \in Entries(pages)
        BY <3>1 DEF Entries
      <4> QED BY <4>1, <4>2 DEF Older
    <3> QED BY <3>2, <3>3
  <2> QED BY <2>3, <2>5 DEF new, IsGrown
<1> QED BY <1>1, <1>2 DEF PagesOf

LEMMA EnqueuedKeeps ==
  ASSUME NEW T, NEW pages, PagesOf(pages, T, WaitPageSize), Stamped(T),
         OldestFirst(pages), NEW info \in T,
         \A e \in Entries(pages) : e.timestamp < info.timestamp
  PROVE  /\ PagesOf(Enqueued(pages, info), T, WaitPageSize)
         /\ Entries(Enqueued(pages, info)) = Entries(pages) \cup {info}
         /\ OldestFirst(Enqueued(pages, info))
<1> DEFINE new == Enqueued(pages, info)
<1>0. WaitPageSize \in Nat /\ WaitPageSize >= 1
  BY SalesAssumption
<1>1. CASE pages = <<>> \/ Len(Last(pages)) = WaitPageSize
  <2>1. new = Append(pages, <<info>>)
    BY <1>1 DEF Enqueued
  <2>2. <<info>> \in Seq(T) /\ Len(<<info>>) = 1
    OBVIOUS
  <2>3. pages \in Seq(Seq(T)) /\ DOMAIN pages = 1 .. Len(pages) /\ Len(pages) \in Nat
    BY Shape, <1>0 DEF PagesOf
  <2>4. new \in Seq(Seq(T)) /\ DOMAIN new = 1 .. Len(pages) + 1
    BY <2>1, <2>2, <2>3
  <2>5. new[Len(pages) + 1] = <<info>> /\ \A p \in DOMAIN pages : new[p] = pages[p]
    BY <2>1, <2>2, <2>3
  <2>6. DOMAIN new[Len(pages) + 1] = {1} /\ new[Len(pages) + 1][1] = info
    BY <2>5
  <2> HIDE DEF new
  <2>7. \A p \in DOMAIN new : p = Len(pages) + 1 \/ (p \in DOMAIN pages /\ new[p] = pages[p])
    BY <2>3, <2>4, <2>5
  <2>8. PagesOf(new, T, WaitPageSize)
    <3>1. \A p \in DOMAIN pages : Len(pages[p]) \in 1 .. WaitPageSize
      BY DEF PagesOf
    <3>2. ASSUME NEW p \in DOMAIN new PROVE Len(new[p]) \in 1 .. WaitPageSize
      <4>1. CASE p = Len(pages) + 1
        BY <4>1, <2>2, <2>5, <1>0
      <4>2. CASE p # Len(pages) + 1
        BY <4>2, <2>7, <3>1
      <4> QED BY <4>1, <4>2
    <3> QED BY <3>2, <2>4 DEF PagesOf
  <2>9. Entries(new) = Entries(pages) \cup {info}
    <3>1. ASSUME NEW x \in Entries(new) PROVE x \in Entries(pages) \cup {info}
      <4>1. PICK p, j : p \in DOMAIN new /\ j \in DOMAIN new[p] /\ x = new[p][j]
        BY DEF Entries
      <4> QED BY <4>1, <2>6, <2>7 DEF Entries
    <3>2. ASSUME NEW x \in Entries(pages) PROVE x \in Entries(new)
      <4>1. PICK p, j : p \in DOMAIN pages /\ j \in DOMAIN pages[p] /\ x = pages[p][j]
        BY DEF Entries
      <4>2. p \in DOMAIN new /\ j \in DOMAIN new[p] /\ x = new[p][j]
        BY <4>1, <2>3, <2>4, <2>5
      <4> QED BY <4>2 DEF Entries
    <3>3. Len(pages) + 1 \in DOMAIN new
      BY <2>3, <2>4
    <3>4. info \in Entries(new)
      BY <2>6, <3>3 DEF Entries
    <3> QED BY <3>1, <3>2, <3>4
  <2>10. OldestFirst(new)
    <3> SUFFICES ASSUME NEW p \in DOMAIN new, NEW q \in DOMAIN new,
                        NEW i \in DOMAIN new[p], NEW j \in DOMAIN new[q],
                        p < q \/ (p = q /\ i < j)
                 PROVE  Older(new, p, i, q, j)
      BY DEF OldestFirst
    <3>1. p # Len(pages) + 1 /\ p \in DOMAIN pages /\ new[p] = pages[p]
      BY <2>3, <2>4, <2>6, <2>7
    <3>2. CASE q = Len(pages) + 1
      <4>1. new[p][i] \in Entries(pages)
        BY <3>1 DEF Entries
      <4>2. new[q][j] = info
        BY <3>2, <2>6
      <4> QED BY <4>1, <4>2 DEF Older
    <3>3. CASE q # Len(pages) + 1
      <4>1. q \in DOMAIN pages /\ new[q] = pages[q]
        BY <3>3, <2>7
      <4>2. Older(pages, p, i, q, j)
        BY <3>1, <4>1 DEF OldestFirst
      <4> QED BY <3>1, <4>1, <4>2 DEF Older
    <3> QED BY <3>2, <3>3
  <2> QED BY <2>8, <2>9, <2>10 DEF new
<1>2. CASE pages # <<>> /\ Len(Last(pages)) # WaitPageSize
  <2> DEFINE l == Len(pages)
  <2>1. new = Grown(pages, l, info)
    BY <1>2 DEF Enqueued, Grown, new
  <2>2. l \in DOMAIN pages /\ Len(pages[l]) < WaitPageSize /\ l \in Nat /\ DOMAIN pages = 1 .. l
    <3>1. Len(pages) # 0
      BY <1>2 DEF PagesOf
    <3>2. l \in DOMAIN pages /\ l \in Nat /\ DOMAIN pages = 1 .. l
      BY <3>1, <1>0, Shape
    <3>3. Len(pages[l]) \in 1 .. WaitPageSize
      BY <3>2 DEF PagesOf
    <3> QED BY <3>2, <3>3, <1>0, <1>2 DEF Last
  <2> HIDE DEF new, l
  <2>3. PagesOf(new, T, WaitPageSize) /\ IsGrown(new, pages, l, info)
    BY <2>1, <2>2, <1>0, GrowPage
  <2>4. Len(pages[l]) \in Nat /\ DOMAIN pages[l] = 1 .. Len(pages[l])
    BY <2>2, Shape, <1>0
  <2>5. OldestFirst(new)
    <3> SUFFICES ASSUME NEW p \in DOMAIN new, NEW q \in DOMAIN new,
                        NEW i \in DOMAIN new[p], NEW j \in DOMAIN new[q],
                        p < q \/ (p = q /\ i < j)
                 PROVE  Older(new, p, i, q, j)
      BY DEF OldestFirst
    <3>0. DOMAIN new = 1 .. l
      BY <2>2, <2>3 DEF IsGrown
    <3>1. p \in DOMAIN pages /\ i \in DOMAIN pages[p] /\ new[p][i] = pages[p][i]
      <4>1. CASE p # l
        BY <4>1, <2>3 DEF IsGrown
      <4>2. CASE p = l
        <5>1. q = l
          BY <4>2, <2>2, <3>0
        <5>2. DOMAIN new[l] = 1 .. Len(pages[l]) + 1
          BY <2>3 DEF IsGrown
        <5>3. i < j
          BY <4>2, <5>1, <2>2
        <5>4. i \in DOMAIN pages[l]
          BY <4>2, <5>1, <5>2, <5>3, <2>4
        <5> QED BY <4>2, <5>4, <2>3, <2>2 DEF IsGrown
      <4> QED BY <4>1, <4>2
    <3>2. CASE q # l \/ (q = l /\ j \in DOMAIN pages[l])
      <4>1. q \in DOMAIN pages /\ j \in DOMAIN pages[q] /\ new[q][j] = pages[q][j]
        BY <3>2, <2>3 DEF IsGrown
      <4>2. Older(pages, p, i, q, j)
        BY <3>1, <4>1 DEF OldestFirst
      <4> QED BY <3>1, <4>1, <4>2 DEF Older
    <3>3. CASE q = l /\ j \notin DOMAIN pages[l]
      <4>1. new[q][j] = info
        BY <3>3, <2>3, <2>4 DEF IsGrown
      <4>2. new[p][i] \in Entries(pages)
        BY <3>1 DEF Entries
      <4> QED BY <4>1, <4>2 DEF Older
    <3> QED BY <3>2, <3>3
  <2> QED BY <2>3, <2>5 DEF new, IsGrown
<1> QED BY <1>1, <1>2

\* Nothing anybody waits for is in the pages that go.
IsTidied(new, pages) ==
  /\ Entries(new) \subseteq Entries(pages)
  /\ \A e \in Entries(pages) : e.queue => e \in Entries(new)

LEMMA TidiedKeeps ==
  ASSUME NEW T, NEW pages, PagesOf(pages, T, WaitPageSize), OldestFirst(pages)
  PROVE  /\ PagesOf(WithoutEmptyPages(pages), T, WaitPageSize)
         /\ OldestFirst(WithoutEmptyPages(pages))
         /\ IsTidied(WithoutEmptyPages(pages), pages)
<1> DEFINE kept == {i \in DOMAIN pages : HasQueued(pages[i])}
           new  == WithoutEmptyPages(pages)
<1>0. WaitPageSize \in Nat /\ WaitPageSize >= 1
  BY SalesAssumption
<1>1. pages \in Seq(Seq(T)) /\ DOMAIN pages = 1 .. Len(pages) /\ Len(pages) \in Nat
  BY Shape, <1>0 DEF PagesOf
<1>2. \A p \in DOMAIN pages : Len(pages[p]) \in 1 .. WaitPageSize
  BY DEF PagesOf
<1>3. CASE kept = {}
  <2>1. new = <<>>
    BY <1>3 DEF WithoutEmptyPages
  <2>2. PagesOf(<<>>, T, WaitPageSize) /\ OldestFirst(<<>>) /\ Entries(<<>>) = {}
    BY DEF PagesOf, OldestFirst, Entries
  <2>3. \A e \in Entries(pages) : ~e.queue
    BY <1>3 DEF Entries, HasQueued
  <2> QED BY <2>1, <2>2, <2>3 DEF IsTidied
<1>4. CASE kept # {}
  <2> DEFINE m == Min(kept)
  <2>1. m \in kept /\ \A y \in kept : m <= y
    <3>1. kept \in SUBSET Nat
      BY <1>1
    <3> QED BY <3>1, <1>4, MinNat
  <2>2. new = SubSeq(pages, m, Len(pages))
    BY <1>4 DEF WithoutEmptyPages
  <2>3. m \in Int /\ 1 <= m /\ m <= Len(pages)
    BY <2>1, <1>1
  <2>30. \A y \in DOMAIN pages : HasQueued(pages[y]) => m <= y
    BY <2>1
  <2> HIDE DEF m, kept
  <2>4. /\ new \in Seq(Seq(T)) /\ Len(new) = Len(pages) - m + 1 /\ DOMAIN new = 1 .. Len(pages) - m + 1
        /\ \A p \in DOMAIN new : new[p] = pages[p + m - 1]
    <3>1. /\ new \in Seq(Seq(T))
          /\ Len(new) = IF m <= Len(pages) THEN Len(pages) - m + 1 ELSE 0
          /\ \A p \in 1 .. Len(pages) - m + 1 : new[p] = pages[m + p - 1]
      BY <2>2, <2>3, <1>1, SubSeqProperties
    <3>2. Len(new) = Len(pages) - m + 1 /\ DOMAIN new = 1 .. Len(pages) - m + 1
      BY <3>1, <2>3
    <3> QED BY <3>1, <3>2, <2>3
  <2> HIDE DEF new
  <2>5. ASSUME NEW p \in DOMAIN new
        PROVE  p + m - 1 \in DOMAIN pages /\ new[p] = pages[p + m - 1]
    <3>1. p \in Int /\ 1 <= p /\ p <= Len(pages) - m + 1
      BY <2>3, <2>4, <1>1
    <3>2. p + m - 1 \in Int /\ 1 <= p + m - 1 /\ p + m - 1 <= Len(pages)
      BY <3>1, <2>3, <1>1
    <3> QED BY <3>2, <2>4, <1>1
  <2>6. \A p \in DOMAIN pages : m <= p => p - m + 1 \in DOMAIN new /\ new[p - m + 1] = pages[p]
    <3> SUFFICES ASSUME NEW p \in DOMAIN pages, m <= p
                 PROVE  p - m + 1 \in DOMAIN new /\ new[p - m + 1] = pages[p]
      OBVIOUS
    <3>1. p \in Int /\ 1 <= p /\ p <= Len(pages)
      BY <1>1
    <3>2. /\ p - m + 1 \in Int /\ 1 <= p - m + 1 /\ p - m + 1 <= Len(pages) - m + 1
          /\ (p - m + 1) + m - 1 = p
      BY <3>1, <2>3, <1>1
    <3>3. p - m + 1 \in DOMAIN new
      BY <3>2, <2>3, <2>4, <1>1
    <3> QED BY <3>2, <3>3, <2>4
  <2>7. PagesOf(new, T, WaitPageSize)
    BY <2>4, <2>5, <1>2 DEF PagesOf
  <2>8. IsTidied(new, pages)
    <3>1. ASSUME NEW x \in Entries(new) PROVE x \in Entries(pages)
      <4>1. PICK p, j : p \in DOMAIN new /\ j \in DOMAIN new[p] /\ x = new[p][j]
        BY DEF Entries
      <4> QED BY <4>1, <2>5 DEF Entries
    <3>2. ASSUME NEW x \in Entries(pages), x.queue PROVE x \in Entries(new)
      <4>1. PICK p, j : p \in DOMAIN pages /\ j \in DOMAIN pages[p] /\ x = pages[p][j]
        BY DEF Entries
      <4>2. m <= p
        BY <4>1, <3>2, <2>30 DEF HasQueued
      <4>3. p - m + 1 \in DOMAIN new /\ j \in DOMAIN new[p - m + 1] /\ x = new[p - m + 1][j]
        BY <4>1, <4>2, <2>6
      <4> QED BY <4>3 DEF Entries
    <3> QED BY <3>1, <3>2 DEF IsTidied
  <2>9. OldestFirst(new)
    <3> SUFFICES ASSUME NEW p \in DOMAIN new, NEW q \in DOMAIN new,
                        NEW i \in DOMAIN new[p], NEW j \in DOMAIN new[q],
                        p < q \/ (p = q /\ i < j)
                 PROVE  Older(new, p, i, q, j)
      BY DEF OldestFirst
    <3>1. p \in Int /\ q \in Int /\ m \in Int
      BY <1>1, <2>3, <2>4
    <3> DEFINE a == p + m - 1
               b == q + m - 1
    <3>2. a \in DOMAIN pages /\ new[p] = pages[a]
      BY <2>5
    <3>3. b \in DOMAIN pages /\ new[q] = pages[b]
      BY <2>5
    <3>4. (p < q => a < b) /\ (p = q => a = b)
      BY <3>1
    <3> HIDE DEF a, b
    <3>5. Older(pages, a, i, b, j)
      BY <3>2, <3>3, <3>4 DEF OldestFirst
    <3> QED BY <3>2, <3>3, <3>5 DEF Older
  <2> QED BY <2>7, <2>8, <2>9 DEF new
<1> QED BY <1>3, <1>4

-----------------------------------------------------------------------------
(* The positions of an iterator. *)

LEMMA DivMod ==
  ASSUME NEW W \in Nat, W >= 1, NEW i \in Nat
  PROVE  /\ i \div W \in Nat /\ (i % W) \in 0 .. W - 1
         /\ i = W * (i \div W) + (i % W)
OBVIOUS

LEMMA DivModOf ==
  ASSUME NEW W \in Nat, W >= 1, NEW q \in Nat, NEW r \in 0 .. W - 1
  PROVE  (q * W + r) \div W = q /\ (q * W + r) % W = r
OBVIOUS

LEMMA Multiples ==
  ASSUME NEW W \in Nat, W >= 1, NEW a \in Nat, NEW b \in Nat
  PROVE  a < b <=> W * a + W <= W * b
<1>1. ASSUME a < b PROVE W * a + W <= W * b
  <2>1. PICK c \in Nat : b = a + 1 + c
    <3>1. b - a - 1 \in Nat /\ b = a + 1 + (b - a - 1)
      BY <1>1
    <3> QED BY <3>1
  <2>2. W * b = W * a + W + W * c
    BY <2>1
  <2>3. W * c \in Nat /\ W * a \in Nat
    OBVIOUS
  <2> QED BY <2>2, <2>3
<1>2. ASSUME ~(a < b) PROVE ~(W * a + W <= W * b)
  <2>1. PICK c \in Nat : a = b + c
    <3>1. a - b \in Nat /\ a = b + (a - b)
      BY <1>2
    <3> QED BY <3>1
  <2>2. W * a = W * b + W * c
    BY <2>1
  <2>3. W * c \in Nat /\ W * b \in Nat
    OBVIOUS
  <2> QED BY <2>2, <2>3
<1> QED BY <1>1, <1>2

LEMMA Position ==
  ASSUME NEW i \in Nat, i >= 1
  PROVE  /\ PageOf(i) \in Nat /\ PageOf(i) >= 1 /\ SlotOf(i) \in 1 .. WaitPageSize
         /\ i = WaitPageSize * (PageOf(i) - 1) + SlotOf(i)
<1>1. WaitPageSize \in Nat /\ WaitPageSize >= 1 /\ i - 1 \in Nat
  BY SalesAssumption
<1> DEFINE d == (i - 1) \div WaitPageSize
           r == (i - 1) % WaitPageSize
<1>2. d \in Nat /\ r \in 0 .. WaitPageSize - 1 /\ i - 1 = WaitPageSize * d + r
  BY <1>1, DivMod
<1>3. PageOf(i) = d + 1 /\ SlotOf(i) = r + 1
  BY DEF PageOf, SlotOf
<1> HIDE DEF d, r
<1>4. PageOf(i) - 1 = d
  BY <1>2, <1>3
<1> QED BY <1>1, <1>2, <1>3, <1>4

LEMMA PositionInChain ==
  ASSUME NEW T, NEW pages, PagesOf(pages, T, WaitPageSize), NEW i \in 1 .. Slots(pages)
  PROVE  i \in Nat /\ i >= 1 /\ PageOf(i) \in DOMAIN pages
<1>1. WaitPageSize \in Nat /\ WaitPageSize >= 1
  BY SalesAssumption
<1>2. DOMAIN pages = 1 .. Len(pages) /\ Len(pages) \in Nat
  BY <1>1, Shape
<1>3. Slots(pages) \in Nat /\ Slots(pages) = WaitPageSize * Len(pages)
  BY <1>1, <1>2 DEF Slots
<1>4. i \in Nat /\ i >= 1 /\ i <= Slots(pages)
  BY <1>3
<1>5. PageOf(i) \in Nat /\ PageOf(i) >= 1 /\ SlotOf(i) \in 1 .. WaitPageSize
      /\ i = WaitPageSize * (PageOf(i) - 1) + SlotOf(i)
  BY <1>4, Position
<1>6. PageOf(i) - 1 < Len(pages)
  <2> DEFINE a == PageOf(i) - 1
  <2>1. a \in Nat /\ i = WaitPageSize * a + SlotOf(i)
    BY <1>5
  <2> HIDE DEF a
  <2>2. Len(pages) < a + 1 <=> WaitPageSize * Len(pages) + WaitPageSize <= WaitPageSize * (a + 1)
    BY <2>1, <1>1, <1>2, Multiples
  <2>3. WaitPageSize * (a + 1) = WaitPageSize * a + WaitPageSize
    BY <2>1, <1>1
  <2>4. WaitPageSize * a \in Nat /\ WaitPageSize * Len(pages) \in Nat
    BY <2>1, <1>1, <1>2
  <2>5. ~(WaitPageSize * Len(pages) <= WaitPageSize * a)
    BY <2>1, <2>4, <1>3, <1>4, <1>5
  <2>6. ~(Len(pages) < a + 1)
    BY <2>2, <2>3, <2>4, <2>5, <1>1
  <2> QED BY <2>6, <2>1, <1>2 DEF a
<1> QED BY <1>2, <1>4, <1>5, <1>6

LEMMA PositionOf ==
  ASSUME NEW T, NEW pages, PagesOf(pages, T, WaitPageSize),
         NEW p \in DOMAIN pages, NEW j \in DOMAIN pages[p]
  PROVE  \E n \in 1 .. Slots(pages) : PageOf(n) = p /\ SlotOf(n) = j
<1>1. WaitPageSize \in Nat /\ WaitPageSize >= 1
  BY SalesAssumption
<1>2. /\ DOMAIN pages = 1 .. Len(pages) /\ Len(pages) \in Nat
      /\ Len(pages[p]) \in 1 .. WaitPageSize /\ DOMAIN pages[p] = 1 .. Len(pages[p])
  <2>1. DOMAIN pages = 1 .. Len(pages) /\ Len(pages) \in Nat
    BY <1>1, Shape
  <2>2. pages[p] \in Seq(T) /\ Len(pages[p]) \in 1 .. WaitPageSize
    BY DEF PagesOf
  <2> QED BY <2>1, <2>2
<1>3. p - 1 \in Nat /\ j - 1 \in 0 .. WaitPageSize - 1 /\ p <= Len(pages)
  BY <1>1, <1>2
<1> DEFINE a == p - 1
           r == j - 1
           n == a * WaitPageSize + r + 1
<1>4. a \in Nat /\ r \in 0 .. WaitPageSize - 1 /\ a < Len(pages) /\ p = a + 1 /\ j = r + 1
  BY <1>2, <1>3
<1> HIDE DEF a, r
<1>5. a * WaitPageSize \in Nat /\ n - 1 = a * WaitPageSize + r
  BY <1>1, <1>4
<1>6. (a * WaitPageSize + r) \div WaitPageSize = a /\ (a * WaitPageSize + r) % WaitPageSize = r
  BY <1>1, <1>4, DivModOf
<1>7. PageOf(n) = p /\ SlotOf(n) = j
  BY <1>4, <1>5, <1>6 DEF PageOf, SlotOf
<1>8. WaitPageSize * a + WaitPageSize <= WaitPageSize * Len(pages)
  BY <1>1, <1>2, <1>4, Multiples
<1>9. WaitPageSize * a = a * WaitPageSize /\ WaitPageSize * Len(pages) = Slots(pages)
  BY <1>1, <1>2, <1>4 DEF Slots
<1>10. n \in 1 .. Slots(pages)
  <2>1. Slots(pages) \in Nat
    BY <1>1, <1>2 DEF Slots
  <2> QED BY <2>1, <1>1, <1>4, <1>5, <1>8, <1>9
<1> QED BY <1>7, <1>10

LEMMA PositionOrder ==
  ASSUME NEW i \in Nat, i >= 1, NEW n \in Nat, n >= 1, i < n
  PROVE  PageOf(i) < PageOf(n) \/ (PageOf(i) = PageOf(n) /\ SlotOf(i) < SlotOf(n))
<1>1. WaitPageSize \in Nat /\ WaitPageSize >= 1
  BY SalesAssumption
<1> DEFINE a == PageOf(i) - 1
           b == PageOf(n) - 1
<1>2. /\ a \in Nat /\ SlotOf(i) \in 1 .. WaitPageSize /\ i = WaitPageSize * a + SlotOf(i)
      /\ b \in Nat /\ SlotOf(n) \in 1 .. WaitPageSize /\ n = WaitPageSize * b + SlotOf(n)
  BY Position
<1>3. PageOf(i) = a + 1 /\ PageOf(n) = b + 1
  BY Position
<1> HIDE DEF a, b
<1>4. WaitPageSize * a \in Nat /\ WaitPageSize * b \in Nat
  BY <1>1, <1>2
<1>5. ~(b < a)
  <2> SUFFICES ASSUME b < a PROVE FALSE
    OBVIOUS
  <2>1. WaitPageSize * b + WaitPageSize <= WaitPageSize * a
    BY <1>1, <1>2, Multiples
  <2> QED BY <2>1, <1>2, <1>4, <1>1
<1>6. CASE a = b
  BY <1>6, <1>2, <1>3, <1>4
<1> QED BY <1>2, <1>3, <1>5, <1>6

-----------------------------------------------------------------------------
(* The waitlist of a trip. *)

Waitlist(pages) == PagesOf(pages, WaitInfo, WaitPageSize) /\ OldestFirst(pages)

Filled(pages, i) == SlotOf(i) \in DOMAIN pages[PageOf(i)]

Dequeued(info) == [info EXCEPT !.queue = FALSE]

LEMMA WaitInfoStamped == Stamped(WaitInfo)
BY SalesAssumption DEF Stamped, WaitInfo

LEMMA SlotFilled ==
  ASSUME NEW pages, Waitlist(pages), NEW i \in 1 .. Slots(pages)
  PROVE  /\ Filled(pages, i) => /\ Slot(pages, i) = pages[PageOf(i)][SlotOf(i)]
                                /\ Slot(pages, i) \in Entries(pages)
                                /\ Unqueued(pages, i) = Rewritten(pages, PageOf(i), SlotOf(i), Dequeued(Slot(pages, i)))
         /\ ~Filled(pages, i) => Slot(pages, i) = UnusedSlot
<1>1. /\ i \in Nat /\ i >= 1 /\ PageOf(i) \in DOMAIN pages /\ SlotOf(i) \in 1 .. WaitPageSize
      /\ WaitPageSize \in Nat
  BY PositionInChain, Position, SalesAssumption DEF Waitlist
<1>2. pages[PageOf(i)] \in Seq(WaitInfo) /\ pages \in Seq(Seq(WaitInfo))
  BY <1>1 DEF Waitlist, PagesOf
<1>3. Filled(pages, i) <=> SlotOf(i) <= Len(pages[PageOf(i)])
  BY <1>1, <1>2 DEF Filled
<1>4. ASSUME Filled(pages, i)
      PROVE  /\ Slot(pages, i) = pages[PageOf(i)][SlotOf(i)]
             /\ Slot(pages, i) \in Entries(pages)
             /\ Unqueued(pages, i) = Rewritten(pages, PageOf(i), SlotOf(i), Dequeued(Slot(pages, i)))
  <2>1. Slot(pages, i) = pages[PageOf(i)][SlotOf(i)]
    BY <1>3, <1>4 DEF Slot
  <2>2. Slot(pages, i) \in Entries(pages)
    BY <2>1, <1>1, <1>4 DEF Filled, Entries
  <2>3. Unqueued(pages, i) = [pages EXCEPT ![PageOf(i)][SlotOf(i)].queue = FALSE]
    BY <1>3, <1>4 DEF Unqueued
  <2>4. Unqueued(pages, i) = Rewritten(pages, PageOf(i), SlotOf(i), Dequeued(Slot(pages, i)))
    BY <2>1, <2>3 DEF Rewritten, Dequeued
  <2> QED BY <2>1, <2>2, <2>4
<1>5. ~Filled(pages, i) => Slot(pages, i) = UnusedSlot
  BY <1>3 DEF Slot
<1> QED BY <1>4, <1>5

LEMMA SlotOfEntry ==
  ASSUME NEW pages, Waitlist(pages), NEW w \in Entries(pages)
  PROVE  \E i \in 1 .. Slots(pages) : Filled(pages, i) /\ Slot(pages, i) = w
<1>1. PICK p, j : p \in DOMAIN pages /\ j \in DOMAIN pages[p] /\ w = pages[p][j]
  BY DEF Entries
<1>2. PICK i \in 1 .. Slots(pages) : PageOf(i) = p /\ SlotOf(i) = j
  BY <1>1, PositionOf DEF Waitlist
<1>3. Filled(pages, i)
  BY <1>1, <1>2 DEF Filled
<1> QED BY <1>1, <1>2, <1>3, SlotFilled

\* An earlier slot holds an earlier entry.
LEMMA SlotsSorted ==
  ASSUME NEW pages, Waitlist(pages), NEW i \in 1 .. Slots(pages), NEW n \in 1 .. Slots(pages),
         i < n, Filled(pages, i), Filled(pages, n)
  PROVE  Slot(pages, i).timestamp < Slot(pages, n).timestamp
<1>1. /\ i \in Nat /\ i >= 1 /\ PageOf(i) \in DOMAIN pages
      /\ n \in Nat /\ n >= 1 /\ PageOf(n) \in DOMAIN pages
  BY PositionInChain DEF Waitlist
<1>2. PageOf(i) < PageOf(n) \/ (PageOf(i) = PageOf(n) /\ SlotOf(i) < SlotOf(n))
  BY <1>1, PositionOrder
<1>3. Older(pages, PageOf(i), SlotOf(i), PageOf(n), SlotOf(n))
  BY <1>1, <1>2 DEF Filled, Waitlist, OldestFirst
<1> QED BY <1>3, SlotFilled DEF Older

\* Two slots at the same place are one.
LEMMA SlotsApart ==
  ASSUME NEW i \in Nat, NEW n \in Nat, i >= 1, n >= 1, PageOf(i) = PageOf(n), SlotOf(i) = SlotOf(n)
  PROVE  i = n
<1>1. i = WaitPageSize * (PageOf(i) - 1) + SlotOf(i) /\ n = WaitPageSize * (PageOf(n) - 1) + SlotOf(n)
  BY Position
<1> QED BY <1>1

IsUnqueued(new, pages, i) ==
  /\ Waitlist(new)
  /\ Entries(new) = (Entries(pages) \ {Slot(pages, i)}) \cup {Dequeued(Slot(pages, i))}
  /\ Slots(new) = Slots(pages)
  /\ \A n \in 1 .. Slots(pages) :
       Slot(new, n) = IF n = i THEN Dequeued(Slot(pages, i)) ELSE Slot(pages, n)

LEMMA UnqueuedKeeps ==
  ASSUME NEW pages, Waitlist(pages), NEW i \in 1 .. Slots(pages), Filled(pages, i)
  PROVE  IsUnqueued(Unqueued(pages, i), pages, i)
<1> DEFINE p == PageOf(i)
           j == SlotOf(i)
           w == Slot(pages, i)
           new == Unqueued(pages, i)
<1>0. WaitPageSize \in Nat
  BY SalesAssumption
<1>1. p \in DOMAIN pages /\ j \in DOMAIN pages[p] /\ i \in Nat /\ i >= 1
  BY PositionInChain DEF Waitlist, Filled
<1>2. w = pages[p][j] /\ w \in WaitInfo /\ new = Rewritten(pages, p, j, Dequeued(w))
  <2>1. w = pages[p][j] /\ w \in Entries(pages) /\ new = Rewritten(pages, p, j, Dequeued(w))
    BY SlotFilled
  <2> QED BY <2>1, <1>0, Shape DEF Waitlist
<1>3. Dequeued(w) \in WaitInfo /\ Dequeued(w).timestamp = pages[p][j].timestamp
  BY <1>2 DEF Dequeued, WaitInfo
<1> HIDE DEF p, j, w, new
<1>4. PagesOf(new, WaitInfo, WaitPageSize) /\ IsRewritten(new, pages, p, j, Dequeued(w))
  BY <1>0, <1>1, <1>2, <1>3, Rewrite DEF Waitlist
<1>5. OldestFirst(new)
  BY <1>0, <1>1, <1>2, <1>3, RewriteSorted DEF Waitlist
<1>6. \A q \in DOMAIN pages : \A n \in DOMAIN pages[q] :
        pages[q][n] = pages[p][j] => q = p /\ n = j
  BY <1>0, <1>1, OneStamp, WaitInfoStamped DEF Waitlist, Sorted
<1>7. Entries(new) = (Entries(pages) \ {w}) \cup {Dequeued(w)}
  BY <1>0, <1>1, <1>2, <1>3, <1>6, RewriteEntries DEF Waitlist
<1>8. Slots(new) = Slots(pages)
  BY <1>4 DEF IsRewritten, Slots
<1>9. ASSUME NEW n \in 1 .. Slots(pages)
      PROVE  Slot(new, n) = IF n = i THEN Dequeued(w) ELSE Slot(pages, n)
  <2>1. n \in Nat /\ n >= 1 /\ PageOf(n) \in DOMAIN pages
    BY PositionInChain DEF Waitlist
  <2>2. DOMAIN new[PageOf(n)] = DOMAIN pages[PageOf(n)]
    BY <2>1, <1>4 DEF IsRewritten
  <2>3. Filled(new, n) <=> Filled(pages, n)
    BY <2>2 DEF Filled
  <2>4. Waitlist(new) /\ n \in 1 .. Slots(new)
    BY <1>4, <1>5, <1>8 DEF Waitlist
  <2>5. CASE ~Filled(pages, n)
    <3>1. n # i
      BY <2>5
    <3> QED BY <3>1, <2>3, <2>4, <2>5, SlotFilled
  <2>6. CASE Filled(pages, n)
    <3>1. Slot(new, n) = new[PageOf(n)][SlotOf(n)] /\ Slot(pages, n) = pages[PageOf(n)][SlotOf(n)]
      BY <2>3, <2>4, <2>6, SlotFilled
    <3>2. new[PageOf(n)][SlotOf(n)] =
            IF PageOf(n) = p /\ SlotOf(n) = j THEN Dequeued(w) ELSE pages[PageOf(n)][SlotOf(n)]
      BY <2>1, <2>6, <1>4 DEF IsRewritten, Filled
    <3>3. PageOf(n) = p /\ SlotOf(n) = j <=> n = i
      BY <2>1, <1>1, SlotsApart DEF p, j
    <3> QED BY <3>1, <3>2, <3>3
  <2> QED BY <2>5, <2>6
<1>10. Waitlist(new)
  BY <1>4, <1>5 DEF Waitlist
<1> QED BY <1>7, <1>8, <1>9, <1>10 DEF IsUnqueued, new, w

-----------------------------------------------------------------------------
(* The status of an order. *)

Orderlist(pages) == PagesOf(pages, OrderInfo, OrderPageSize) /\ NewestFirst(pages)

Statuses == {"success", "pending", "refunded"}

Restated(o, st) == [o EXCEPT !.status = st]

IsRestated(new, pages, o, st) ==
  /\ Orderlist(new)
  /\ Entries(new) = (Entries(pages) \ {o}) \cup {Restated(o, st)}

LEMMA OrderInfoStamped == Stamped(OrderInfo)
BY SalesAssumption DEF Stamped, OrderInfo

LEMMA RewriteStatus ==
  ASSUME NEW pages, Orderlist(pages), NEW p \in DOMAIN pages, NEW j \in DOMAIN pages[p],
         NEW st \in Statuses
  PROVE  /\ pages[p][j] \in OrderInfo /\ pages[p][j] \in Entries(pages)
         /\ IsRestated(Rewritten(pages, p, j, Restated(pages[p][j], st)), pages, pages[p][j], st)
<1> DEFINE o == pages[p][j]
           e == Restated(o, st)
           new == Rewritten(pages, p, j, e)
<1>0. OrderPageSize \in Nat
  BY SalesAssumption
<1>1. o \in Entries(pages) /\ o \in OrderInfo
  <2>1. o \in Entries(pages)
    BY DEF Entries
  <2> QED BY <2>1, <1>0, Shape DEF Orderlist
<1>2. e \in OrderInfo /\ e.timestamp = pages[p][j].timestamp
  BY <1>1 DEF Restated, OrderInfo, Statuses
<1> HIDE DEF e, new
<1>3. PagesOf(new, OrderInfo, OrderPageSize)
  BY <1>0, <1>2, Rewrite DEF Orderlist, new
<1>4. NewestFirst(new)
  BY <1>0, <1>2, RewriteSorted DEF Orderlist, new
<1>5. \A q \in DOMAIN pages : \A n \in DOMAIN pages[q] :
        pages[q][n] = pages[p][j] => q = p /\ n = j
  BY <1>0, OneStamp, OrderInfoStamped DEF Orderlist, Sorted
<1>6. Entries(new) = (Entries(pages) \ {o}) \cup {e}
  BY <1>0, <1>2, <1>5, RewriteEntries DEF Orderlist, new
<1> QED BY <1>1, <1>3, <1>4, <1>6 DEF IsRestated, Orderlist, new, e

LEMMA WithStatusKeeps ==
  ASSUME NEW pages, Orderlist(pages), NEW at, at[1] \in DOMAIN pages, at[2] \in DOMAIN pages[at[1]],
         NEW st \in Statuses
  PROVE  /\ pages[at[1]][at[2]] \in OrderInfo /\ pages[at[1]][at[2]] \in Entries(pages)
         /\ IsRestated(WithStatus(pages, at, st), pages, pages[at[1]][at[2]], st)
<1>1. WithStatus(pages, at, st) = Rewritten(pages, at[1], at[2], Restated(pages[at[1]][at[2]], st))
  BY DEF WithStatus, Rewritten, Restated
<1> QED BY <1>1, RewriteStatus

LEMMA FoundIsThere ==
  ASSUME NEW pages, Orderlist(pages), NEW num, NEW at \in Found(pages, num)
  PROVE  at[1] \in DOMAIN pages /\ at[2] \in DOMAIN pages[at[1]]
<1>1. pages \in Seq(Seq(OrderInfo)) /\ \A p \in DOMAIN pages : Len(pages[p]) \in Nat
  BY SalesAssumption DEF Orderlist, PagesOf
<1>2. PICK p, n : p \in DOMAIN pages /\ n \in 1 .. Len(pages[p]) /\ at = <<p, Len(pages[p]) - n + 1>>
  BY DEF Found
<1>3. DOMAIN pages[p] = 1 .. Len(pages[p]) /\ Len(pages[p]) \in Nat
  BY <1>1, <1>2
<1> QED BY <1>2, <1>3

\* The walk stops at the page that holds the order.
LEMMA QueueSucceedKeeps ==
  ASSUME NEW pages, Orderlist(pages), NEW o \in Entries(pages)
  PROVE  IsRestated(QueueSucceed(pages, o.timestamp), pages, o, "success")
<1>0. OrderPageSize \in Nat /\ pages \in Seq(Seq(OrderInfo)) /\ DOMAIN pages = 1 .. Len(pages)
      /\ Len(pages) \in Nat
  BY SalesAssumption DEF Orderlist, PagesOf
<1>1. PICK p, j : p \in DOMAIN pages /\ j \in DOMAIN pages[p] /\ o = pages[p][j]
  BY DEF Entries
<1> DEFINE S == {q \in DOMAIN pages : pages[q][1].timestamp <= o.timestamp}
<1>2. ASSUME NEW q \in DOMAIN pages
      PROVE  /\ pages[q] \in Seq(OrderInfo) /\ Len(pages[q]) \in Nat /\ Len(pages[q]) >= 1
             /\ DOMAIN pages[q] = 1 .. Len(pages[q])
             /\ \A n \in DOMAIN pages[q] : n \in Nat /\ pages[q][n].timestamp \in Nat
  <2>1. pages[q] \in Seq(OrderInfo) /\ Len(pages[q]) \in 1 .. OrderPageSize
    BY DEF Orderlist, PagesOf
  <2>2. \A n \in DOMAIN pages[q] : pages[q][n] \in OrderInfo
    BY <2>1
  <2> QED BY <2>1, <2>2, <1>0, OrderInfoStamped DEF Stamped
<1>3. p \in S
  <2>1. 1 \in DOMAIN pages[p] /\ j \in Nat /\ j >= 1
    BY <1>1, <1>2
  <2>2. CASE j = 1
    BY <2>1, <2>2, <1>1, <1>2
  <2>3. CASE j # 1
    <3>1. Older(pages, p, 1, p, j)
      BY <2>1, <2>3, <1>1 DEF Orderlist, NewestFirst
    <3> QED BY <3>1, <2>1, <1>1, <1>2 DEF Older
  <2> QED BY <2>2, <2>3
<1>4. Min(S) \in S /\ \A y \in S : Min(S) <= y
  <2>1. S \in SUBSET Nat
    BY <1>0
  <2> QED BY <2>1, <1>3, MinNat
<1>5. Min(S) = p
  <2>1. Min(S) \in DOMAIN pages /\ pages[Min(S)][1].timestamp <= o.timestamp /\ Min(S) <= p
    BY <1>3, <1>4
  <2>2. ASSUME Min(S) < p PROVE FALSE
    <3>1. 1 \in DOMAIN pages[Min(S)]
      BY <2>1, <1>2
    <3>2. Older(pages, p, j, Min(S), 1)
      BY <3>1, <2>1, <2>2, <1>1 DEF Orderlist, NewestFirst
    <3> QED BY <3>1, <3>2, <2>1, <1>1, <1>2 DEF Older
  <2> QED BY <2>1, <2>2, <1>0, <1>1
<1>6. ASSUME NEW n \in DOMAIN pages[p]
      PROVE  pages[p][n].timestamp = o.timestamp <=> n = j
  <2>1. n \in Nat /\ j \in Nat /\ pages[p][n].timestamp \in Nat /\ pages[p][j].timestamp \in Nat
    BY <1>1, <1>2
  <2>2. n < j => Older(pages, p, n, p, j)
    BY <1>1 DEF Orderlist, NewestFirst
  <2>3. j < n => Older(pages, p, j, p, n)
    BY <1>1 DEF Orderlist, NewestFirst
  <2> QED BY <2>1, <2>2, <2>3, <1>1 DEF Older
<1> DEFINE page == [n \in DOMAIN pages[p] |->
                      IF pages[p][n].timestamp = o.timestamp
                      THEN [pages[p][n] EXCEPT !.status = "success"] ELSE pages[p][n]]
<1>7. QueueSucceed(pages, o.timestamp) = [pages EXCEPT ![p] = page]
  BY <1>5 DEF QueueSucceed
<1>8. page = [pages[p] EXCEPT ![j] = Restated(o, "success")]
  <2>1. pages[p] = [n \in DOMAIN pages[p] |-> pages[p][n]]
    BY <1>1, <1>2
  <2> QED BY <2>1, <1>1, <1>6 DEF Restated
<1>9. QueueSucceed(pages, o.timestamp) = Rewritten(pages, p, j, Restated(o, "success"))
  BY <1>7, <1>8, <1>0, <1>1 DEF Rewritten
<1> QED BY <1>1, <1>9, RewriteStatus DEF Statuses

-----------------------------------------------------------------------------
(***************************************************************************)
(* The inductive invariant.                                                *)
(***************************************************************************)

\* The number of the last order placed, kept in the header while nothing runs.
Newest == IF status = "down" THEN header ELSE timestamp

\* The orders of all users together are numbered 0 .. Newest, each number once.
Numbered ==
  /\ \A u \in Users : \A o \in OrdersOf(u) : o.timestamp <= Newest
  /\ \A k \in Trips : \A w \in Entries(waitlist[k]) : w.timestamp <= Newest
  /\ \A u, v \in Users : \A o \in OrdersOf(u), p \in OrdersOf(v) :
       o.timestamp = p.timestamp => u = v /\ o = p
  /\ \A i \in 0 .. Newest : \E u \in Users : \E o \in OrdersOf(u) : o.timestamp = i

\* w stands in the queue of trip k for the pending order o of user u.
StandsFor(w, k, u, o) ==
  /\ w.user = u /\ w.timestamp = o.timestamp /\ w.leg = o.leg /\ w.num = o.num
  /\ o.trip = k /\ o.status = "pending"

\* QueuesMatchOrders, entry by entry.
Matched ==
  /\ \A k \in Trips : \A w \in Queued(k) : \E o \in OrdersOf(w.user) : StandsFor(w, k, w.user, o)
  /\ \A u \in Users : \A o \in OrdersOf(u) :
       o.status = "pending" => \E w \in Queued(o.trip) : StandsFor(w, o.trip, u, o)

SoldFinite == \A k \in Trips, s \in Segments : IsFiniteSet(Sold(k, s))

\* A pass runs over the waitlist of a trip, and only while the program runs.
PassSound == refund # NoRefund => refund.trip \in Trips /\ refund.at >= 1 /\ status = "up"

SalesInv ==
  /\ TypeOK /\ ChainsSorted /\ Numbered /\ Matched
  /\ SoldFinite /\ SeatsConserved /\ NobodyWaitsInVain /\ PassSound

-----------------------------------------------------------------------------
(* The stores by themselves. *)

TicketsOK(t) == DOMAIN t \subseteq Trips /\ t \in [DOMAIN t -> Seats]

WaitlistsOK(wl) == wl \in [Trips -> Seq(Seq(WaitInfo))] /\ \A k \in Trips : Waitlist(wl[k])

OrderlistsOK(ol) == ol \in [Users -> Seq(Seq(OrderInfo))] /\ \A u \in Users : Orderlist(ol[u])

ScalarsOK ==
  /\ timestamp \in InvalidPageId .. MaxTimestamp
  /\ header \in InvalidPageId .. MaxTimestamp
  /\ refund \in [trip : Trips \cup {NoTrip}, seats : Seats, at : Nat]
  /\ status \in Status

LEMMA StoresOK ==
  TypeOK /\ ChainsSorted <=> TicketsOK(tickets) /\ WaitlistsOK(waitlist) /\ OrderlistsOK(orderlist) /\ ScalarsOK
BY DEF TypeOK, ChainsSorted, TicketsOK, WaitlistsOK, OrderlistsOK, ScalarsOK, Waitlist, Orderlist

LEMMA StoresOKNext ==
  TicketsOK(tickets') /\ WaitlistsOK(waitlist') /\ OrderlistsOK(orderlist') /\ ScalarsOK'
    => TypeOK' /\ ChainsSorted'
BY DEF TypeOK, ChainsSorted, TicketsOK, WaitlistsOK, OrderlistsOK, ScalarsOK, Waitlist, Orderlist

Put(f, x, new) == [f EXCEPT ![x] = new]

IsPut(g, f, x, new, S) == \A y \in S : g[y] = IF y = x THEN new ELSE f[y]

LEMMA WaitlistsStep ==
  ASSUME NEW wl, WaitlistsOK(wl), NEW k \in Trips, NEW new, Waitlist(new)
  PROVE  WaitlistsOK(Put(wl, k, new)) /\ IsPut(Put(wl, k, new), wl, k, new, Trips)
<1>1. new \in Seq(Seq(WaitInfo))
  BY DEF Waitlist, PagesOf
<1> QED BY <1>1 DEF WaitlistsOK, Put, IsPut

LEMMA OrderlistsStep ==
  ASSUME NEW ol, OrderlistsOK(ol), NEW u \in Users, NEW new, Orderlist(new)
  PROVE  OrderlistsOK(Put(ol, u, new)) /\ IsPut(Put(ol, u, new), ol, u, new, Users)
<1>1. new \in Seq(Seq(OrderInfo))
  BY DEF Orderlist, PagesOf
<1> QED BY <1>1 DEF OrderlistsOK, Put, IsPut

LEMMA TicketsStep ==
  ASSUME TicketsOK(tickets), NEW k \in Trips, NEW seats \in Seats, ModifyTicket(k, seats)
  PROVE  /\ TicketsOK(tickets')
         /\ \A j \in Trips : FetchTicket(j)' = IF j = k THEN seats ELSE FetchTicket(j)
<1>1. tickets' = [j \in DOMAIN tickets \cup {k} |-> IF j = k THEN seats ELSE tickets[j]]
  BY DEF ModifyTicket
<1>2. TicketsOK(tickets')
  BY <1>1 DEF TicketsOK
<1>3. ASSUME NEW j \in Trips
      PROVE  FetchTicket(j)' = IF j = k THEN seats ELSE FetchTicket(j)
  BY <1>1 DEF FetchTicket
<1> QED BY <1>2, <1>3

LEMMA SeatsTyped ==
  ASSUME TypeOK, NEW k \in Trips
  PROVE  FetchTicket(k) \in Seats /\ SeatsLeft(k) \in Seats
<1>1. FetchTicket(k) \in Seats
  BY SalesAssumption DEF TypeOK, FetchTicket, Seats
<1> QED BY <1>1 DEF SeatsLeft, TypeOK

\* What a step does to the orders: one is placed, or the status of one changes.
Gains(u, o) ==
  \A v \in Users : OrdersOf(v)' = IF v = u THEN OrdersOf(v) \cup {o} ELSE OrdersOf(v)

Restates(u, o, st) ==
  \A v \in Users : OrdersOf(v)' = IF v = u THEN (OrdersOf(v) \ {o}) \cup {Restated(o, st)} ELSE OrdersOf(v)

NewOrder(trip, leg, num, st) ==
  [timestamp |-> timestamp + 1, num |-> num, trip |-> trip, leg |-> leg, status |-> st]

LEMMA PartySize ==
  ASSUME NEW n \in Nums
  PROVE  n \in Nat /\ n >= 1
BY SalesAssumption

LEMMA InfoOfOrder ==
  ASSUME TypeOK, NEW u \in Users, NEW o \in OrdersOf(u)
  PROVE  o \in OrderInfo /\ o.timestamp \in Nat /\ o.num \in Nat /\ o.num >= 1
<1>1. PagesOf(orderlist[u], OrderInfo, OrderPageSize) /\ OrderPageSize \in Nat
  BY SalesAssumption DEF TypeOK
<1>2. o \in OrderInfo
  BY <1>1, Shape DEF OrdersOf
<1>3. o.timestamp \in 0 .. MaxTimestamp /\ o.num \in Nums
  BY <1>2 DEF OrderInfo
<1>4. MaxTimestamp \in Nat
  BY SalesAssumption
<1> QED BY <1>2, <1>3, <1>4, PartySize

LEMMA InfoOfWaiter ==
  ASSUME TypeOK, NEW k \in Trips, NEW w \in Entries(waitlist[k])
  PROVE  w \in WaitInfo /\ w.timestamp \in Nat /\ w.num \in Nat /\ w.num >= 1
<1>1. PagesOf(waitlist[k], WaitInfo, WaitPageSize) /\ WaitPageSize \in Nat
  BY SalesAssumption DEF TypeOK
<1>2. w \in WaitInfo
  BY <1>1, Shape
<1>3. w.timestamp \in 0 .. MaxTimestamp /\ w.num \in Nums
  BY <1>2 DEF WaitInfo
<1>4. MaxTimestamp \in Nat
  BY SalesAssumption
<1> QED BY <1>2, <1>3, <1>4, PartySize

LEMMA RestatedFields ==
  ASSUME NEW o \in OrderInfo, NEW st \in Statuses
  PROVE  /\ Restated(o, st) \in OrderInfo
         /\ Restated(o, st).timestamp = o.timestamp /\ Restated(o, st).num = o.num
         /\ Restated(o, st).trip = o.trip /\ Restated(o, st).leg = o.leg
         /\ Restated(o, st).status = st
BY DEF Restated, OrderInfo, Statuses

LEMMA OrderedKeeps ==
  ASSUME TypeOK, ChainsSorted, Numbered, status = "up", CanStamp,
         NEW u \in Users, NEW k \in Trips, NEW leg \in Legs, NEW num \in Nums, NEW st \in Statuses,
         Ordered(u, k, leg, num, st)
  PROVE  /\ timestamp' = Newest + 1 /\ timestamp' \in 0 .. MaxTimestamp
         /\ NewOrder(k, leg, num, st) \in OrderInfo
         /\ OrderlistsOK(orderlist')
         /\ Gains(u, NewOrder(k, leg, num, st))
<1> DEFINE o == NewOrder(k, leg, num, st)
           new == AppendOrder(orderlist[u], o)
<1>1. timestamp' = timestamp + 1 /\ timestamp = Newest
  BY DEF Ordered, Newest
<1>2. timestamp \in Int /\ timestamp >= -1 /\ timestamp + 1 <= MaxTimestamp
  BY SalesAssumption DEF TypeOK, CanStamp, InvalidPageId
<1>3. o \in OrderInfo /\ o.timestamp = timestamp + 1
  BY <1>2, SalesAssumption DEF NewOrder, OrderInfo, Statuses
<1>4. orderlist' = Put(orderlist, u, new)
  BY DEF Ordered, NewOrder, Put
<1>5. OrderlistsOK(orderlist) /\ Orderlist(orderlist[u])
  BY StoresOK DEF OrderlistsOK
<1>6. \A e \in Entries(orderlist[u]) : e.timestamp < o.timestamp
  <2>1. ASSUME NEW e \in OrdersOf(u) PROVE e.timestamp < o.timestamp
    <3>1. e.timestamp <= Newest /\ e.timestamp \in Nat
      BY InfoOfOrder DEF Numbered
    <3> QED BY <3>1, <1>1, <1>2, <1>3
  <2> QED BY <2>1 DEF OrdersOf
<1> HIDE DEF o, new
<1>7. Orderlist(new) /\ Entries(new) = Entries(orderlist[u]) \cup {o}
  BY <1>3, <1>5, <1>6, AppendOrderKeeps, OrderInfoStamped DEF Orderlist, new
<1>8. OrderlistsOK(orderlist') /\ IsPut(orderlist', orderlist, u, new, Users)
  BY <1>4, <1>5, <1>7, OrderlistsStep
<1>9. Gains(u, o)
  BY <1>7, <1>8 DEF Gains, OrdersOf, IsPut
<1> QED BY <1>1, <1>2, <1>3, <1>8, <1>9, SalesAssumption DEF o

LEMMA RestatedKeeps ==
  ASSUME TypeOK, ChainsSorted, NEW u \in Users, NEW o \in OrdersOf(u), NEW st \in Statuses,
         NEW new, orderlist' = Put(orderlist, u, new), IsRestated(new, orderlist[u], o, st)
  PROVE  OrderlistsOK(orderlist') /\ Restates(u, o, st)
<1>1. OrderlistsOK(orderlist)
  BY StoresOK
<1>2. Orderlist(new) /\ Entries(new) = (Entries(orderlist[u]) \ {o}) \cup {Restated(o, st)}
  BY DEF IsRestated
<1>3. OrderlistsOK(orderlist') /\ IsPut(orderlist', orderlist, u, new, Users)
  BY <1>1, <1>2, OrderlistsStep
<1>4. Restates(u, o, st)
  BY <1>2, <1>3 DEF Restates, OrdersOf, IsPut
<1> QED BY <1>3, <1>4

LEMMA GainsNumbered ==
  ASSUME TypeOK, Numbered, NEW u \in Users, NEW o \in OrderInfo, o.timestamp = Newest + 1,
         Gains(u, o), Newest' = Newest + 1,
         \A k \in Trips : \A w \in Entries(waitlist[k])' : w.timestamp <= Newest + 1
  PROVE  Numbered'
<1>1. Newest \in Int /\ o.timestamp \in Int
  BY SalesAssumption DEF TypeOK, Newest, InvalidPageId
<1>2. ASSUME NEW v \in Users, NEW p \in OrdersOf(v)'
      PROVE  (v = u /\ p = o) \/ (p \in OrdersOf(v) /\ p.timestamp \in Int /\ p.timestamp <= Newest)
  <2>1. (v = u /\ p = o) \/ p \in OrdersOf(v)
    BY DEF Gains
  <2> QED BY <2>1, InfoOfOrder DEF Numbered
<1>3. \A v \in Users : \A p \in OrdersOf(v)' : p.timestamp <= Newest'
  BY <1>1, <1>2
<1>4. ASSUME NEW v \in Users, NEW w \in Users, NEW p \in OrdersOf(v)', NEW q \in OrdersOf(w)',
             p.timestamp = q.timestamp
      PROVE  v = w /\ p = q
  <2>1. CASE v = u /\ p = o
    BY <2>1, <1>1, <1>2, <1>4
  <2>2. CASE w = u /\ q = o
    BY <2>2, <1>1, <1>2, <1>4
  <2>3. CASE p \in OrdersOf(v) /\ q \in OrdersOf(w)
    BY <2>3, <1>4 DEF Numbered
  <2> QED BY <2>1, <2>2, <2>3, <1>2
<1>5. ASSUME NEW i \in 0 .. Newest' PROVE \E v \in Users : \E p \in OrdersOf(v)' : p.timestamp = i
  <2>1. CASE i = Newest + 1
    <3>1. o \in OrdersOf(u)'
      BY DEF Gains
    <3> QED BY <2>1, <3>1
  <2>2. CASE i # Newest + 1
    <3>1. i \in 0 .. Newest
      BY <1>1, <2>2
    <3>2. PICK v \in Users : \E p \in OrdersOf(v) : p.timestamp = i
      BY <3>1 DEF Numbered
    <3> QED BY <3>2 DEF Gains
  <2> QED BY <2>1, <2>2
<1> QED BY <1>3, <1>4, <1>5 DEF Numbered

LEMMA RestatesNumbered ==
  ASSUME TypeOK, Numbered, NEW u \in Users, NEW o \in OrdersOf(u), NEW st \in Statuses,
         Restates(u, o, st), Newest' = Newest,
         \A k \in Trips : \A w \in Entries(waitlist[k])' : w.timestamp <= Newest
  PROVE  Numbered'
<1> DEFINE r == Restated(o, st)
<1>1. o \in OrderInfo /\ r.timestamp = o.timestamp
  BY InfoOfOrder, RestatedFields
<1> HIDE DEF r
<1>2. ASSUME NEW v \in Users, NEW p \in OrdersOf(v)'
      PROVE  (v = u /\ p = r) \/ (p \in OrdersOf(v) /\ ~(v = u /\ p = o))
  BY DEF Restates, r
<1>3. \A v \in Users : \A p \in OrdersOf(v)' : p.timestamp <= Newest'
  BY <1>1, <1>2 DEF Numbered
<1>4. ASSUME NEW v \in Users, NEW w \in Users, NEW p \in OrdersOf(v)', NEW q \in OrdersOf(w)',
             p.timestamp = q.timestamp
      PROVE  v = w /\ p = q
  <2>1. CASE v = u /\ p = r /\ w = u /\ q = r
    BY <2>1
  <2>2. CASE v = u /\ p = r /\ q \in OrdersOf(w) /\ ~(w = u /\ q = o)
    BY <2>2, <1>1, <1>4 DEF Numbered
  <2>3. CASE w = u /\ q = r /\ p \in OrdersOf(v) /\ ~(v = u /\ p = o)
    BY <2>3, <1>1, <1>4 DEF Numbered
  <2>4. CASE p \in OrdersOf(v) /\ q \in OrdersOf(w)
    BY <2>4, <1>4 DEF Numbered
  <2> QED BY <2>1, <2>2, <2>3, <2>4, <1>2
<1>5. ASSUME NEW i \in 0 .. Newest' PROVE \E v \in Users : \E p \in OrdersOf(v)' : p.timestamp = i
  <2>1. PICK v \in Users : \E p \in OrdersOf(v) : p.timestamp = i
    BY DEF Numbered
  <2>2. PICK p \in OrdersOf(v) : p.timestamp = i
    BY <2>1
  <2>3. CASE v = u /\ p = o
    <3>1. r \in OrdersOf(u)'
      BY DEF Restates, r
    <3> QED BY <2>2, <2>3, <3>1, <1>1
  <2>4. CASE ~(v = u /\ p = o)
    BY <2>2, <2>4 DEF Restates
  <2> QED BY <2>3, <2>4
<1> QED BY <1>3, <1>4, <1>5 DEF Numbered

-----------------------------------------------------------------------------
(* Counting the seats sold. *)

Counts(o, k, s) == o.trip = k /\ o.status = "success" /\ s \in Covers(o.leg)

SeatsOf(u, o) == {<<u, o, n>> : n \in 1 .. o.num}

\* What an order adds to the seats sold on segment s of trip k.
Part(u, o, k, s) == IF Counts(o, k, s) THEN SeatsOf(u, o) ELSE {}

Weight(o, k, s) == IF Counts(o, k, s) THEN o.num ELSE 0

LEMMA PartCounted ==
  ASSUME NEW u, NEW o, o.num \in Nat, NEW k, NEW s
  PROVE  IsFiniteSet(Part(u, o, k, s)) /\ Cardinality(Part(u, o, k, s)) = Weight(o, k, s)
<1>1. IsFiniteSet(1 .. o.num) /\ Cardinality(1 .. o.num) = o.num
  BY FS_Interval
<1>2. ExistsBijection(1 .. o.num, SeatsOf(u, o))
  <2> DEFINE f == [n \in 1 .. o.num |-> <<u, o, n>>]
  <2>1. f \in Bijection(1 .. o.num, SeatsOf(u, o))
    BY DEF Bijection, Injection, Surjection, IsInjective, SeatsOf
  <2> QED BY <2>1 DEF ExistsBijection
<1>3. IsFiniteSet(SeatsOf(u, o)) /\ Cardinality(SeatsOf(u, o)) = o.num
  BY <1>1, <1>2, FS_Bijection
<1> QED BY <1>3, FS_EmptySet DEF Part, Weight

LEMMA InSold ==
  ASSUME NEW k, NEW s, NEW x
  PROVE  x \in Sold(k, s) <=> \E u \in Users : \E o \in OrdersOf(u) : x \in Part(u, o, k, s)
BY DEF Sold, Part, Counts, SeatsOf

LEMMA InSoldNext ==
  ASSUME NEW k, NEW s, NEW x
  PROVE  x \in Sold(k, s)' <=> \E u \in Users : \E o \in OrdersOf(u)' : x \in Part(u, o, k, s)
BY DEF Sold, Part, Counts, SeatsOf, Covers

LEMMA DisjointUnion ==
  ASSUME NEW S, NEW T, IsFiniteSet(S), IsFiniteSet(T), S \cap T = {}
  PROVE  IsFiniteSet(S \cup T) /\ Cardinality(S \cup T) = Cardinality(S) + Cardinality(T)
<1>1. Cardinality(S) \in Nat /\ Cardinality(T) \in Nat
  BY FS_CardinalityType
<1>2. Cardinality(S \cap T) = 0
  BY FS_EmptySet
<1>3. IsFiniteSet(S \cup T) /\ Cardinality(S \cup T) = Cardinality(S) + Cardinality(T) - Cardinality(S \cap T)
  BY FS_Union
<1> QED BY <1>1, <1>2, <1>3

LEMMA GainsSold ==
  ASSUME TypeOK, NEW u \in Users, NEW o, o.num \in Nat, o \notin OrdersOf(u), Gains(u, o),
         NEW k, NEW s, IsFiniteSet(Sold(k, s))
  PROVE  /\ IsFiniteSet(Sold(k, s)')
         /\ Cardinality(Sold(k, s)') = Cardinality(Sold(k, s)) + Weight(o, k, s)
<1>1. Sold(k, s)' = Sold(k, s) \cup Part(u, o, k, s)
  <2>1. ASSUME NEW x \in Sold(k, s)' PROVE x \in Sold(k, s) \cup Part(u, o, k, s)
    <3>1. PICK v \in Users : \E p \in OrdersOf(v)' : x \in Part(v, p, k, s)
      BY <2>1, InSoldNext
    <3>2. PICK p \in OrdersOf(v)' : x \in Part(v, p, k, s)
      BY <3>1
    <3>3. p \in OrdersOf(v) \/ (v = u /\ p = o)
      BY DEF Gains
    <3> QED BY <3>2, <3>3, InSold
  <2>2. ASSUME NEW x \in Sold(k, s) PROVE x \in Sold(k, s)'
    <3>1. PICK v \in Users : \E p \in OrdersOf(v) : x \in Part(v, p, k, s)
      BY <2>2, InSold
    <3> QED BY <3>1, InSoldNext DEF Gains
  <2>3. ASSUME NEW x \in Part(u, o, k, s) PROVE x \in Sold(k, s)'
    <3>1. o \in OrdersOf(u)'
      BY DEF Gains
    <3> QED BY <2>3, <3>1, InSoldNext
  <2> QED BY <2>1, <2>2, <2>3
<1>2. Sold(k, s) \cap Part(u, o, k, s) = {}
  <2> SUFFICES ASSUME NEW x \in Sold(k, s), x \in Part(u, o, k, s) PROVE FALSE
    OBVIOUS
  <2>1. PICK v \in Users : \E p \in OrdersOf(v) : x \in Part(v, p, k, s)
    BY InSold
  <2> QED BY <2>1 DEF Part, SeatsOf
<1>3. IsFiniteSet(Part(u, o, k, s)) /\ Cardinality(Part(u, o, k, s)) = Weight(o, k, s)
  BY PartCounted
<1>4. Cardinality(Sold(k, s)) \in Nat /\ Weight(o, k, s) \in Nat
  BY <1>3, FS_CardinalityType
<1>5. /\ IsFiniteSet(Sold(k, s) \cup Part(u, o, k, s))
      /\ Cardinality(Sold(k, s) \cup Part(u, o, k, s)) = Cardinality(Sold(k, s)) + Cardinality(Part(u, o, k, s))
  BY <1>2, <1>3, <1>4, DisjointUnion
<1> QED BY <1>1, <1>3, <1>5

LEMMA RestatesSold ==
  ASSUME TypeOK, Numbered, NEW u \in Users, NEW o \in OrdersOf(u), NEW st \in Statuses,
         st # o.status, Restates(u, o, st), NEW k, NEW s, IsFiniteSet(Sold(k, s))
  PROVE  /\ IsFiniteSet(Sold(k, s)')
         /\ Cardinality(Sold(k, s)')
              = Cardinality(Sold(k, s)) - Weight(o, k, s) + Weight(Restated(o, st), k, s)
<1> DEFINE r == Restated(o, st)
           P == Part(u, o, k, s)
           Q == Part(u, r, k, s)
<1>1. o \in OrderInfo /\ r.timestamp = o.timestamp /\ r.num = o.num /\ r.status = st /\ o.num \in Nat
  BY InfoOfOrder, RestatedFields
<1>2. r \notin OrdersOf(u) /\ r # o
  BY <1>1 DEF Numbered
<1> HIDE DEF r
<1>3. \A v \in Users : \A p \in OrdersOf(v) : \A x \in Part(v, p, k, s) :
        /\ x \in P => v = u /\ p = o
        /\ x \notin Q
  BY <1>2 DEF Part, SeatsOf
<1>4. P \subseteq Sold(k, s)
  BY InSold
<1>5. Sold(k, s)' = (Sold(k, s) \ P) \cup Q
  <2>1. ASSUME NEW x \in Sold(k, s)' PROVE x \in (Sold(k, s) \ P) \cup Q
    <3>1. PICK v \in Users : \E p \in OrdersOf(v)' : x \in Part(v, p, k, s)
      BY <2>1, InSoldNext
    <3>2. PICK p \in OrdersOf(v)' : x \in Part(v, p, k, s)
      BY <3>1
    <3>3. (p \in OrdersOf(v) /\ ~(v = u /\ p = o)) \/ (v = u /\ p = r)
      BY DEF Restates, r
    <3> QED BY <3>2, <3>3, <1>3, InSold
  <2>2. ASSUME NEW x \in Sold(k, s), x \notin P PROVE x \in Sold(k, s)'
    <3>1. PICK v \in Users : \E p \in OrdersOf(v) : x \in Part(v, p, k, s)
      BY <2>2, InSold
    <3>2. PICK p \in OrdersOf(v) : x \in Part(v, p, k, s)
      BY <3>1
    <3>3. p \in OrdersOf(v)'
      BY <2>2, <3>2 DEF Restates
    <3> QED BY <3>2, <3>3, InSoldNext
  <2>3. ASSUME NEW x \in Q PROVE x \in Sold(k, s)'
    <3>1. r \in OrdersOf(u)'
      BY DEF Restates, r
    <3> QED BY <2>3, <3>1, InSoldNext
  <2> QED BY <2>1, <2>2, <2>3
<1>6. (Sold(k, s) \ P) \cap Q = {}
  <2> SUFFICES ASSUME NEW x \in Sold(k, s), x \in Q PROVE FALSE
    OBVIOUS
  <2>1. PICK v \in Users : \E p \in OrdersOf(v) : x \in Part(v, p, k, s)
    BY InSold
  <2> QED BY <2>1, <1>3
<1>7. /\ IsFiniteSet(P) /\ Cardinality(P) = Weight(o, k, s)
      /\ IsFiniteSet(Q) /\ Cardinality(Q) = Weight(r, k, s)
  BY <1>1, PartCounted
<1> HIDE DEF P, Q
<1>8. /\ IsFiniteSet(Sold(k, s) \ P)
      /\ Cardinality(Sold(k, s) \ P) = Cardinality(Sold(k, s)) - Cardinality(P)
  <2>1. Sold(k, s) \cap P = P
    BY <1>4
  <2> QED BY <2>1, FS_Difference
<1>9. /\ Cardinality(Sold(k, s)) \in Nat /\ Cardinality(P) \in Nat /\ Cardinality(Q) \in Nat
      /\ Cardinality(Sold(k, s) \ P) \in Nat
  BY <1>7, <1>8, FS_CardinalityType
<1>10. /\ IsFiniteSet((Sold(k, s) \ P) \cup Q)
       /\ Cardinality((Sold(k, s) \ P) \cup Q) = Cardinality(Sold(k, s) \ P) + Cardinality(Q)
  BY <1>6, <1>7, <1>8, DisjointUnion
<1> QED BY <1>5, <1>7, <1>8, <1>9, <1>10 DEF r

LEMMA CoveredSegments ==
  ASSUME NEW leg \in Legs
  PROVE  Covers(leg) \subseteq Segments
BY SalesAssumption DEF Covers, Segments

LEMMA TakeSeats ==
  ASSUME NEW seats \in Seats, NEW leg \in Legs, NEW num \in Nat, Fits(seats, leg, num)
  PROVE  /\ Plus(seats, leg, -num) \in Seats
         /\ \A s \in Segments : Plus(seats, leg, -num)[s] = seats[s] - (IF s \in Covers(leg) THEN num ELSE 0)
         /\ \A s \in Segments : Plus(seats, leg, -num)[s] <= seats[s]
BY SalesAssumption, CoveredSegments DEF Seats, Plus, Fits

LEMMA GiveSeats ==
  ASSUME NEW seats \in Seats, NEW leg \in Legs, NEW num \in Nat,
         \A s \in Segments : s \in Covers(leg) => seats[s] + num <= MaxSeat
  PROVE  /\ Plus(seats, leg, num) \in Seats
         /\ \A s \in Segments : Plus(seats, leg, num)[s] = seats[s] + (IF s \in Covers(leg) THEN num ELSE 0)
BY SalesAssumption, CoveredSegments DEF Seats, Plus

LEMMA FitsLess ==
  ASSUME NEW few \in Seats, NEW many \in Seats, \A s \in Segments : few[s] <= many[s],
         NEW leg \in Legs, NEW num \in Nat, Fits(few, leg, num)
  PROVE  Fits(many, leg, num)
BY SalesAssumption, CoveredSegments DEF Seats, Fits

LEMMA GainsConserved ==
  ASSUME SalesInv, status # "crashed", NEW u \in Users, NEW o \in OrderInfo, o \notin OrdersOf(u), Gains(u, o),
         \A k \in Trips, s \in Segments : SeatsLeft(k)'[s] = SeatsLeft(k)[s] - Weight(o, k, s)
  PROVE  SoldFinite' /\ SeatsConserved'
<1>1. o.num \in Nat
  BY PartySize DEF OrderInfo
<1>2. ASSUME NEW k \in Trips, NEW s \in Segments
      PROVE  IsFiniteSet(Sold(k, s)') /\ SeatsLeft(k)'[s] + Cardinality(Sold(k, s)') = MaxSeat
  <2>1. IsFiniteSet(Sold(k, s)) /\ SeatsLeft(k)[s] + Cardinality(Sold(k, s)) = MaxSeat
    BY DEF SalesInv, SoldFinite, SeatsConserved
  <2>2. IsFiniteSet(Sold(k, s)') /\ Cardinality(Sold(k, s)') = Cardinality(Sold(k, s)) + Weight(o, k, s)
    BY <1>1, <2>1, GainsSold DEF SalesInv
  <2>3. Cardinality(Sold(k, s)) \in Nat /\ Weight(o, k, s) \in Nat /\ SeatsLeft(k)[s] \in Nat
    <3>1. SeatsLeft(k) \in Seats
      BY SeatsTyped DEF SalesInv
    <3> QED BY <1>1, <2>1, <3>1, FS_CardinalityType, SalesAssumption DEF Weight, Seats
  <2> QED BY <2>1, <2>2, <2>3
<1>3. SoldFinite'
  BY <1>2 DEF SoldFinite
<1>4. SeatsConserved'
  BY <1>2 DEF SeatsConserved
<1> QED BY <1>3, <1>4

LEMMA RestatesFinite ==
  ASSUME SalesInv, NEW u \in Users, NEW o \in OrdersOf(u), NEW st \in Statuses, st # o.status,
         Restates(u, o, st)
  PROVE  SoldFinite'
<1>1. ASSUME NEW k \in Trips, NEW s \in Segments
      PROVE  IsFiniteSet(Sold(k, s)')
  BY RestatesSold DEF SalesInv, SoldFinite
<1> QED BY <1>1 DEF SoldFinite

LEMMA RestatesConserved ==
  ASSUME SalesInv, status # "crashed", NEW u \in Users, NEW o \in OrdersOf(u), NEW st \in Statuses, st # o.status,
         Restates(u, o, st),
         \A k \in Trips, s \in Segments :
           SeatsLeft(k)'[s] = SeatsLeft(k)[s] + Weight(o, k, s) - Weight(Restated(o, st), k, s)
  PROVE  SeatsConserved'
<1>1. o.num \in Nat /\ Restated(o, st).num \in Nat
  BY InfoOfOrder, RestatedFields DEF SalesInv
<1>2. ASSUME NEW k \in Trips, NEW s \in Segments
      PROVE  SeatsLeft(k)'[s] + Cardinality(Sold(k, s)') = MaxSeat
  <2>1. IsFiniteSet(Sold(k, s)) /\ SeatsLeft(k)[s] + Cardinality(Sold(k, s)) = MaxSeat
    BY DEF SalesInv, SoldFinite, SeatsConserved
  <2>2. Cardinality(Sold(k, s)')
          = Cardinality(Sold(k, s)) - Weight(o, k, s) + Weight(Restated(o, st), k, s)
    BY <2>1, RestatesSold DEF SalesInv
  <2>3. /\ Cardinality(Sold(k, s)) \in Nat /\ SeatsLeft(k)[s] \in Nat
        /\ Weight(o, k, s) \in Nat /\ Weight(Restated(o, st), k, s) \in Nat
    <3>1. SeatsLeft(k) \in Seats
      BY SeatsTyped DEF SalesInv
    <3> QED BY <1>1, <2>1, <3>1, FS_CardinalityType, SalesAssumption DEF Weight, Seats
  <2> QED BY <2>1, <2>2, <2>3
<1> QED BY <1>2 DEF SeatsConserved

LEMMA SameConserved ==
  ASSUME SoldFinite, SeatsConserved, UNCHANGED orderlist, status # "crashed",
         \A k \in Trips : SeatsLeft(k)' = SeatsLeft(k)
  PROVE  SoldFinite' /\ SeatsConserved'
<1>1. \A k \in Trips, s \in Segments : Sold(k, s)' = Sold(k, s)
  BY DEF Sold, OrdersOf, Entries, Covers
<1> QED BY <1>1 DEF SoldFinite, SeatsConserved

-----------------------------------------------------------------------------
(* Waiting in vain. *)

NoVain(pages, seats) == \A w \in Entries(pages) : w.queue => ~Fits(seats, w.leg, w.num)

NoVainBefore(pages, seats, at) ==
  \A i \in 1 .. Slots(pages) :
    Slot(pages, i).queue /\ i < at => ~Fits(seats, Slot(pages, i).leg, Slot(pages, i).num)

NoVainOn(k) ==
  IF refund.trip = k THEN NoVainBefore(waitlist[k], refund.seats, refund.at)
                     ELSE NoVain(waitlist[k], FetchTicket(k))

LEMMA QueuedSlot ==
  ASSUME NEW pages, Waitlist(pages), NEW i \in 1 .. Slots(pages), Slot(pages, i).queue
  PROVE  Filled(pages, i) /\ Slot(pages, i) \in Entries(pages)
BY SlotFilled DEF UnusedSlot

LEMMA NoVainBySlot ==
  ASSUME NEW pages, Waitlist(pages), NEW seats
  PROVE  NoVain(pages, seats) <=>
           \A i \in 1 .. Slots(pages) :
             Slot(pages, i).queue => ~Fits(seats, Slot(pages, i).leg, Slot(pages, i).num)
<1>1. ASSUME NoVain(pages, seats), NEW i \in 1 .. Slots(pages), Slot(pages, i).queue
      PROVE  ~Fits(seats, Slot(pages, i).leg, Slot(pages, i).num)
  BY <1>1, QueuedSlot DEF NoVain
<1>2. ASSUME \A i \in 1 .. Slots(pages) :
               Slot(pages, i).queue => ~Fits(seats, Slot(pages, i).leg, Slot(pages, i).num)
      PROVE  NoVain(pages, seats)
  BY <1>2, SlotOfEntry DEF NoVain
<1> QED BY <1>1, <1>2

LEMMA NoVainNow ==
  ASSUME WaitlistsOK(waitlist)
  PROVE  NobodyWaitsInVain <=> (status # "crashed" => \A k \in Trips : NoVainOn(k))
<1>1. ASSUME NEW k \in Trips
      PROVE  NoVainOn(k) <=>
               \A i \in 1 .. Slots(waitlist[k]) :
                 Slot(waitlist[k], i).queue /\ (refund.trip = k => i < refund.at)
                   => ~Fits(SeatsLeft(k), Slot(waitlist[k], i).leg, Slot(waitlist[k], i).num)
  <2>1. Waitlist(waitlist[k])
    BY DEF WaitlistsOK
  <2>2. CASE refund.trip = k
    BY <2>2 DEF NoVainOn, NoVainBefore, SeatsLeft
  <2>3. CASE refund.trip # k
    BY <2>1, <2>3, NoVainBySlot DEF NoVainOn, SeatsLeft
  <2> QED BY <2>2, <2>3
<1> QED BY <1>1 DEF NobodyWaitsInVain

LEMMA NoVainNext ==
  ASSUME WaitlistsOK(waitlist')
  PROVE  NobodyWaitsInVain' <=> (status' # "crashed" => \A k \in Trips : NoVainOn(k)')
<1>1. ASSUME NEW k \in Trips
      PROVE  NoVainOn(k)' <=>
               \A i \in 1 .. Slots(waitlist'[k]) :
                 Slot(waitlist'[k], i).queue /\ (refund'.trip = k => i < refund'.at)
                   => ~Fits(SeatsLeft(k)', Slot(waitlist'[k], i).leg, Slot(waitlist'[k], i).num)
  <2>1. Waitlist(waitlist'[k])
    BY DEF WaitlistsOK
  <2>2. CASE refund'.trip = k
    BY <2>2 DEF NoVainOn, NoVainBefore, SeatsLeft
  <2>3. CASE refund'.trip # k
    BY <2>1, <2>3, NoVainBySlot DEF NoVainOn, SeatsLeft
  <2> QED BY <2>2, <2>3
<1> QED BY <1>1 DEF NobodyWaitsInVain

LEMMA LessVain ==
  ASSUME NEW few \in Seats, NEW many \in Seats, \A s \in Segments : few[s] <= many[s],
         NEW k \in Trips, TypeOK, NoVain(waitlist[k], many)
  PROVE  NoVain(waitlist[k], few)
<1>1. ASSUME NEW w \in Entries(waitlist[k]), w.queue, Fits(few, w.leg, w.num) PROVE FALSE
  <2>1. w.leg \in Legs /\ w.num \in Nat
    BY InfoOfWaiter DEF WaitInfo
  <2>2. Fits(many, w.leg, w.num)
    BY <1>1, <2>1, FitsLess
  <2> QED BY <1>1, <2>2 DEF NoVain
<1> QED BY <1>1 DEF NoVain

LEMMA MatchedQueues ==
  ASSUME TypeOK, Matched
  PROVE  QueuesMatchOrders
<1> DEFINE Waiter(w) == [user |-> w.user, timestamp |-> w.timestamp, leg |-> w.leg, num |-> w.num]
           Pending(u, o) == [user |-> u, timestamp |-> o.timestamp, leg |-> o.leg, num |-> o.num]
           Those(k, u) == {x \in OrdersOf(u) : x.trip = k /\ x.status = "pending"}
<1>1. ASSUME NEW k \in Trips, NEW w \in Queued(k)
      PROVE  w.user \in Users /\ \E o \in Those(k, w.user) : Waiter(w) = Pending(w.user, o)
  <2>1. w.user \in Users
    BY InfoOfWaiter DEF Queued, WaitInfo
  <2>2. PICK o \in OrdersOf(w.user) : StandsFor(w, k, w.user, o)
    BY DEF Matched
  <2>3. Waiter(w) = Pending(w.user, o) /\ o \in Those(k, w.user)
    BY <2>2 DEF StandsFor
  <2> QED BY <2>1, <2>3
<1>2. ASSUME NEW k \in Trips, NEW u \in Users, NEW o \in Those(k, u)
      PROVE  \E w \in Queued(k) : Waiter(w) = Pending(u, o)
  <2>1. PICK w \in Queued(o.trip) : StandsFor(w, o.trip, u, o)
    BY DEF Matched
  <2> QED BY <2>1 DEF StandsFor
<1>3. ASSUME NEW k \in Trips
      PROVE  {Waiter(w) : w \in Queued(k)} = UNION {{Pending(u, o) : o \in Those(k, u)} : u \in Users}
  <2> HIDE DEF Waiter, Pending, Those
  <2>1. ASSUME NEW x \in {Waiter(w) : w \in Queued(k)}
        PROVE  x \in UNION {{Pending(u, o) : o \in Those(k, u)} : u \in Users}
    <3>1. PICK w \in Queued(k) : x = Waiter(w)
      BY <2>1
    <3> QED BY <3>1, <1>1
  <2>2. ASSUME NEW x \in UNION {{Pending(u, o) : o \in Those(k, u)} : u \in Users}
        PROVE  x \in {Waiter(w) : w \in Queued(k)}
    <3>1. PICK u \in Users : \E o \in Those(k, u) : x = Pending(u, o)
      BY <2>2
    <3> QED BY <3>1, <1>2
  <2> QED BY <2>1, <2>2
<1> QED BY <1>3 DEF QueuesMatchOrders

-----------------------------------------------------------------------------
(* Buying and queueing. *)

LEMMA OrderIsNew ==
  ASSUME TypeOK, Numbered, NEW u \in Users, NEW o, o.timestamp = Newest + 1
  PROVE  o \notin OrdersOf(u)
<1>1. Newest \in Int
  BY SalesAssumption DEF TypeOK, Newest, InvalidPageId
<1>2. \A p \in OrdersOf(u) : p.timestamp <= Newest
  BY DEF Numbered
<1> QED BY <1>1, <1>2

LEMMA BuyKeeps ==
  ASSUME SalesInv, NEW u \in Users, NEW k \in Trips, NEW leg \in Legs, NEW num \in Nums,
         BuyTicket(u, k, leg, num)
  PROVE  SalesInv'
<1> DEFINE o == NewOrder(k, leg, num, "success")
           seats == Plus(FetchTicket(k), leg, -num)
<1> USE DEF SalesInv
<1>1. /\ status = "up" /\ refund = NoRefund /\ CanStamp /\ Fits(FetchTicket(k), leg, num)
      /\ ModifyTicket(k, seats) /\ Ordered(u, k, leg, num, "success")
      /\ UNCHANGED <<waitlist, header, refund, status>>
  BY DEF BuyTicket, Ready
<1>2. /\ timestamp' = Newest + 1 /\ timestamp' \in 0 .. MaxTimestamp
      /\ o \in OrderInfo /\ OrderlistsOK(orderlist') /\ Gains(u, o)
  BY <1>1, OrderedKeeps DEF Statuses
<1>3. /\ o.timestamp = Newest + 1 /\ o.trip = k /\ o.status = "success" /\ o.leg = leg /\ o.num = num
      /\ num \in Nat
  BY <1>1, PartySize DEF NewOrder, Newest
<1> HIDE DEF o
<1>4. FetchTicket(k) \in Seats /\ TicketsOK(tickets)
  BY SeatsTyped, StoresOK
<1>5. /\ seats \in Seats
      /\ \A s \in Segments : seats[s] = FetchTicket(k)[s] - (IF s \in Covers(leg) THEN num ELSE 0)
      /\ \A s \in Segments : seats[s] <= FetchTicket(k)[s]
  BY <1>1, <1>3, <1>4, TakeSeats
<1> HIDE DEF seats
<1>6. /\ TicketsOK(tickets')
      /\ \A j \in Trips : FetchTicket(j)' = IF j = k THEN seats ELSE FetchTicket(j)
  BY <1>1, <1>4, <1>5, TicketsStep
<1>7. WaitlistsOK(waitlist) /\ WaitlistsOK(waitlist')
  BY <1>1, StoresOK
<1>8. TypeOK' /\ ChainsSorted'
  <2>1. ScalarsOK'
    BY <1>1, <1>2, StoresOK, SalesAssumption DEF ScalarsOK, InvalidPageId
  <2> QED BY <2>1, <1>2, <1>6, <1>7, StoresOKNext
<1>9. Newest' = Newest + 1
  BY <1>1, <1>2 DEF Newest
<1>10. Numbered'
  <2>1. Newest \in Int
    BY SalesAssumption DEF TypeOK, Newest, InvalidPageId
  <2>2. \A j \in Trips : \A w \in Entries(waitlist[j])' : w.timestamp <= Newest + 1
    <3>1. ASSUME NEW j \in Trips, NEW w \in Entries(waitlist[j]) PROVE w.timestamp <= Newest + 1
      <4>1. w.timestamp <= Newest /\ w.timestamp \in Nat
        BY InfoOfWaiter DEF Numbered
      <4> QED BY <4>1, <2>1
    <3> QED BY <3>1, <1>1 DEF Entries
  <2> QED BY <2>2, <1>2, <1>3, <1>9, GainsNumbered
<1>11. \A j \in Trips : Queued(j)' = Queued(j)
  BY <1>1 DEF Queued, Entries
<1>12. Matched'
  <2>1. ASSUME NEW j \in Trips, NEW w \in Queued(j)'
        PROVE  \E p \in OrdersOf(w.user)' : StandsFor(w, j, w.user, p)
    <3>1. w \in Queued(j) /\ w.user \in Users
      BY <1>11, InfoOfWaiter DEF Queued, WaitInfo
    <3>2. PICK p \in OrdersOf(w.user) : StandsFor(w, j, w.user, p)
      BY <3>1 DEF Matched
    <3> QED BY <3>1, <3>2, <1>2 DEF Gains
  <2>2. ASSUME NEW v \in Users, NEW p \in OrdersOf(v)', p.status = "pending"
        PROVE  \E w \in Queued(p.trip)' : StandsFor(w, p.trip, v, p)
    <3>1. p \in OrdersOf(v)
      BY <2>2, <1>2, <1>3 DEF Gains
    <3>2. PICK w \in Queued(p.trip) : StandsFor(w, p.trip, v, p)
      BY <2>2, <3>1 DEF Matched
    <3>3. p.trip \in Trips
      BY <3>1, InfoOfOrder DEF OrderInfo
    <3> QED BY <3>2, <3>3, <1>11
  <2> QED BY <2>1, <2>2 DEF Matched, StandsFor
<1>13. SoldFinite' /\ SeatsConserved'
  <2>1. ASSUME NEW j \in Trips, NEW s \in Segments
        PROVE  SeatsLeft(j)'[s] = SeatsLeft(j)[s] - Weight(o, j, s)
    <3>1. SeatsLeft(j) = FetchTicket(j) /\ SeatsLeft(j)' = FetchTicket(j)'
      BY <1>1, SalesAssumption DEF SeatsLeft, NoRefund
    <3>2. SeatsLeft(j)[s] \in Int
      BY SeatsTyped, SalesAssumption DEF Seats
    <3> QED BY <3>1, <3>2, <1>3, <1>5, <1>6 DEF Weight, Counts
  <2>2. o \notin OrdersOf(u)
    BY <1>3, OrderIsNew
  <2> QED BY <2>1, <2>2, <1>1, <1>2, GainsConserved
<1>14. NobodyWaitsInVain'
  <2>1. ASSUME NEW j \in Trips PROVE NoVainOn(j)'
    <3>1. refund.trip # j /\ refund'.trip # j
      BY <1>1, SalesAssumption DEF NoRefund
    <3>2. NoVain(waitlist[j], FetchTicket(j))
      BY <3>1, <1>1, <1>7, NoVainNow DEF NoVainOn
    <3>3. FetchTicket(j)' \in Seats /\ FetchTicket(j) \in Seats
          /\ \A s \in Segments : FetchTicket(j)'[s] <= FetchTicket(j)[s]
      <4>1. FetchTicket(j) \in Seats
        BY SeatsTyped
      <4> QED BY <4>1, <1>5, <1>6, SalesAssumption DEF Seats
    <3>4. NoVain(waitlist[j], FetchTicket(j)')
      BY <3>2, <3>3, LessVain
    <3> QED BY <3>1, <3>4, <1>1 DEF NoVainOn
  <2> QED BY <2>1, <1>7, NoVainNext
<1>15. PassSound'
  BY <1>1 DEF PassSound
<1> QED BY <1>8, <1>10, <1>12, <1>13, <1>14, <1>15

LEMMA QueueKeeps ==
  ASSUME SalesInv, NEW u \in Users, NEW k \in Trips, NEW leg \in Legs, NEW num \in Nums,
         QueueForTicket(u, k, leg, num)
  PROVE  SalesInv'
<1> DEFINE o == NewOrder(k, leg, num, "pending")
           info == [timestamp |-> timestamp + 1, num |-> num, user |-> u, leg |-> leg, queue |-> TRUE]
           new == Enqueued(waitlist[k], info)
<1> USE DEF SalesInv
<1>1. /\ status = "up" /\ refund = NoRefund /\ CanStamp /\ ~Fits(FetchTicket(k), leg, num)
      /\ waitlist' = Put(waitlist, k, new) /\ Ordered(u, k, leg, num, "pending")
      /\ UNCHANGED <<tickets, header, refund, status>>
  BY DEF QueueForTicket, Ready, Put
<1>2. /\ timestamp' = Newest + 1 /\ timestamp' \in 0 .. MaxTimestamp
      /\ o \in OrderInfo /\ OrderlistsOK(orderlist') /\ Gains(u, o)
  BY <1>1, OrderedKeeps DEF Statuses
<1>3. /\ o.timestamp = Newest + 1 /\ o.trip = k /\ o.status = "pending" /\ o.leg = leg /\ o.num = num
      /\ Newest \in Int
  BY <1>1, SalesAssumption DEF NewOrder, Newest, TypeOK, InvalidPageId
<1>4. /\ info \in WaitInfo /\ info.timestamp = Newest + 1 /\ info.user = u /\ info.leg = leg
      /\ info.num = num /\ info.queue = TRUE
  <2>1. timestamp + 1 \in 0 .. MaxTimestamp /\ Newest = timestamp
    BY <1>1, <1>2 DEF Ordered, Newest
  <2> QED BY <2>1 DEF WaitInfo
<1> HIDE DEF o, info
<1>5. TicketsOK(tickets) /\ WaitlistsOK(waitlist) /\ Waitlist(waitlist[k])
  BY StoresOK DEF WaitlistsOK
<1>6. \A j \in Trips : \A w \in Entries(waitlist[j]) : w.timestamp < Newest + 1
  <2>1. ASSUME NEW j \in Trips, NEW w \in Entries(waitlist[j]) PROVE w.timestamp < Newest + 1
    <3>1. w.timestamp <= Newest /\ w.timestamp \in Nat
      BY InfoOfWaiter DEF Numbered
    <3> QED BY <3>1, <1>3
  <2> QED BY <2>1
<1>7. Waitlist(new) /\ Entries(new) = Entries(waitlist[k]) \cup {info}
  BY <1>4, <1>5, <1>6, EnqueuedKeeps, WaitInfoStamped DEF Waitlist
<1> HIDE DEF new
<1>8. WaitlistsOK(waitlist') /\ IsPut(waitlist', waitlist, k, new, Trips)
  BY <1>1, <1>5, <1>7, WaitlistsStep
<1>9. \A j \in Trips : Entries(waitlist'[j]) = IF j = k THEN Entries(waitlist[j]) \cup {info} ELSE Entries(waitlist[j])
  BY <1>7, <1>8 DEF IsPut
<1>10. TypeOK' /\ ChainsSorted'
  <2>1. ScalarsOK'
    BY <1>1, <1>2, StoresOK, SalesAssumption DEF ScalarsOK, InvalidPageId
  <2>2. TicketsOK(tickets')
    BY <1>1, <1>5
  <2> QED BY <2>1, <2>2, <1>2, <1>8, StoresOKNext
<1>11. Newest' = Newest + 1
  BY <1>1, <1>2 DEF Newest
<1>12. Numbered'
  <2>1. \A j \in Trips : \A w \in Entries(waitlist[j])' : w.timestamp <= Newest + 1
    <3>1. ASSUME NEW j \in Trips, NEW w \in Entries(waitlist'[j]) PROVE w.timestamp <= Newest + 1
      <4>1. CASE w = info
        BY <4>1, <1>3, <1>4
      <4>2. CASE w # info
        <5>1. w \in Entries(waitlist[j])
          BY <4>2, <1>9
        <5>2. w.timestamp \in Nat
          BY <5>1, InfoOfWaiter
        <5> QED BY <5>1, <5>2, <1>3, <1>6
      <4> QED BY <4>1, <4>2
    <3> QED BY <3>1 DEF Entries
  <2> QED BY <2>1, <1>2, <1>3, <1>11, GainsNumbered
<1>13. \A j \in Trips : Queued(j)' = IF j = k THEN Queued(j) \cup {info} ELSE Queued(j)
  <2>1. ASSUME NEW j \in Trips
        PROVE  Queued(j)' = IF j = k THEN Queued(j) \cup {info} ELSE Queued(j)
    <3>1. Queued(j)' = {w \in Entries(waitlist'[j]) : w.queue}
      BY DEF Queued, Entries
    <3> QED BY <3>1, <1>4, <1>9 DEF Queued
  <2> QED BY <2>1
<1>14. Matched'
  <2>1. ASSUME NEW j \in Trips, NEW w \in Queued(j)'
        PROVE  \E p \in OrdersOf(w.user)' : StandsFor(w, j, w.user, p)
    <3>1. CASE j = k /\ w = info
      <4>1. o \in OrdersOf(u)' /\ StandsFor(info, k, u, o)
        BY <1>2, <1>3, <1>4 DEF Gains, StandsFor
      <4> QED BY <3>1, <4>1, <1>4
    <3>2. CASE ~(j = k /\ w = info)
      <4>1. w \in Queued(j)
        BY <3>2, <1>13
      <4>2. w.user \in Users
        BY <4>1, InfoOfWaiter DEF Queued, WaitInfo
      <4>3. PICK p \in OrdersOf(w.user) : StandsFor(w, j, w.user, p)
        BY <4>1 DEF Matched
      <4> QED BY <4>2, <4>3, <1>2 DEF Gains
    <3> QED BY <3>1, <3>2
  <2>2. ASSUME NEW v \in Users, NEW p \in OrdersOf(v)', p.status = "pending"
        PROVE  \E w \in Queued(p.trip)' : StandsFor(w, p.trip, v, p)
    <3>1. CASE v = u /\ p = o
      <4>1. info \in Queued(k)' /\ StandsFor(info, k, u, o)
        BY <1>3, <1>4, <1>13 DEF StandsFor
      <4> QED BY <3>1, <4>1, <1>3
    <3>2. CASE ~(v = u /\ p = o)
      <4>1. p \in OrdersOf(v)
        BY <3>2, <1>2 DEF Gains
      <4>2. PICK w \in Queued(p.trip) : StandsFor(w, p.trip, v, p)
        BY <2>2, <4>1 DEF Matched
      <4>3. p.trip \in Trips
        BY <4>1, InfoOfOrder DEF OrderInfo
      <4> QED BY <4>2, <4>3, <1>13
    <3> QED BY <3>1, <3>2
  <2> QED BY <2>1, <2>2 DEF Matched, StandsFor
<1>15. \A j \in Trips : SeatsLeft(j)' = SeatsLeft(j) /\ FetchTicket(j)' = FetchTicket(j)
  BY <1>1 DEF SeatsLeft, FetchTicket
<1>16. SoldFinite' /\ SeatsConserved'
  <2>1. ASSUME NEW j \in Trips, NEW s \in Segments
        PROVE  SeatsLeft(j)'[s] = SeatsLeft(j)[s] - Weight(o, j, s)
    <3>1. SeatsLeft(j)[s] \in Int
      BY SeatsTyped, SalesAssumption DEF Seats
    <3> QED BY <3>1, <1>3, <1>15 DEF Weight, Counts
  <2>2. o \notin OrdersOf(u)
    BY <1>3, OrderIsNew
  <2> QED BY <2>1, <2>2, <1>1, <1>2, GainsConserved
<1>17. NobodyWaitsInVain'
  <2>1. ASSUME NEW j \in Trips PROVE NoVainOn(j)'
    <3>1. refund.trip # j /\ refund'.trip # j
      BY <1>1, SalesAssumption DEF NoRefund
    <3>2. NoVain(waitlist[j], FetchTicket(j))
      BY <3>1, <1>1, <1>5, NoVainNow DEF NoVainOn
    <3>3. NoVain(waitlist'[j], FetchTicket(j))
      BY <3>2, <1>1, <1>4, <1>9 DEF NoVain
    <3> QED BY <3>1, <3>3, <1>15 DEF NoVainOn
  <2> QED BY <2>1, <1>8, NoVainNext
<1>18. PassSound'
  BY <1>1 DEF PassSound
<1> QED BY <1>10, <1>12, <1>14, <1>16, <1>17, <1>18

-----------------------------------------------------------------------------
(* Refunding. *)

LEMMA RestatesMatchedSame ==
  ASSUME TypeOK, Matched, NEW u \in Users, NEW o \in OrdersOf(u), NEW st \in Statuses,
         o.status # "pending", st # "pending", Restates(u, o, st),
         \A j \in Trips : Queued(j)' = Queued(j)
  PROVE  Matched'
<1>1. o \in OrderInfo /\ Restated(o, st).status = st
  BY InfoOfOrder, RestatedFields
<1>2. ASSUME NEW j \in Trips, NEW x \in Queued(j)'
      PROVE  \E p \in OrdersOf(x.user)' : StandsFor(x, j, x.user, p)
  <2>1. x \in Queued(j) /\ x.user \in Users
    BY InfoOfWaiter DEF Queued, WaitInfo
  <2>2. PICK p \in OrdersOf(x.user) : StandsFor(x, j, x.user, p)
    BY <2>1 DEF Matched
  <2>3. p # o
    BY <2>2 DEF StandsFor
  <2> QED BY <2>1, <2>2, <2>3 DEF Restates
<1>3. ASSUME NEW v \in Users, NEW p \in OrdersOf(v)', p.status = "pending"
      PROVE  \E x \in Queued(p.trip)' : StandsFor(x, p.trip, v, p)
  <2>1. p \in OrdersOf(v)
    BY <1>1, <1>3 DEF Restates
  <2>2. PICK x \in Queued(p.trip) : StandsFor(x, p.trip, v, p)
    BY <1>3, <2>1 DEF Matched
  <2>3. p.trip \in Trips
    BY <2>1, InfoOfOrder DEF OrderInfo
  <2> QED BY <2>2, <2>3
<1> QED BY <1>2, <1>3 DEF Matched, StandsFor

\* A pending order and its place in the queue go together.
LEMMA RestatesMatchedLess ==
  ASSUME TypeOK, ChainsSorted, Numbered, Matched, NEW u \in Users, NEW o \in OrdersOf(u), NEW st \in Statuses,
         o.status = "pending", st # "pending", Restates(u, o, st),
         NEW w \in Queued(o.trip), w.timestamp = o.timestamp,
         \A j \in Trips : Queued(j)' = IF j = o.trip THEN Queued(j) \ {w} ELSE Queued(j)
  PROVE  Matched'
<1>1. o \in OrderInfo /\ Restated(o, st).status = st /\ o.trip \in Trips
  BY InfoOfOrder, RestatedFields DEF OrderInfo
<1>2. ASSUME NEW j \in Trips, NEW x \in Queued(j)'
      PROVE  \E p \in OrdersOf(x.user)' : StandsFor(x, j, x.user, p)
  <2>1. x \in Queued(j) /\ (j = o.trip => x # w) /\ x.user \in Users
    BY InfoOfWaiter DEF Queued, WaitInfo
  <2>2. PICK p \in OrdersOf(x.user) : StandsFor(x, j, x.user, p)
    BY <2>1 DEF Matched
  <2>3. ~(x.user = u /\ p = o)
    <3> SUFFICES ASSUME x.user = u, p = o PROVE FALSE
      OBVIOUS
    <3>1. j = o.trip /\ x.timestamp = w.timestamp
      BY <2>2 DEF StandsFor
    <3>2. x \in Entries(waitlist[j]) /\ w \in Entries(waitlist[j])
      BY <2>1, <3>1 DEF Queued
    <3>3. PagesOf(waitlist[j], WaitInfo, WaitPageSize) /\ Sorted(waitlist[j]) /\ WaitPageSize \in Nat
      BY SalesAssumption DEF TypeOK, ChainsSorted, Sorted
    <3>4. x = w
      BY <3>1, <3>2, <3>3, StampNames, WaitInfoStamped
    <3> QED BY <3>1, <3>4, <2>1
  <2> QED BY <2>1, <2>2, <2>3 DEF Restates
<1>3. ASSUME NEW v \in Users, NEW p \in OrdersOf(v)', p.status = "pending"
      PROVE  \E x \in Queued(p.trip)' : StandsFor(x, p.trip, v, p)
  <2>1. p \in OrdersOf(v) /\ ~(v = u /\ p = o)
    BY <1>1, <1>3 DEF Restates
  <2>2. PICK x \in Queued(p.trip) : StandsFor(x, p.trip, v, p)
    BY <1>3, <2>1 DEF Matched
  <2>3. p.trip \in Trips
    BY <2>1, InfoOfOrder DEF OrderInfo
  <2>4. x # w
    BY <2>1, <2>2 DEF StandsFor, Numbered
  <2> QED BY <2>2, <2>3, <2>4
<1> QED BY <1>2, <1>3 DEF Matched, StandsFor

\* The first slot with the timestamp of an entry is that of the entry, though the
\* unused slots look like number 0.
LEMMA FirstSlot ==
  ASSUME NEW pages, Waitlist(pages), NEW w \in Entries(pages),
         NEW i, i = Min({n \in 1 .. Slots(pages) : Slot(pages, n).timestamp = w.timestamp})
  PROVE  i \in 1 .. Slots(pages) /\ Filled(pages, i) /\ Slot(pages, i) = w
<1> DEFINE S == {n \in 1 .. Slots(pages) : Slot(pages, n).timestamp = w.timestamp}
<1>0. WaitPageSize \in Nat /\ WaitPageSize >= 1 /\ PagesOf(pages, WaitInfo, WaitPageSize)
  BY SalesAssumption DEF Waitlist
<1>1. PICK m \in 1 .. Slots(pages) : Filled(pages, m) /\ Slot(pages, m) = w
  BY SlotOfEntry
<1>2. i \in S /\ \A y \in S : i <= y
  <2>1. m \in S
    BY <1>1
  <2>2. S \in SUBSET Nat
    BY <1>0, PositionInChain
  <2> QED BY <2>1, <2>2, MinNat
<1>3. i \in 1 .. Slots(pages) /\ Slot(pages, i).timestamp = w.timestamp /\ i <= m
  BY <1>1, <1>2
<1>4. ASSUME ~Filled(pages, i) PROVE FALSE
  <2>1. w.timestamp = 0
    BY <1>3, <1>4, SlotFilled DEF UnusedSlot
  <2>2. i \in Nat /\ i >= 1 /\ m \in Nat
    BY <1>0, <1>3, PositionInChain
  <2>3. i < m
    BY <2>2, <1>1, <1>3, <1>4
  <2>4. 1 \in 1 .. Slots(pages) /\ 1 < m
    <3>1. Slots(pages) \in Int
      BY <1>0, Shape DEF Slots
    <3> QED BY <2>2, <2>3, <3>1
  <2>5. PageOf(1) = 1 /\ SlotOf(1) = 1
    <3>1. 0 \div WaitPageSize = 0 /\ 0 % WaitPageSize = 0
      <4>1. (0 * WaitPageSize + 0) \div WaitPageSize = 0 /\ (0 * WaitPageSize + 0) % WaitPageSize = 0
        BY <1>0, DivModOf
      <4>2. 0 * WaitPageSize + 0 = 0
        BY <1>0
      <4> QED BY <4>1, <4>2
    <3>2. 1 - 1 = 0
      OBVIOUS
    <3> QED BY <3>1, <3>2 DEF PageOf, SlotOf
  <2>6. Filled(pages, 1)
    <3>1. 1 \in DOMAIN pages
      BY <1>0, <2>4, <2>5, PositionInChain
    <3>2. Len(pages[1]) \in 1 .. WaitPageSize /\ pages[1] \in Seq(WaitInfo)
      BY <1>0, <3>1 DEF PagesOf
    <3> QED BY <2>5, <3>2, <1>0 DEF Filled
  <2>7. Slot(pages, 1).timestamp < w.timestamp
    BY <2>4, <2>6, <1>1, SlotsSorted
  <2>8. Slot(pages, 1).timestamp \in Nat
    <3>1. Slot(pages, 1) \in Entries(pages)
      BY <2>4, <2>6, SlotFilled
    <3> QED BY <3>1, <1>0, Shape, WaitInfoStamped DEF Stamped
  <2> QED BY <2>1, <2>7, <2>8
<1>5. Slot(pages, i) \in Entries(pages)
  BY <1>3, <1>4, SlotFilled
<1> QED BY <1>0, <1>3, <1>4, <1>5, StampNames, WaitInfoStamped DEF Waitlist, Sorted

\* What the four outcomes of a refund share.
Refunding(u, o) ==
  /\ Ready /\ u \in Users /\ o \in OrdersOf(u) /\ o.status # "refunded"
  /\ OrderlistsOK(orderlist') /\ Restates(u, o, "refunded")
  /\ UNCHANGED <<timestamp, header>>

LEMMA RefundFinds ==
  ASSUME TypeOK, ChainsSorted, Ready, NEW u \in Users, NEW num, NEW at \in Found(orderlist[u], num),
         OrderAt(u, at).status # "refunded",
         orderlist' = [orderlist EXCEPT ![u] = WithStatus(@, at, "refunded")],
         UNCHANGED <<timestamp, header>>
  PROVE  Refunding(u, OrderAt(u, at))
<1> DEFINE new == WithStatus(orderlist[u], at, "refunded")
<1>1. Orderlist(orderlist[u])
  BY StoresOK DEF OrderlistsOK
<1>2. at[1] \in DOMAIN orderlist[u] /\ at[2] \in DOMAIN orderlist[u][at[1]]
  BY <1>1, FoundIsThere
<1>3. OrderAt(u, at) \in OrdersOf(u) /\ IsRestated(new, orderlist[u], OrderAt(u, at), "refunded")
  BY <1>1, <1>2, WithStatusKeeps DEF OrderAt, OrdersOf, Statuses
<1>4. orderlist' = Put(orderlist, u, new)
  BY DEF Put
<1>5. OrderlistsOK(orderlist') /\ Restates(u, OrderAt(u, at), "refunded")
  BY <1>3, <1>4, RestatedKeeps DEF Statuses
<1> QED BY <1>3, <1>5 DEF Refunding

LEMMA RefundNumbered ==
  ASSUME SalesInv, NEW u, NEW o, Refunding(u, o), status' # "down",
         \A j \in Trips : \A w \in Entries(waitlist[j])' :
           \E x \in Entries(waitlist[j]) : w.timestamp = x.timestamp
  PROVE  Numbered'
<1>1. Newest' = Newest
  BY DEF Newest, Refunding, Ready
<1>2. \A j \in Trips : \A w \in Entries(waitlist[j])' : w.timestamp <= Newest
  BY DEF SalesInv, Numbered
<1> QED BY <1>1, <1>2, RestatesNumbered DEF SalesInv, Refunding, Statuses

\* The seats of an order that is refunded fit back into the train.
LEMMA SeatsReturn ==
  ASSUME SalesInv, NEW u, NEW o, Refunding(u, o), o.status = "success"
  PROVE  /\ Plus(FetchTicket(o.trip), o.leg, o.num) \in Seats
         /\ \A k \in Trips, s \in Segments :
              (IF k = o.trip THEN Plus(FetchTicket(o.trip), o.leg, o.num) ELSE FetchTicket(k))[s]
                = SeatsLeft(k)[s] + Weight(o, k, s) - Weight(Restated(o, "refunded"), k, s)
<1> DEFINE r == Restated(o, "refunded")
<1>1. o \in OrderInfo /\ o.num \in Nat /\ o.trip \in Trips /\ o.leg \in Legs /\ r.status = "refunded"
  BY InfoOfOrder, RestatedFields DEF SalesInv, Refunding, OrderInfo, Statuses
<1>2. \A k \in Trips : SeatsLeft(k) = FetchTicket(k) /\ FetchTicket(k) \in Seats
  BY SeatsTyped, SalesAssumption DEF SalesInv, Refunding, Ready, SeatsLeft, NoRefund
<1>3. \A k \in Trips, s \in Segments : Weight(r, k, s) = 0
  BY <1>1 DEF Weight, Counts
<1> HIDE DEF r
<1>4. ASSUME NEW s \in Segments, s \in Covers(o.leg)
      PROVE  FetchTicket(o.trip)[s] + o.num <= MaxSeat
  <2> DEFINE c == Cardinality(Sold(o.trip, s))
             d == Cardinality(Sold(o.trip, s)')
  <2>1. IsFiniteSet(Sold(o.trip, s)) /\ FetchTicket(o.trip)[s] + c = MaxSeat
    BY <1>1, <1>2 DEF SalesInv, SoldFinite, SeatsConserved, Refunding, Ready
  <2>2. IsFiniteSet(Sold(o.trip, s)') /\ d = c - Weight(o, o.trip, s) + Weight(r, o.trip, s)
    BY <2>1, RestatesSold DEF SalesInv, Refunding, Statuses, r
  <2>3. Weight(o, o.trip, s) = o.num /\ Weight(r, o.trip, s) = 0
    BY <1>1, <1>3, <1>4 DEF Weight, Counts
  <2>4. c \in Nat /\ d \in Nat /\ FetchTicket(o.trip)[s] \in Nat
    BY <2>1, <2>2, <1>1, <1>2, FS_CardinalityType, SalesAssumption DEF Seats
  <2> HIDE DEF c, d
  <2> QED BY <2>1, <2>2, <2>3, <2>4, <1>1, SalesAssumption
<1>5. /\ Plus(FetchTicket(o.trip), o.leg, o.num) \in Seats
      /\ \A s \in Segments : Plus(FetchTicket(o.trip), o.leg, o.num)[s]
                               = FetchTicket(o.trip)[s] + (IF s \in Covers(o.leg) THEN o.num ELSE 0)
  BY <1>1, <1>2, <1>4, GiveSeats
<1>6. ASSUME NEW k \in Trips, NEW s \in Segments
      PROVE  (IF k = o.trip THEN Plus(FetchTicket(o.trip), o.leg, o.num) ELSE FetchTicket(k))[s]
                = SeatsLeft(k)[s] + Weight(o, k, s) - Weight(r, k, s)
  <2>1. SeatsLeft(k)[s] = FetchTicket(k)[s] /\ FetchTicket(k)[s] \in Int /\ Weight(r, k, s) = 0
    BY <1>2, <1>3, SalesAssumption DEF Seats
  <2>2. CASE k = o.trip
    BY <2>1, <2>2, <1>1, <1>5 DEF Weight, Counts
  <2>3. CASE k # o.trip
    BY <2>1, <2>3 DEF Weight, Counts
  <2> QED BY <2>2, <2>3
<1> QED BY <1>5, <1>6 DEF r

LEMMA RefundSoldKeeps ==
  ASSUME SalesInv, NEW u, NEW o, Refunding(u, o), RefundSold(o)
  PROVE  SalesInv'
<1> DEFINE seats == Plus(FetchTicket(o.trip), o.leg, o.num)
<1> USE DEF SalesInv
<1>1. /\ o.status = "success" /\ waitlist[o.trip] = <<>> /\ ModifyTicket(o.trip, seats)
      /\ UNCHANGED <<waitlist, refund, status, timestamp, header>>
      /\ status = "up" /\ refund = NoRefund /\ u \in Users /\ o \in OrdersOf(u)
      /\ OrderlistsOK(orderlist') /\ Restates(u, o, "refunded")
  BY DEF RefundSold, Refunding, Ready
<1>2. /\ seats \in Seats
      /\ \A k \in Trips, s \in Segments :
           (IF k = o.trip THEN seats ELSE FetchTicket(k))[s]
             = SeatsLeft(k)[s] + Weight(o, k, s) - Weight(Restated(o, "refunded"), k, s)
  BY <1>1, SeatsReturn
<1> HIDE DEF seats
<1>3. o.trip \in Trips
  BY <1>1, InfoOfOrder DEF OrderInfo
<1>4. TicketsOK(tickets') /\ \A j \in Trips : FetchTicket(j)' = IF j = o.trip THEN seats ELSE FetchTicket(j)
  BY <1>1, <1>2, <1>3, StoresOK, TicketsStep
<1>5. WaitlistsOK(waitlist) /\ WaitlistsOK(waitlist')
  BY <1>1, StoresOK
<1>6. TypeOK' /\ ChainsSorted'
  <2>1. ScalarsOK'
    BY <1>1, StoresOK DEF ScalarsOK
  <2> QED BY <2>1, <1>1, <1>4, <1>5, StoresOKNext
<1>7. \A j \in Trips : Entries(waitlist[j])' = Entries(waitlist[j]) /\ Queued(j)' = Queued(j)
  BY <1>1 DEF Queued, Entries
<1>8. Numbered'
  BY <1>1, <1>7, RefundNumbered
<1>9. Matched'
  BY <1>1, <1>7, RestatesMatchedSame DEF Statuses
<1>10. SoldFinite' /\ SeatsConserved'
  <2>1. \A j \in Trips : SeatsLeft(j)' = IF j = o.trip THEN seats ELSE FetchTicket(j)
    BY <1>1, <1>4, SalesAssumption DEF SeatsLeft, NoRefund
  <2> QED BY <2>1, <1>1, <1>2, RestatesFinite, RestatesConserved DEF Statuses
<1>11. NobodyWaitsInVain'
  <2>1. ASSUME NEW j \in Trips PROVE NoVainOn(j)'
    <3>1. refund.trip # j /\ refund'.trip # j
      BY <1>1, SalesAssumption DEF NoRefund
    <3>2. CASE j = o.trip
      <4>1. NoVain(waitlist'[j], FetchTicket(j)')
        BY <3>2, <1>1 DEF NoVain, Entries
      <4> QED BY <3>1, <4>1 DEF NoVainOn, NoVain, Entries, FetchTicket, Fits, Covers
    <3>3. CASE j # o.trip
      <4>1. NoVain(waitlist[j], FetchTicket(j))
        BY <3>1, <1>1, <1>5, NoVainNow DEF NoVainOn
      <4>2. waitlist'[j] = waitlist[j] /\ FetchTicket(j)' = FetchTicket(j)
        BY <3>3, <1>1, <1>4
      <4> QED BY <3>1, <4>1, <4>2 DEF NoVainOn
    <3> QED BY <3>2, <3>3
  <2> QED BY <2>1, <1>5, NoVainNext
<1>12. PassSound'
  BY <1>1 DEF PassSound
<1> QED BY <1>6, <1>8, <1>9, <1>10, <1>11, <1>12

LEMMA TidiedWaitlist ==
  ASSUME WaitlistsOK(waitlist), NEW k \in Trips
  PROVE  /\ Waitlist(Tidied(k)) /\ Waitlist(waitlist[k])
         /\ Entries(Tidied(k)) \subseteq Entries(waitlist[k])
         /\ {w \in Entries(Tidied(k)) : w.queue} = Queued(k)
<1>1. Waitlist(waitlist[k])
  BY DEF WaitlistsOK
<1>2. Waitlist(Tidied(k)) /\ IsTidied(Tidied(k), waitlist[k])
  BY <1>1, TidiedKeeps DEF Waitlist, Tidied
<1> QED BY <1>1, <1>2 DEF IsTidied, Queued

LEMMA RefundPendingKeeps ==
  ASSUME SalesInv, NEW u, NEW o, Refunding(u, o), RefundPending(o)
  PROVE  SalesInv'
<1> DEFINE k == o.trip
           pages == Tidied(k)
           i == Min({n \in 1 .. Slots(pages) : Slot(pages, n).timestamp = o.timestamp})
           new == Unqueued(pages, i)
<1> USE DEF SalesInv
<1>1. /\ o.status = "pending" /\ waitlist' = Put(waitlist, k, new)
      /\ UNCHANGED <<tickets, refund, status, timestamp, header>>
      /\ status = "up" /\ refund = NoRefund /\ u \in Users /\ o \in OrdersOf(u)
      /\ OrderlistsOK(orderlist') /\ Restates(u, o, "refunded")
  BY DEF RefundPending, Refunding, Ready, Put
<1>2. o \in OrderInfo /\ k \in Trips /\ o.timestamp \in Nat
  BY <1>1, InfoOfOrder DEF OrderInfo
<1>3. /\ WaitlistsOK(waitlist) /\ Waitlist(pages) /\ Waitlist(waitlist[k])
      /\ Entries(pages) \subseteq Entries(waitlist[k])
      /\ {w \in Entries(pages) : w.queue} = Queued(k)
  BY <1>2, StoresOK, TidiedWaitlist
<1>4. PICK w \in Queued(k) : StandsFor(w, k, u, o)
  BY <1>1 DEF Matched
<1> HIDE DEF pages
<1>5. w \in Entries(pages) /\ w.queue /\ w.timestamp = o.timestamp
  BY <1>3, <1>4 DEF StandsFor
<1>6. i \in 1 .. Slots(pages) /\ Filled(pages, i) /\ Slot(pages, i) = w
  BY <1>3, <1>5, FirstSlot
<1> HIDE DEF i
<1>7. IsUnqueued(new, pages, i)
  BY <1>3, <1>6, UnqueuedKeeps
<1> HIDE DEF new
<1>8. Waitlist(new) /\ Entries(new) = (Entries(pages) \ {w}) \cup {Dequeued(w)}
  BY <1>6, <1>7 DEF IsUnqueued
<1>9. Dequeued(w).queue = FALSE /\ Dequeued(w).timestamp = w.timestamp
  <2>1. w \in WaitInfo
    BY <1>2, <1>3, <1>5, InfoOfWaiter
  <2> QED BY <2>1 DEF WaitInfo, Dequeued
<1>10. WaitlistsOK(waitlist') /\ IsPut(waitlist', waitlist, k, new, Trips)
  BY <1>1, <1>2, <1>3, <1>8, WaitlistsStep
<1>11. TypeOK' /\ ChainsSorted'
  <2>1. ScalarsOK' /\ TicketsOK(tickets')
    BY <1>1, StoresOK DEF ScalarsOK
  <2> QED BY <2>1, <1>1, <1>10, StoresOKNext
<1>12. \A j \in Trips : Queued(j)' = IF j = k THEN Queued(j) \ {w} ELSE Queued(j)
  <2>1. ASSUME NEW j \in Trips
        PROVE  Queued(j)' = IF j = k THEN Queued(j) \ {w} ELSE Queued(j)
    <3>1. Queued(j)' = {x \in Entries(waitlist'[j]) : x.queue}
      BY DEF Queued, Entries
    <3>2. CASE j = k
      <4>1. waitlist'[j] = new
        BY <3>2, <1>10 DEF IsPut
      <4> QED BY <3>1, <3>2, <4>1, <1>3, <1>8, <1>9
    <3>3. CASE j # k
      <4>1. waitlist'[j] = waitlist[j]
        BY <3>3, <1>10 DEF IsPut
      <4> QED BY <3>1, <3>3, <4>1 DEF Queued
    <3> QED BY <3>2, <3>3
  <2> QED BY <2>1
<1>13. Numbered'
  <2>1. ASSUME NEW j \in Trips, NEW x \in Entries(waitlist'[j])
        PROVE  \E y \in Entries(waitlist[j]) : x.timestamp = y.timestamp
    <3>1. CASE j = k
      <4>1. waitlist'[j] = new
        BY <3>1, <1>10 DEF IsPut
      <4> QED BY <3>1, <4>1, <1>3, <1>5, <1>8, <1>9
    <3>2. CASE j # k
      BY <3>2, <1>10 DEF IsPut
    <3> QED BY <3>1, <3>2
  <2>2. \A j \in Trips : \A x \in Entries(waitlist[j])' :
          \E y \in Entries(waitlist[j]) : x.timestamp = y.timestamp
    BY <2>1 DEF Entries
  <2> QED BY <2>2, <1>1, RefundNumbered
<1>14. Matched'
  BY <1>1, <1>4, <1>5, <1>12, RestatesMatchedLess DEF Statuses
<1>15. \A j \in Trips : SeatsLeft(j)' = SeatsLeft(j) /\ FetchTicket(j)' = FetchTicket(j)
  BY <1>1 DEF SeatsLeft, FetchTicket
<1>16. SoldFinite' /\ SeatsConserved'
  <2>1. ASSUME NEW j \in Trips, NEW s \in Segments
        PROVE  SeatsLeft(j)'[s] = SeatsLeft(j)[s] + Weight(o, j, s) - Weight(Restated(o, "refunded"), j, s)
    <3>1. SeatsLeft(j)[s] \in Int
      BY SeatsTyped, SalesAssumption DEF Seats
    <3>2. Weight(o, j, s) = 0 /\ Weight(Restated(o, "refunded"), j, s) = 0
      BY <1>1, <1>2, RestatedFields DEF Weight, Counts, Statuses
    <3> QED BY <3>1, <3>2, <1>15
  <2> QED BY <2>1, <1>1, RestatesFinite, RestatesConserved DEF Statuses
<1>17. NobodyWaitsInVain'
  <2>1. ASSUME NEW j \in Trips PROVE NoVainOn(j)'
    <3>1. refund.trip # j /\ refund'.trip # j
      BY <1>1, SalesAssumption DEF NoRefund
    <3>2. NoVain(waitlist[j], FetchTicket(j))
      BY <3>1, <1>1, <1>3, NoVainNow DEF NoVainOn
    <3>3. NoVain(waitlist'[j], FetchTicket(j))
      <4>1. CASE j = k
        <5>1. waitlist'[j] = new
          BY <4>1, <1>10 DEF IsPut
        <5> QED BY <3>2, <4>1, <5>1, <1>3, <1>8, <1>9 DEF NoVain
      <4>2. CASE j # k
        BY <3>2, <4>2, <1>10 DEF IsPut
      <4> QED BY <4>1, <4>2
    <3> QED BY <3>1, <3>3, <1>15 DEF NoVainOn
  <2> QED BY <2>1, <1>10, NoVainNext
<1>18. PassSound'
  BY <1>1 DEF PassSound
<1> QED BY <1>11, <1>13, <1>14, <1>16, <1>17, <1>18

LEMMA RefundSoldToWaitersKeeps ==
  ASSUME SalesInv, NEW u, NEW o, Refunding(u, o), RefundSoldToWaiters(o)
  PROVE  SalesInv'
<1> DEFINE k == o.trip
           pages == Tidied(k)
           seats == Plus(FetchTicket(k), o.leg, o.num)
<1> USE DEF SalesInv
<1>1. /\ o.status = "success" /\ waitlist' = Put(waitlist, k, pages)
      /\ refund' = [trip |-> k, at |-> 1, seats |-> seats]
      /\ UNCHANGED <<tickets, status, timestamp, header>>
      /\ status = "up" /\ refund = NoRefund /\ u \in Users /\ o \in OrdersOf(u)
      /\ OrderlistsOK(orderlist') /\ Restates(u, o, "refunded")
  BY DEF RefundSoldToWaiters, Refunding, Ready, Put
<1>2. o \in OrderInfo /\ k \in Trips
  BY <1>1, InfoOfOrder DEF OrderInfo
<1>3. /\ WaitlistsOK(waitlist) /\ Waitlist(pages)
      /\ Entries(pages) \subseteq Entries(waitlist[k])
      /\ {w \in Entries(pages) : w.queue} = Queued(k)
  BY <1>2, StoresOK, TidiedWaitlist
<1>4. /\ seats \in Seats
      /\ \A j \in Trips, s \in Segments :
           (IF j = k THEN seats ELSE FetchTicket(j))[s]
             = SeatsLeft(j)[s] + Weight(o, j, s) - Weight(Restated(o, "refunded"), j, s)
  BY <1>1, SeatsReturn
<1> HIDE DEF pages, seats
<1>5. WaitlistsOK(waitlist') /\ IsPut(waitlist', waitlist, k, pages, Trips)
  BY <1>1, <1>2, <1>3, WaitlistsStep
<1>6. TypeOK' /\ ChainsSorted'
  <2>1. ScalarsOK' /\ TicketsOK(tickets')
    BY <1>1, <1>2, <1>4, StoresOK DEF ScalarsOK
  <2> QED BY <2>1, <1>1, <1>5, StoresOKNext
<1>7. \A j \in Trips : Queued(j)' = Queued(j)
  <2>1. ASSUME NEW j \in Trips PROVE Queued(j)' = Queued(j)
    <3>1. Queued(j)' = {x \in Entries(waitlist'[j]) : x.queue}
      BY DEF Queued, Entries
    <3> QED BY <3>1, <1>3, <1>5 DEF IsPut, Queued
  <2> QED BY <2>1
<1>8. Numbered'
  <2>1. \A j \in Trips : Entries(waitlist'[j]) \subseteq Entries(waitlist[j])
    BY <1>3, <1>5 DEF IsPut
  <2>2. \A j \in Trips : \A x \in Entries(waitlist[j])' :
          \E y \in Entries(waitlist[j]) : x.timestamp = y.timestamp
    BY <2>1 DEF Entries
  <2> QED BY <2>2, <1>1, RefundNumbered
<1>9. Matched'
  BY <1>1, <1>7, RestatesMatchedSame DEF Statuses
<1>10. SoldFinite' /\ SeatsConserved'
  <2>1. \A j \in Trips : SeatsLeft(j)' = IF j = k THEN seats ELSE FetchTicket(j)
    BY <1>1 DEF SeatsLeft, FetchTicket
  <2> QED BY <2>1, <1>1, <1>4, RestatesFinite, RestatesConserved DEF Statuses
<1>11. NobodyWaitsInVain'
  <2>1. ASSUME NEW j \in Trips PROVE NoVainOn(j)'
    <3>1. CASE j = k
      <4>1. NoVainBefore(waitlist'[j], refund'.seats, refund'.at)
        <5>1. refund'.at = 1 /\ Slots(waitlist'[j]) \in Int
          <6>1. waitlist'[j] \in Seq(Seq(WaitInfo)) /\ WaitPageSize \in Nat
            BY <1>5, SalesAssumption DEF WaitlistsOK
          <6> QED BY <6>1, <1>1 DEF Slots
        <5> QED BY <5>1 DEF NoVainBefore
      <4> QED BY <3>1, <4>1, <1>1 DEF NoVainOn
    <3>2. CASE j # k
      <4>1. refund.trip # j /\ refund'.trip # j
        BY <3>2, <1>1, SalesAssumption DEF NoRefund
      <4>2. NoVain(waitlist[j], FetchTicket(j))
        BY <4>1, <1>1, <1>3, NoVainNow DEF NoVainOn
      <4>3. waitlist'[j] = waitlist[j] /\ FetchTicket(j)' = FetchTicket(j)
        BY <3>2, <1>1, <1>5 DEF IsPut, FetchTicket
      <4> QED BY <4>1, <4>2, <4>3 DEF NoVainOn
    <3> QED BY <3>1, <3>2
  <2> QED BY <2>1, <1>5, NoVainNext
<1>12. PassSound'
  BY <1>1, <1>2 DEF PassSound
<1> QED BY <1>6, <1>8, <1>9, <1>10, <1>11, <1>12

\* Only a sold order gets there: where an order is pending, somebody is queued.
LEMMA RefundIntoDroppedPageKeeps ==
  ASSUME SalesInv, NEW u, NEW o, Refunding(u, o), RefundIntoDroppedPage(o)
  PROVE  SalesInv' /\ o.status = "success"
<1> DEFINE k == o.trip
<1> USE DEF SalesInv
<1>1. /\ waitlist' = Put(waitlist, k, <<>>) /\ Tidied(k) = <<>> /\ o.status \in {"success", "pending"}
      /\ UNCHANGED <<tickets, refund, timestamp, header>> /\ status' = "crashed"
      /\ status = "up" /\ refund = NoRefund /\ u \in Users /\ o \in OrdersOf(u)
      /\ OrderlistsOK(orderlist') /\ Restates(u, o, "refunded")
  BY DEF RefundIntoDroppedPage, Refunding, Ready, Put
<1>2. o \in OrderInfo /\ k \in Trips
  BY <1>1, InfoOfOrder DEF OrderInfo
<1>3. WaitlistsOK(waitlist) /\ Waitlist(<<>>) /\ Queued(k) = {}
  <2>1. Entries(<<>>) = {}
    BY DEF Entries
  <2> QED BY <2>1, <1>1, <1>2, StoresOK, TidiedWaitlist
<1>4. o.status = "success"
  BY <1>1, <1>3 DEF Matched
<1>5. WaitlistsOK(waitlist') /\ IsPut(waitlist', waitlist, k, <<>>, Trips)
  BY <1>1, <1>2, <1>3, WaitlistsStep
<1>6. TypeOK' /\ ChainsSorted'
  <2>1. ScalarsOK' /\ TicketsOK(tickets')
    BY <1>1, StoresOK DEF ScalarsOK, Status
  <2> QED BY <2>1, <1>1, <1>5, StoresOKNext
<1>7. \A j \in Trips : Queued(j)' = Queued(j) /\ Entries(waitlist'[j]) \subseteq Entries(waitlist[j])
  <2>1. ASSUME NEW j \in Trips
        PROVE  Queued(j)' = Queued(j) /\ Entries(waitlist'[j]) \subseteq Entries(waitlist[j])
    <3>1. Queued(j)' = {x \in Entries(waitlist'[j]) : x.queue}
      BY DEF Queued, Entries
    <3>2. CASE j = k
      <4>1. Entries(waitlist'[j]) = {}
        BY <3>2, <1>5 DEF IsPut, Entries
      <4> QED BY <3>1, <3>2, <4>1, <1>3
    <3>3. CASE j # k
      BY <3>1, <3>3, <1>5 DEF IsPut, Queued
    <3> QED BY <3>2, <3>3
  <2> QED BY <2>1
<1>8. Numbered'
  <2>1. \A j \in Trips : \A x \in Entries(waitlist[j])' :
          \E y \in Entries(waitlist[j]) : x.timestamp = y.timestamp
    BY <1>7 DEF Entries
  <2> QED BY <2>1, <1>1, RefundNumbered
<1>9. Matched'
  BY <1>1, <1>4, <1>7, RestatesMatchedSame DEF Statuses
<1>10. SoldFinite'
  BY <1>1, <1>4, RestatesFinite DEF Statuses
<1>11. SeatsConserved' /\ NobodyWaitsInVain' /\ PassSound'
  BY <1>1 DEF SeatsConserved, NobodyWaitsInVain, PassSound
<1> QED BY <1>4, <1>6, <1>8, <1>9, <1>10, <1>11

-----------------------------------------------------------------------------
(***************************************************************************)
(* The pass over the waitlist.                                             *)
(***************************************************************************)
LEMMA PassingAt ==
  ASSUME SalesInv, Passing
  PROVE  /\ refund.trip \in Trips /\ refund.at \in 1 .. Slots(Chain) /\ Waitlist(Chain)
         /\ status = "up" /\ refund.seats \in Seats /\ refund.at \in Nat
         /\ refund = [trip |-> refund.trip, seats |-> refund.seats, at |-> refund.at]
         /\ NoVainBefore(Chain, refund.seats, refund.at)
         /\ WaitlistsOK(waitlist) /\ Slots(Chain) \in Nat
<1> USE DEF SalesInv
<1>1. refund # NoRefund /\ refund.at <= Slots(Chain)
  BY DEF Passing
<1>2. refund.trip \in Trips /\ refund.at >= 1 /\ status = "up"
  BY <1>1 DEF PassSound
<1>3. /\ refund.at \in Nat /\ refund.seats \in Seats
      /\ refund = [trip |-> refund.trip, seats |-> refund.seats, at |-> refund.at]
  BY DEF TypeOK
<1>4. WaitlistsOK(waitlist) /\ Waitlist(Chain)
  BY <1>2, StoresOK DEF Chain, WaitlistsOK
<1>5. Slots(Chain) \in Nat
  <2>1. Chain \in Seq(Seq(WaitInfo)) /\ WaitPageSize \in Nat
    BY <1>4, SalesAssumption DEF Waitlist, PagesOf
  <2>2. Len(Chain) \in Nat
    BY <2>1
  <2> QED BY <2>1, <2>2 DEF Slots
<1>6. NoVainOn(refund.trip)
  BY <1>2, <1>4, NoVainNow
<1> QED BY <1>1, <1>2, <1>3, <1>4, <1>5, <1>6 DEF NoVainOn, Chain

LEMMA SameLists ==
  ASSUME Numbered, Matched, UNCHANGED <<waitlist, orderlist>>, Newest' = Newest
  PROVE  Numbered' /\ Matched'
<1>1. \A u : OrdersOf(u)' = OrdersOf(u)
  BY DEF OrdersOf
<1>2. \A k : Entries(waitlist[k])' = Entries(waitlist[k]) /\ Queued(k)' = Queued(k)
  BY DEF Queued, Entries
<1>3. Numbered'
  BY <1>1, <1>2 DEF Numbered
<1>4. Matched'
  BY <1>1, <1>2 DEF Matched, StandsFor
<1> QED BY <1>3, <1>4

LEMMA PassOverKeeps ==
  ASSUME SalesInv, PassOver
  PROVE  SalesInv'
<1> USE DEF SalesInv
<1>1. /\ Passing /\ ~Servable(Slot(Chain, refund.at))
      /\ refund' = [refund EXCEPT !.at = @ + 1]
      /\ UNCHANGED <<tickets, waitlist, orderlist, timestamp, header, status>>
  BY DEF PassOver
<1>2. /\ refund.trip \in Trips /\ refund.at \in 1 .. Slots(Chain) /\ Waitlist(Chain)
      /\ status = "up" /\ refund.seats \in Seats /\ refund.at \in Nat
      /\ refund = [trip |-> refund.trip, seats |-> refund.seats, at |-> refund.at]
      /\ NoVainBefore(Chain, refund.seats, refund.at)
      /\ WaitlistsOK(waitlist) /\ Slots(Chain) \in Nat
  BY <1>1, PassingAt
<1>3. refund' = [trip |-> refund.trip, seats |-> refund.seats, at |-> refund.at + 1]
  BY <1>1, <1>2
<1>4. TypeOK' /\ ChainsSorted'
  <2>1. ScalarsOK'
    BY <1>1, <1>2, <1>3, StoresOK DEF ScalarsOK
  <2> QED BY <2>1, <1>1, StoresOK, StoresOKNext
<1>5. Numbered' /\ Matched'
  BY <1>1, SameLists DEF Newest
<1>6. \A j \in Trips : SeatsLeft(j)' = SeatsLeft(j) /\ FetchTicket(j)' = FetchTicket(j)
  BY <1>1, <1>3 DEF SeatsLeft, FetchTicket
<1>7. SoldFinite' /\ SeatsConserved'
  BY <1>1, <1>2, <1>6, SameConserved
<1>8. NobodyWaitsInVain'
  <2>1. \A j \in Trips : NoVainOn(j)
    BY <1>2, NoVainNow
  <2>2. ASSUME NEW j \in Trips PROVE NoVainOn(j)'
    <3>1. CASE j = refund.trip
      <4>1. ASSUME NEW i \in 1 .. Slots(Chain), Slot(Chain, i).queue, i < refund.at + 1
            PROVE  ~Fits(refund.seats, Slot(Chain, i).leg, Slot(Chain, i).num)
        <5>1. CASE i < refund.at
          BY <4>1, <5>1, <1>2 DEF NoVainBefore
        <5>2. CASE i = refund.at
          BY <4>1, <5>2, <1>1 DEF Servable
        <5> QED BY <4>1, <5>1, <5>2, <1>2
      <4>2. NoVainBefore(Chain, refund.seats, refund.at + 1)
        BY <4>1 DEF NoVainBefore
      <4> QED BY <4>2, <3>1, <1>1, <1>3 DEF NoVainOn, Chain
    <3>2. CASE j # refund.trip
      BY <3>2, <2>1, <1>1, <1>3, <1>6 DEF NoVainOn
    <3> QED BY <3>1, <3>2
  <2> QED BY <2>2, <1>1, <1>2, NoVainNext
<1>9. PassSound'
  BY <1>1, <1>2, <1>3 DEF PassSound
<1> QED BY <1>4, <1>5, <1>7, <1>8, <1>9

LEMMA FinishRefundKeeps ==
  ASSUME SalesInv, FinishRefund
  PROVE  SalesInv'
<1> DEFINE k == refund.trip
<1> USE DEF SalesInv
<1>1. /\ refund # NoRefund /\ refund.at > Slots(Chain)
      /\ ModifyTicket(k, refund.seats) /\ refund' = NoRefund
      /\ UNCHANGED <<waitlist, orderlist, timestamp, header, status>>
  BY DEF FinishRefund
<1>2. k \in Trips /\ status = "up" /\ refund.seats \in Seats /\ refund.at \in Nat
  BY <1>1 DEF PassSound, TypeOK
<1>3. WaitlistsOK(waitlist) /\ Waitlist(Chain) /\ Slots(Chain) \in Nat
  <2>1. WaitlistsOK(waitlist) /\ Waitlist(Chain)
    BY <1>2, StoresOK DEF Chain, WaitlistsOK
  <2>2. Chain \in Seq(Seq(WaitInfo)) /\ WaitPageSize \in Nat
    BY <2>1, SalesAssumption DEF Waitlist, PagesOf
  <2>3. Len(Chain) \in Nat
    BY <2>2
  <2> QED BY <2>1, <2>2, <2>3 DEF Slots
<1>4. /\ TicketsOK(tickets')
      /\ \A j \in Trips : FetchTicket(j)' = IF j = k THEN refund.seats ELSE FetchTicket(j)
  BY <1>1, <1>2, StoresOK, TicketsStep
<1>5. TypeOK' /\ ChainsSorted'
  <2>1. NoRefund \in [trip : Trips \cup {NoTrip}, seats : Seats, at : Nat]
    BY SalesAssumption DEF NoRefund, Seats
  <2>2. ScalarsOK'
    BY <1>1, <2>1, StoresOK DEF ScalarsOK
  <2> QED BY <2>2, <1>1, <1>4, StoresOK, StoresOKNext
<1>6. Numbered' /\ Matched'
  BY <1>1, SameLists DEF Newest
<1>7. \A j \in Trips : refund'.trip # j
  BY <1>1, SalesAssumption DEF NoRefund
<1>8. \A j \in Trips : SeatsLeft(j)' = SeatsLeft(j)
  BY <1>4, <1>7 DEF SeatsLeft
<1>9. SoldFinite' /\ SeatsConserved'
  BY <1>1, <1>2, <1>8, SameConserved
<1>10. NobodyWaitsInVain'
  <2>1. \A j \in Trips : NoVainOn(j)
    BY <1>2, <1>3, NoVainNow
  <2>2. ASSUME NEW j \in Trips PROVE NoVainOn(j)'
    <3>1. CASE j = k
      <4>1. NoVainBefore(Chain, refund.seats, refund.at)
        BY <2>1, <1>2 DEF NoVainOn, Chain
      <4>2. \A i \in 1 .. Slots(Chain) :
              Slot(Chain, i).queue => ~Fits(refund.seats, Slot(Chain, i).leg, Slot(Chain, i).num)
        BY <4>1, <1>1, <1>2, <1>3 DEF NoVainBefore
      <4>3. NoVain(Chain, refund.seats)
        BY <4>2, <1>3, NoVainBySlot
      <4> QED BY <3>1, <4>3, <1>1, <1>4, <1>7 DEF NoVainOn, Chain
    <3>2. CASE j # k
      BY <3>2, <2>1, <1>1, <1>4, <1>7 DEF NoVainOn
    <3> QED BY <3>1, <3>2
  <2> QED BY <2>2, <1>1, <1>3, NoVainNext
<1>11. PassSound'
  BY <1>1 DEF PassSound
<1> QED BY <1>5, <1>6, <1>9, <1>10, <1>11

\* Whom the pass serves: a waiter in the queue of the trip and the pending order
\* of the same number.
LEMMA ServeFinds ==
  ASSUME SalesInv, ServeNext
  PROVE  \E u \in Users : \E o \in OrdersOf(u) :
           LET info == Slot(Chain, refund.at) IN
           /\ Filled(Chain, refund.at) /\ info \in Queued(refund.trip)
           /\ StandsFor(info, refund.trip, u, o)
           /\ OrderlistsOK(orderlist') /\ Restates(u, o, "success")
           /\ IsUnqueued(waitlist'[refund.trip], Chain, refund.at)
           /\ WaitlistsOK(waitlist')
           /\ IsPut(waitlist', waitlist, refund.trip, waitlist'[refund.trip], Trips)
<1> DEFINE k == refund.trip
           info == Slot(Chain, refund.at)
           u == info.user
           new == Unqueued(Chain, refund.at)
<1> USE DEF SalesInv
<1>1. /\ Passing /\ info.queue
      /\ orderlist' = Put(orderlist, u, QueueSucceed(orderlist[u], info.timestamp))
      /\ waitlist' = Put(waitlist, k, new)
  BY DEF ServeNext, Servable, Put, Chain
<1>2. /\ k \in Trips /\ refund.at \in 1 .. Slots(Chain) /\ Waitlist(Chain) /\ WaitlistsOK(waitlist)
  BY <1>1, PassingAt
<1>3. Filled(Chain, refund.at) /\ info \in Entries(Chain)
  BY <1>1, <1>2, QueuedSlot
<1>4. info \in Queued(k)
  BY <1>1, <1>3 DEF Queued, Chain
<1>5. PICK o \in OrdersOf(u) : StandsFor(info, k, u, o)
  BY <1>2, <1>4 DEF Matched
<1>6. u \in Users
  <2>1. info \in WaitInfo
    BY <1>2, <1>3, InfoOfWaiter DEF Chain
  <2> QED BY <2>1 DEF WaitInfo
<1>7. Orderlist(orderlist[u]) /\ o \in Entries(orderlist[u])
  BY <1>5, <1>6, StoresOK DEF OrderlistsOK, OrdersOf
<1>8. o.timestamp = info.timestamp
  BY <1>5 DEF StandsFor
<1>9. IsRestated(QueueSucceed(orderlist[u], info.timestamp), orderlist[u], o, "success")
  BY <1>7, <1>8, QueueSucceedKeeps
<1>10. OrderlistsOK(orderlist') /\ Restates(u, o, "success")
  <2> HIDE DEF u, info
  <2> QED BY <1>1, <1>5, <1>6, <1>9, RestatedKeeps DEF Statuses
<1>11. IsUnqueued(new, Chain, refund.at)
  BY <1>2, <1>3, UnqueuedKeeps
<1>12. /\ WaitlistsOK(waitlist') /\ IsPut(waitlist', waitlist, k, new, Trips)
  BY <1>1, <1>2, <1>11, WaitlistsStep DEF IsUnqueued
<1>13. waitlist'[k] = new
  BY <1>2, <1>12 DEF IsPut
<1> QED BY <1>3, <1>4, <1>5, <1>6, <1>10, <1>11, <1>12, <1>13

LEMMA ServeNextKeeps ==
  ASSUME SalesInv, ServeNext
  PROVE  SalesInv'
<1> DEFINE k == refund.trip
           at == refund.at
           info == Slot(Chain, at)
           new == waitlist'[k]
           seats == Plus(refund.seats, info.leg, -info.num)
<1> USE DEF SalesInv
<1>1. PICK u, o : /\ u \in Users /\ o \in OrdersOf(u)
                  /\ Filled(Chain, at) /\ info \in Queued(k)
                  /\ StandsFor(info, k, u, o)
                  /\ OrderlistsOK(orderlist') /\ Restates(u, o, "success")
                  /\ IsUnqueued(new, Chain, at)
                  /\ WaitlistsOK(waitlist') /\ IsPut(waitlist', waitlist, k, new, Trips)
  BY ServeFinds
<1>2. /\ Passing /\ Fits(refund.seats, info.leg, info.num)
      /\ refund' = [refund EXCEPT !.at = @ + 1, !.seats = seats]
      /\ UNCHANGED <<tickets, timestamp, header, status>>
  BY DEF ServeNext, Servable
<1>3. /\ k \in Trips /\ at \in 1 .. Slots(Chain) /\ Waitlist(Chain)
      /\ status = "up" /\ refund.seats \in Seats /\ at \in Nat
      /\ refund = [trip |-> k, seats |-> refund.seats, at |-> at]
      /\ NoVainBefore(Chain, refund.seats, at)
      /\ WaitlistsOK(waitlist) /\ Slots(Chain) \in Nat
  BY <1>2, PassingAt
<1>4. refund' = [trip |-> k, seats |-> seats, at |-> at + 1]
  <2> HIDE DEF seats
  <2> QED BY <1>2, <1>3
<1>5. /\ o \in OrderInfo /\ o.timestamp = info.timestamp /\ o.leg = info.leg /\ o.num = info.num
      /\ o.trip = k /\ o.status = "pending" /\ o.num \in Nat /\ o.leg \in Legs
      /\ info \in WaitInfo /\ info \in Entries(Chain)
  <2>1. info \in Entries(waitlist[k])
    BY <1>1 DEF Queued
  <2>2. o \in OrderInfo /\ o.num \in Nat
    BY <1>1, InfoOfOrder
  <2> QED BY <1>1, <1>3, <2>1, <2>2, InfoOfWaiter DEF StandsFor, OrderInfo, Chain
<1>6. /\ seats \in Seats
      /\ \A s \in Segments : seats[s] = refund.seats[s] - (IF s \in Covers(o.leg) THEN o.num ELSE 0)
      /\ \A s \in Segments : seats[s] <= refund.seats[s]
  BY <1>2, <1>3, <1>5, TakeSeats
<1> HIDE DEF seats
<1>7. /\ Entries(new) = (Entries(Chain) \ {info}) \cup {Dequeued(info)}
      /\ Slots(new) = Slots(Chain)
      /\ \A n \in 1 .. Slots(Chain) : Slot(new, n) = IF n = at THEN Dequeued(info) ELSE Slot(Chain, n)
  BY <1>1 DEF IsUnqueued
<1>8. Dequeued(info).queue = FALSE /\ Dequeued(info).timestamp = info.timestamp
  <2> HIDE DEF info
  <2> QED BY <1>5 DEF WaitInfo, Dequeued
<1>9. TypeOK' /\ ChainsSorted'
  <2>1. ScalarsOK' /\ TicketsOK(tickets')
    BY <1>2, <1>3, <1>4, <1>6, StoresOK DEF ScalarsOK
  <2> QED BY <2>1, <1>1, StoresOKNext
<1>10. \A j \in Trips : Queued(j)' = IF j = k THEN Queued(j) \ {info} ELSE Queued(j)
  <2>1. ASSUME NEW j \in Trips
        PROVE  Queued(j)' = IF j = k THEN Queued(j) \ {info} ELSE Queued(j)
    <3>1. Queued(j)' = {x \in Entries(waitlist'[j]) : x.queue}
      BY DEF Queued, Entries
    <3>2. CASE j = k
      <4> HIDE DEF new, info
      <4>1. waitlist'[j] = new
        BY <3>2, <1>1 DEF IsPut
      <4> QED BY <3>1, <3>2, <4>1, <1>7, <1>8 DEF Queued, Chain
    <3>3. CASE j # k
      <4>1. waitlist'[j] = waitlist[j]
        BY <3>3, <1>1 DEF IsPut
      <4> QED BY <3>1, <3>3, <4>1 DEF Queued
    <3> QED BY <3>2, <3>3
  <2> QED BY <2>1
<1> HIDE DEF new, info
<1>11. Numbered'
  <2>1. ASSUME NEW j \in Trips, NEW x \in Entries(waitlist'[j])
        PROVE  x.timestamp <= Newest
    <3>1. CASE j = k
      <4>1. waitlist'[j] = new
        BY <3>1, <1>1 DEF IsPut
      <4>2. \E y \in Entries(waitlist[k]) : x.timestamp = y.timestamp
        BY <4>1, <1>5, <1>7, <1>8 DEF Chain
      <4> QED BY <4>2, <1>3 DEF Numbered
    <3>2. CASE j # k
      BY <3>2, <1>1 DEF IsPut, Numbered
    <3> QED BY <3>1, <3>2
  <2>2. \A j \in Trips : \A x \in Entries(waitlist[j])' : x.timestamp <= Newest
    BY <2>1 DEF Entries
  <2>3. Newest' = Newest
    BY <1>2 DEF Newest
  <2> QED BY <2>2, <2>3, <1>1, RestatesNumbered DEF Statuses
<1>12. Matched'
  BY <1>1, <1>5, <1>10, RestatesMatchedLess DEF Statuses
<1>13. \A j \in Trips : FetchTicket(j)' = FetchTicket(j) /\ SeatsLeft(j)' = IF j = k THEN seats ELSE SeatsLeft(j)
  BY <1>2, <1>4 DEF SeatsLeft, FetchTicket
<1>14. SoldFinite' /\ SeatsConserved'
  <2>1. ASSUME NEW j \in Trips, NEW s \in Segments
        PROVE  SeatsLeft(j)'[s] = SeatsLeft(j)[s] + Weight(o, j, s) - Weight(Restated(o, "success"), j, s)
    <3>1. SeatsLeft(j)[s] \in Int
      BY SeatsTyped, SalesAssumption DEF Seats
    <3>2. Weight(o, j, s) = 0
      BY <1>5 DEF Weight, Counts
    <3>3. Weight(Restated(o, "success"), j, s) = IF j = k /\ s \in Covers(o.leg) THEN o.num ELSE 0
      BY <1>5, RestatedFields DEF Weight, Counts, Statuses
    <3>4. CASE j = k
      <4>1. SeatsLeft(j) = refund.seats
        BY <3>4 DEF SeatsLeft
      <4> QED BY <3>1, <3>2, <3>3, <3>4, <4>1, <1>5, <1>6, <1>13
    <3>5. CASE j # k
      BY <3>1, <3>2, <3>3, <3>5, <1>13
    <3> QED BY <3>4, <3>5
  <2> QED BY <2>1, <1>1, <1>3, <1>5, RestatesFinite, RestatesConserved DEF Statuses
<1>15. NobodyWaitsInVain'
  <2>1. \A j \in Trips : NoVainOn(j)
    BY <1>3, NoVainNow
  <2>2. ASSUME NEW j \in Trips PROVE NoVainOn(j)'
    <3>1. CASE j = k
      <4>1. new = waitlist'[j] /\ refund'.trip = j /\ refund'.seats = seats /\ refund'.at = at + 1
        BY <3>1, <1>1, <1>4 DEF IsPut
      <4>2. ASSUME NEW i \in 1 .. Slots(new), Slot(new, i).queue, i < at + 1
            PROVE  ~Fits(seats, Slot(new, i).leg, Slot(new, i).num)
        <5>1. i \in 1 .. Slots(Chain) /\ i # at /\ i < at /\ Slot(new, i) = Slot(Chain, i)
          BY <4>2, <1>3, <1>7, <1>8
        <5>2. ~Fits(refund.seats, Slot(Chain, i).leg, Slot(Chain, i).num)
          BY <4>2, <5>1, <1>3 DEF NoVainBefore
        <5>3. Slot(Chain, i) \in Entries(waitlist[k])
          BY <4>2, <5>1, <1>3, QueuedSlot DEF Chain
        <5>4. Slot(Chain, i).leg \in Legs /\ Slot(Chain, i).num \in Nat
          BY <5>3, <1>3, InfoOfWaiter DEF WaitInfo
        <5> QED BY <5>1, <5>2, <5>4, <1>3, <1>6, FitsLess
      <4>3. NoVainBefore(new, seats, at + 1)
        BY <4>2 DEF NoVainBefore
      <4> QED BY <4>1, <4>3 DEF NoVainOn
    <3>2. CASE j # k
      <4>1. refund'.trip # j /\ waitlist'[j] = waitlist[j]
        BY <3>2, <1>1, <1>4 DEF IsPut
      <4> QED BY <3>2, <4>1, <2>1, <1>13 DEF NoVainOn
    <3> QED BY <3>1, <3>2
  <2> QED BY <2>2, <1>1, NoVainNext
<1>16. PassSound'
  BY <1>2, <1>3, <1>4 DEF PassSound
<1> QED BY <1>9, <1>11, <1>12, <1>14, <1>15, <1>16

-----------------------------------------------------------------------------
(***************************************************************************)
(* The steps that leave the stores alone, the initial states, and the      *)
(* invariant.                                                              *)
(***************************************************************************)
LEMMA QuietKeeps ==
  ASSUME SalesInv, UNCHANGED <<tickets, waitlist, orderlist, refund>>, Newest' = Newest,
         timestamp' \in InvalidPageId .. MaxTimestamp, header' \in InvalidPageId .. MaxTimestamp,
         status' \in Status, status # "crashed", refund = NoRefund \/ status' = "up"
  PROVE  SalesInv'
<1> USE DEF SalesInv
<1>1. TypeOK' /\ ChainsSorted'
  <2>1. ScalarsOK'
    BY StoresOK DEF ScalarsOK
  <2> QED BY <2>1, StoresOK, StoresOKNext
<1>2. Numbered' /\ Matched'
  BY SameLists
<1>3. \A j \in Trips : SeatsLeft(j)' = SeatsLeft(j)
  BY DEF SeatsLeft, FetchTicket
<1>4. SoldFinite' /\ SeatsConserved'
  BY <1>3, SameConserved
<1>5. NobodyWaitsInVain'
  <2>1. ASSUME NEW j \in Trips PROVE NoVainOn(j)'
    <3>1. NoVainOn(j)
      BY StoresOK, NoVainNow
    <3> QED BY <3>1 DEF NoVainOn, FetchTicket
  <2> QED BY <2>1, StoresOK, NoVainNext
<1>6. PassSound'
  BY DEF PassSound
<1> QED BY <1>1, <1>2, <1>4, <1>5, <1>6

LEMMA RefundTicketKeeps ==
  ASSUME SalesInv, NEW u \in Users, NEW num, RefundTicket(u, num)
  PROVE  SalesInv'
<1>1. PICK at \in Found(orderlist[u], num) :
        /\ OrderAt(u, at).status # "refunded"
        /\ orderlist' = [orderlist EXCEPT ![u] = WithStatus(@, at, "refunded")]
        /\ \/ RefundPending(OrderAt(u, at))
           \/ RefundSold(OrderAt(u, at))
           \/ RefundSoldToWaiters(OrderAt(u, at))
           \/ RefundIntoDroppedPage(OrderAt(u, at))
  BY DEF RefundTicket
<1>2. Refunding(u, OrderAt(u, at))
  BY <1>1, RefundFinds DEF RefundTicket, SalesInv
<1> QED BY <1>1, <1>2, RefundPendingKeeps, RefundSoldKeeps, RefundSoldToWaitersKeeps,
           RefundIntoDroppedPageKeeps

LEMMA SalesInvInit == Init => SalesInv
<1> SUFFICES ASSUME Init PROVE SalesInv
  OBVIOUS
<1> USE DEF Init
<1>1. NoRefund \in [trip : Trips \cup {NoTrip}, seats : Seats, at : Nat]
  BY SalesAssumption DEF NoRefund, Seats
<1>2. Entries(<<>>) = {} /\ Waitlist(<<>>) /\ Orderlist(<<>>)
  BY SalesAssumption
     DEF Entries, Waitlist, Orderlist, PagesOf, OldestFirst, NewestFirst
<1>3. TypeOK /\ ChainsSorted
  <2>1. TicketsOK(tickets)
    BY DEF TicketsOK
  <2>2. WaitlistsOK(waitlist) /\ OrderlistsOK(orderlist)
    BY <1>2 DEF WaitlistsOK, OrderlistsOK
  <2>3. ScalarsOK
    BY <1>1, SalesAssumption DEF ScalarsOK, InvalidPageId, Status
  <2> QED BY <2>1, <2>2, <2>3, StoresOK
<1>4. /\ \A u \in Users : OrdersOf(u) = {}
      /\ \A k \in Trips : Entries(waitlist[k]) = {} /\ Queued(k) = {}
  BY <1>2 DEF OrdersOf, Queued
<1>5. Newest = -1
  BY DEF Newest, InvalidPageId
<1>6. Numbered /\ Matched
  BY <1>4, <1>5 DEF Numbered, Matched
<1>7. \A k \in Trips, s \in Segments : Sold(k, s) = {} /\ SeatsLeft(k)[s] = MaxSeat
  BY <1>4, SalesAssumption DEF Sold, SeatsLeft, FetchTicket, NoRefund
<1>8. SoldFinite /\ SeatsConserved
  <2>1. IsFiniteSet({}) /\ Cardinality({}) = 0
    BY FS_EmptySet
  <2>2. MaxSeat + 0 = MaxSeat
    BY SalesAssumption
  <2>3. ASSUME NEW k \in Trips, NEW s \in Segments
        PROVE  IsFiniteSet(Sold(k, s)) /\ SeatsLeft(k)[s] + Cardinality(Sold(k, s)) = MaxSeat
    BY <1>7, <2>1, <2>2, ZenonT(30)
  <2> QED BY <2>3 DEF SoldFinite, SeatsConserved
<1>9. NobodyWaitsInVain
  <2>1. \A k \in Trips : refund.trip # k /\ NoVain(waitlist[k], FetchTicket(k))
    BY <1>4, SalesAssumption DEF NoVain, NoRefund
  <2> QED BY <2>1, <1>3, StoresOK, NoVainNow DEF NoVainOn
<1>10. PassSound
  BY DEF PassSound
<1> QED BY <1>3, <1>6, <1>8, <1>9, <1>10 DEF SalesInv

LEMMA SalesInvNext == SalesInv /\ [Next]_salesVars => SalesInv'
<1> SUFFICES ASSUME SalesInv, [Next]_salesVars PROVE SalesInv'
  OBVIOUS
<1>1. ASSUME NEW u \in Users, NEW k \in Trips, NEW leg \in Legs, NEW num \in Nums,
             BuyTicket(u, k, leg, num) \/ QueueForTicket(u, k, leg, num)
      PROVE  SalesInv'
  BY <1>1, BuyKeeps, QueueKeeps
<1>2. ASSUME NEW u \in Users, RefundWithoutOrders(u) PROVE SalesInv'
  BY <1>2, QuietKeeps DEF RefundWithoutOrders, Ready, Newest, Status, SalesInv, TypeOK
<1>3. ASSUME NEW u \in Users, NEW num \in 1 .. MaxTimestamp + 1, RefundTicket(u, num) PROVE SalesInv'
  BY <1>3, RefundTicketKeeps
<1>4. CASE InTheLoop
  BY <1>4, ServeNextKeeps, PassOverKeeps, FinishRefundKeeps DEF InTheLoop
<1>5. CASE Exit
  <2>1. /\ UNCHANGED <<tickets, waitlist, orderlist, refund>> /\ header' = timestamp
        /\ status = "up" /\ refund = NoRefund /\ status' = "down" /\ status' \in Status
        /\ timestamp' \in InvalidPageId .. MaxTimestamp /\ header' \in InvalidPageId .. MaxTimestamp
    BY <1>5, SalesAssumption DEF Exit, Ready, SalesInv, TypeOK, Status, InvalidPageId
  <2>2. Newest' = Newest
    BY <2>1 DEF Newest
  <2> QED BY <2>1, <2>2, QuietKeeps
<1>6. CASE Start
  <2>1. refund = NoRefund
    BY <1>6 DEF Start, SalesInv, PassSound
  <2>2. /\ UNCHANGED <<tickets, waitlist, orderlist, refund>> /\ timestamp' = header /\ header' = header
        /\ status = "down" /\ status' = "up" /\ status' \in Status
        /\ timestamp' \in InvalidPageId .. MaxTimestamp /\ header' \in InvalidPageId .. MaxTimestamp
        /\ status # "crashed"
    BY <1>6 DEF Start, SalesInv, TypeOK, Status
  <2>3. Newest' = Newest
    BY <2>2 DEF Newest
  <2> QED BY <2>1, <2>2, <2>3, QuietKeeps
<1>7. CASE UNCHANGED salesVars
  <2>1. CASE status = "crashed"
    <3>1. UNCHANGED <<tickets, waitlist, orderlist, timestamp, header, refund, status>>
      BY <1>7 DEF salesVars
    <3>2. TypeOK' /\ ChainsSorted'
      BY <3>1 DEF SalesInv, TypeOK, ChainsSorted
    <3>3. Numbered' /\ Matched'
      BY <3>1, SameLists DEF SalesInv, Newest
    <3>4. \A k \in Trips, s \in Segments : Sold(k, s)' = Sold(k, s)
      BY <3>1 DEF Sold, OrdersOf
    <3>5. SoldFinite'
      BY <3>4 DEF SalesInv, SoldFinite
    <3>6. SeatsConserved' /\ NobodyWaitsInVain' /\ PassSound'
      BY <2>1, <3>1 DEF SalesInv, SeatsConserved, NobodyWaitsInVain, PassSound
    <3> QED BY <3>2, <3>3, <3>5, <3>6 DEF SalesInv
  <2>2. CASE status # "crashed"
    BY <2>2, <1>7, QuietKeeps DEF salesVars, Newest, SalesInv, TypeOK, PassSound
  <2> QED BY <2>1, <2>2
<1> QED BY <1>1, <1>2, <1>3, <1>4, <1>5, <1>6, <1>7 DEF Next

\* The invariant behind every theorem of this module.
LEMMA SalesInvariant == Spec => []SalesInv
BY SalesInvInit, SalesInvNext, PTL DEF Spec

\* The seats of a trip never go below zero nor above what the train has, whatever
\* legs, refunds and served waiters share, and no page is ever empty or overfull:
\* TicketSystem, WaitList and OrderList.
THEOREM SalesTyped == Spec => []TypeOK
BY SalesInvariant, PTL DEF SalesInv

\* Every walk by timestamp finds the page it looks for: waitlists stay oldest
\* first and order lists newest page first, across restarts (QueueSucceed,
\* RefundTicket, WaitList::Insert, OrderList::AppendOrder).
THEOREM ChainsStaySorted == Spec => []ChainsSorted
BY SalesInvariant, PTL DEF SalesInv

\* On every segment of every trip, in the middle of a refund's pass too, the seats
\* left and the seats of the orders that succeeded add up to the train: BuyTicket
\* and RefundTicket neither sell a seat twice nor lose one.
THEOREM SeatsAreConserved == Spec => []SeatsConserved
BY SalesInvariant, PTL DEF SalesInv

\* Those queued for a trip are exactly its pending orders: a waiter is never
\* served after a refund nor twice, and RemoveEmptyPage drops nobody who waits.
THEOREM QueuesAndOrdersAgree == Spec => []QueuesMatchOrders
<1>1. SalesInv => QueuesMatchOrders
  BY MatchedQueues DEF SalesInv
<1> QED BY <1>1, SalesInvariant, PTL

\* Between commands no waiting party fits into the seats that are left, and
\* during a pass none of those passed over does: one pass from the oldest waiter
\* to the newest is enough, since serving only takes seats.
THEOREM NobodyIsForgotten == Spec => []NobodyWaitsInVain
BY SalesInvariant, PTL DEF SalesInv

-----------------------------------------------------------------------------
(***************************************************************************)
(* The listing and the walk: the number under which QueryOrder prints an   *)
(* order is the number under which the walk of RefundTicket finds it.  Both *)
(* are recursive functions along the pages; c is what the listing has      *)
(* printed after each page, l what is left of the number before each.      *)
(***************************************************************************)
IsListing(c, seqs, n) == c = [i \in 1 .. n |-> IF i = 1 THEN seqs[i] ELSE c[i - 1] \o seqs[i]]

IsWalk(l, pages, num) ==
  l = [i \in 1 .. Len(pages) |-> IF i = 1 THEN num ELSE l[i - 1] - Len(pages[i - 1])]

\* What has been printed before page i.
Before(c, i) == IF i = 1 THEN 0 ELSE Len(c[i - 1])

LEMMA ListingExtends ==
  ASSUME NEW n \in Nat, NEW seqs, NEW b, IsListing(b, seqs, n)
  PROVE  \E c : IsListing(c, seqs, n + 1)
<1> DEFINE c == [i \in 1 .. n + 1 |-> IF i = n + 1 THEN (IF n = 0 THEN seqs[i] ELSE b[n] \o seqs[i]) ELSE b[i]]
<1>1. \A i \in 1 .. n : b[i] = IF i = 1 THEN seqs[i] ELSE b[i - 1] \o seqs[i]
  BY DEF IsListing
<1>2. /\ \A i \in 1 .. n : c[i] = b[i]
      /\ c[n + 1] = IF n = 0 THEN seqs[n + 1] ELSE b[n] \o seqs[n + 1]
      /\ c = [i \in 1 .. n + 1 |-> c[i]]
  <2>1. \A i \in 1 .. n : i \in 1 .. n + 1 /\ i # n + 1
    OBVIOUS
  <2>2. n + 1 \in 1 .. n + 1
    OBVIOUS
  <2>3. \A i \in 1 .. n : c[i] = b[i]
    BY <2>1
  <2>4. c[n + 1] = IF n = 0 THEN seqs[n + 1] ELSE b[n] \o seqs[n + 1]
    BY <2>2
  <2>5. c = [i \in 1 .. n + 1 |-> c[i]]
    OBVIOUS
  <2> QED BY <2>3, <2>4, <2>5
<1> HIDE DEF c
<1>3. ASSUME NEW i \in 1 .. n + 1
      PROVE  c[i] = IF i = 1 THEN seqs[i] ELSE c[i - 1] \o seqs[i]
  <2>1. CASE i = n + 1
    <3>1. n + 1 - 1 = n /\ (n + 1 = 1 <=> n = 0) /\ (n # 0 => n \in 1 .. n)
      OBVIOUS
    <3>2. n # 0 => c[n] = b[n]
      BY <1>2, <3>1
    <3> QED BY <2>1, <1>2, <3>1, <3>2
  <2>2. CASE i \in 1 .. n
    <3>1. i # 1 => i - 1 \in 1 .. n
      BY <2>2
    <3>2. c[i] = b[i] /\ (i # 1 => c[i - 1] = b[i - 1])
      BY <1>2, <2>2, <3>1
    <3>3. b[i] = IF i = 1 THEN seqs[i] ELSE b[i - 1] \o seqs[i]
      BY <1>1, <2>2
    <3> QED BY <3>2, <3>3
  <2> QED BY <2>1, <2>2
<1>4. [i \in 1 .. n + 1 |-> c[i]] = [i \in 1 .. n + 1 |-> IF i = 1 THEN seqs[i] ELSE c[i - 1] \o seqs[i]]
  BY <1>3
<1>5. IsListing(c, seqs, n + 1)
  BY <1>2, <1>4 DEF IsListing
<1> QED BY <1>5

LEMMA ListingExists ==
  ASSUME NEW n \in Nat, NEW seqs
  PROVE  \E c : IsListing(c, seqs, n)
<1> DEFINE None == {m \in Nat : ~\E c : IsListing(c, seqs, m)}
<1> SUFFICES ASSUME None # {} PROVE FALSE
  OBVIOUS
<1>1. PICK m \in None : \A k \in None : m <= k
  BY MinNat
<1>2. IsListing([i \in 1 .. 0 |-> 0], seqs, 0)
  BY DEF IsListing
<1>3. m \in Nat /\ m # 0
  BY <1>2
<1>4. m - 1 \in Nat /\ m - 1 \notin None
  BY <1>1, <1>3
<1>5. PICK b : IsListing(b, seqs, m - 1)
  BY <1>4
<1>6. \E c : IsListing(c, seqs, (m - 1) + 1)
  BY <1>4, <1>5, ListingExtends
<1>7. (m - 1) + 1 = m
  BY <1>3
<1> QED BY <1>6, <1>7

\* After i pages: what c[i] holds is what the pages up to i hold, in their order.
Listed(c, seqs, S, i) ==
  /\ c[i] \in Seq(S)
  /\ Before(c, i) \in Nat /\ Len(c[i]) = Before(c, i) + Len(seqs[i])
  /\ \A p \in 1 .. i : \A j \in 1 .. Len(seqs[p]) :
       Before(c, p) + j \in 1 .. Len(c[i]) /\ c[i][Before(c, p) + j] = seqs[p][j]
  /\ \A k \in 1 .. Len(c[i]) : \E p \in 1 .. i : \E j \in 1 .. Len(seqs[p]) : k = Before(c, p) + j

LEMMA ListedFirst ==
  ASSUME NEW S, NEW seqs, NEW c, c[1] = seqs[1], seqs[1] \in Seq(S)
  PROVE  Listed(c, seqs, S, 1)
<1>1. Before(c, 1) = 0 /\ Len(seqs[1]) \in Nat
  BY DEF Before
<1>2. ASSUME NEW k \in 1 .. Len(c[1])
      PROVE  \E p \in 1 .. 1 : \E j \in 1 .. Len(seqs[p]) : k = Before(c, p) + j
  <2>1. 1 \in 1 .. 1 /\ k \in 1 .. Len(seqs[1]) /\ k = Before(c, 1) + k
    BY <1>1
  <2> QED BY <2>1
<1>3. ASSUME NEW p \in 1 .. 1, NEW j \in 1 .. Len(seqs[p])
      PROVE  Before(c, p) + j \in 1 .. Len(c[1]) /\ c[1][Before(c, p) + j] = seqs[p][j]
  <2>1. p = 1 /\ Before(c, p) + j = j
    BY <1>1
  <2> QED BY <2>1
<1>4. Len(c[1]) = Before(c, 1) + Len(seqs[1])
  BY <1>1
<1> QED BY <1>1, <1>2, <1>3, <1>4 DEF Listed

LEMMA Joined ==
  ASSUME NEW S, NEW s \in Seq(S), NEW t \in Seq(S), NEW u, u = s \o t
  PROVE  /\ u \in Seq(S) /\ Len(u) = Len(s) + Len(t) /\ Len(s) \in Nat /\ Len(t) \in Nat
         /\ \A k \in 1 .. Len(s) : u[k] = s[k]
         /\ \A j \in 1 .. Len(t) : u[Len(s) + j] = t[j]
OBVIOUS

LEMMA ListedNext ==
  ASSUME NEW S, NEW seqs, NEW c, NEW i \in Nat \ {0}, Listed(c, seqs, S, i),
         seqs[i + 1] \in Seq(S), c[i + 1] = c[i] \o seqs[i + 1],
         \A p \in 1 .. i : seqs[p] \in Seq(S)
  PROVE  Listed(c, seqs, S, i + 1)
<1> DEFINE n == Len(c[i])
<1>1. n \in Nat /\ c[i] \in Seq(S) /\ Len(seqs[i + 1]) \in Nat
  BY DEF Listed
<1>2. Before(c, i + 1) = n
  <2>1. i + 1 # 1 /\ (i + 1) - 1 = i
    OBVIOUS
  <2> QED BY <2>1 DEF Before
<1> DEFINE s == c[i]
           t == seqs[i + 1]
           u == c[i + 1]
<1>3. s \in Seq(S) /\ t \in Seq(S) /\ u = s \o t /\ n = Len(s)
  BY <1>1
<1>4. /\ c[i + 1] \in Seq(S) /\ Len(c[i + 1]) = n + Len(seqs[i + 1])
      /\ \A k \in 1 .. n : c[i + 1][k] = c[i][k]
      /\ \A j \in 1 .. Len(seqs[i + 1]) : c[i + 1][n + j] = seqs[i + 1][j]
  <2> HIDE DEF s, t, u, n
  <2>1. /\ u \in Seq(S) /\ Len(u) = n + Len(t)
        /\ \A k \in 1 .. n : u[k] = s[k]
        /\ \A j \in 1 .. Len(t) : u[n + j] = t[j]
    BY <1>3, Joined
  <2> QED BY <2>1 DEF s, t, u
<1>5. \A p \in 1 .. i : \A j \in 1 .. Len(seqs[p]) :
        Before(c, p) + j \in 1 .. n /\ c[i][Before(c, p) + j] = seqs[p][j]
  BY DEF Listed
<1>6. \A k \in 1 .. n : \E p \in 1 .. i : \E j \in 1 .. Len(seqs[p]) : k = Before(c, p) + j
  BY DEF Listed
<1> HIDE DEF n, s, t, u
<1>7. ASSUME NEW p \in 1 .. i + 1, NEW j \in 1 .. Len(seqs[p])
      PROVE  Before(c, p) + j \in 1 .. Len(c[i + 1]) /\ c[i + 1][Before(c, p) + j] = seqs[p][j]
  <2>1. CASE p = i + 1
    <3>1. j \in 1 .. Len(seqs[i + 1])
      BY <2>1
    <3>2. n + j \in 1 .. Len(c[i + 1])
      BY <1>1, <1>4, <3>1
    <3>3. Before(c, p) = n /\ seqs[p] = seqs[i + 1]
      BY <2>1, <1>2
    <3>4. c[i + 1][n + j] = seqs[i + 1][j]
      BY <1>4, <3>1
    <3>5. Before(c, p) + j = n + j
      BY <3>3
    <3> QED BY <3>2, <3>3, <3>4, <3>5
  <2>2. CASE p \in 1 .. i
    <3>1. Before(c, p) + j \in 1 .. n /\ c[i][Before(c, p) + j] = seqs[p][j]
      BY <2>2, <1>5
    <3>2. 1 .. n \subseteq 1 .. Len(c[i + 1])
      BY <1>1, <1>4
    <3> QED BY <1>4, <3>1, <3>2
  <2>3. p = i + 1 \/ p \in 1 .. i
    OBVIOUS
  <2> QED BY <2>1, <2>2, <2>3
<1>8. ASSUME NEW k \in 1 .. Len(c[i + 1])
      PROVE  \E p \in 1 .. i + 1 : \E j \in 1 .. Len(seqs[p]) : k = Before(c, p) + j
  <2>1. CASE k <= n
    <3>1. k \in 1 .. n
      BY <1>1, <2>1
    <3>2. PICK p \in 1 .. i : \E j \in 1 .. Len(seqs[p]) : k = Before(c, p) + j
      BY <3>1, <1>6
    <3>3. p \in 1 .. i + 1
      OBVIOUS
    <3> QED BY <3>2, <3>3
  <2>2. CASE k > n
    <3>1. k - n \in 1 .. Len(seqs[i + 1]) /\ k = n + (k - n)
      BY <1>1, <1>4, <2>2
    <3>2. i + 1 \in 1 .. i + 1
      OBVIOUS
    <3> QED BY <1>2, <3>1, <3>2
  <2> QED BY <1>1, <2>1, <2>2
<1> QED BY <1>1, <1>2, <1>4, <1>7, <1>8 DEF Listed

LEMMA ListedAlways ==
  ASSUME NEW S, NEW seqs \in Seq(Seq(S)), NEW c, IsListing(c, seqs, Len(seqs))
  PROVE  \A i \in 1 .. Len(seqs) : Listed(c, seqs, S, i)
<1> DEFINE Wrong == {i \in 1 .. Len(seqs) : ~Listed(c, seqs, S, i)}
<1> SUFFICES ASSUME Wrong # {} PROVE FALSE
  OBVIOUS
<1>0. Len(seqs) \in Nat /\ \A i \in 1 .. Len(seqs) : i \in Nat /\ seqs[i] \in Seq(S)
  OBVIOUS
<1>1. \A i \in 1 .. Len(seqs) : c[i] = IF i = 1 THEN seqs[i] ELSE c[i - 1] \o seqs[i]
  BY DEF IsListing
<1>2. PICK m \in Wrong : \A k \in Wrong : m <= k
  <2>1. Wrong \in SUBSET Nat
    BY <1>0
  <2> QED BY <2>1, MinNat
<1>3. m \in 1 .. Len(seqs) /\ ~Listed(c, seqs, S, m)
  OBVIOUS
<1>4. m # 1
  BY <1>0, <1>1, <1>3, ListedFirst
<1>5. m - 1 \in 1 .. Len(seqs) /\ m - 1 \in Nat \ {0} /\ (m - 1) + 1 = m /\ ~(m <= m - 1)
  BY <1>0, <1>3, <1>4
<1>6. Listed(c, seqs, S, m - 1)
  BY <1>2, <1>5
<1>7. c[m] = c[m - 1] \o seqs[m]
  BY <1>1, <1>3, <1>4
<1>8. \A p \in 1 .. m - 1 : seqs[p] \in Seq(S)
  BY <1>0, <1>3
<1>9. Listed(c, seqs, S, (m - 1) + 1)
  BY <1>0, <1>3, <1>5, <1>6, <1>7, <1>8, ListedNext
<1> QED BY <1>3, <1>5, <1>9

\* The pages as QueryOrder prints them.
Turned(pages) == [i \in DOMAIN pages |-> Reverse(pages[i])]

LEMMA TurnedPages ==
  ASSUME NEW S, NEW pages \in Seq(Seq(S))
  PROVE  /\ Turned(pages) \in Seq(Seq(S)) /\ Len(Turned(pages)) = Len(pages)
         /\ \A p \in 1 .. Len(pages) :
              /\ Len(Turned(pages)[p]) = Len(pages[p]) /\ Len(pages[p]) \in Nat
              /\ \A j \in 1 .. Len(pages[p]) : Turned(pages)[p][j] = pages[p][Len(pages[p]) - j + 1]
<1>1. ASSUME NEW s \in Seq(S)
      PROVE  /\ Reverse(s) \in Seq(S) /\ Len(Reverse(s)) = Len(s) /\ Len(s) \in Nat
             /\ \A j \in 1 .. Len(s) : Reverse(s)[j] = s[Len(s) - j + 1]
  <2>1. \A i \in 1 .. Len(s) : (Len(s) - i) + 1 \in 1 .. Len(s) /\ s[(Len(s) - i) + 1] \in S
    OBVIOUS
  <2>2. Reverse(s) = [i \in 1 .. Len(s) |-> s[(Len(s) - i) + 1]]
    BY DEF Reverse
  <2> QED BY <2>1, <2>2
<1>2. \A p \in 1 .. Len(pages) : pages[p] \in Seq(S) /\ Turned(pages)[p] = Reverse(pages[p])
  BY DEF Turned
<1>3. Turned(pages) = [p \in 1 .. Len(pages) |-> Turned(pages)[p]]
  BY DEF Turned
<1>4. Len(pages) \in Nat /\ \A p \in 1 .. Len(pages) : Turned(pages)[p] \in Seq(S)
  BY <1>1, <1>2
<1> QED BY <1>1, <1>2, <1>3, <1>4

LEMMA ListingOf ==
  ASSUME NEW S, NEW pages \in Seq(Seq(S)), pages # <<>>
  PROVE  \E c : IsListing(c, Turned(pages), Len(pages)) /\ QueryOrder(pages) = c[Len(pages)]
<1> DEFINE seqs == Turned(pages)
           m    == Len(pages)
           made == CHOOSE c : IsListing(c, seqs, m)
<1>1. m \in Nat /\ m # 0 /\ Len(seqs) = m
  BY TurnedPages
<1>2. IsListing(made, seqs, m)
  BY <1>1, ListingExists
<1>3. QueryOrder(pages) = FlattenSeq(seqs)
  BY DEF QueryOrder, Turned
<1> HIDE DEF seqs, m
<1>4. FlattenSeq(seqs) = made[m]
  BY <1>1 DEF FlattenSeq, IsListing
<1> QED BY <1>2, <1>3, <1>4 DEF seqs, m

AllListed(c, pages, S) == \A i \in 1 .. Len(pages) : Listed(c, Turned(pages), S, i)

\* What is left of the number is the number less what the pages before hold.
LEMMA WalkLeaves ==
  ASSUME NEW S, NEW pages \in Seq(Seq(S)), NEW c, AllListed(c, pages, S),
         NEW num \in Nat, NEW l, IsWalk(l, pages, num)
  PROVE  \A i \in 1 .. Len(pages) : l[i] = num - Before(c, i)
<1> DEFINE Wrong == {i \in 1 .. Len(pages) : l[i] # num - Before(c, i)}
<1> SUFFICES ASSUME Wrong # {} PROVE FALSE
  OBVIOUS
<1>0. Len(pages) \in Nat /\ \A i \in 1 .. Len(pages) : i \in Nat
  OBVIOUS
<1>1. \A i \in 1 .. Len(pages) : l[i] = IF i = 1 THEN num ELSE l[i - 1] - Len(pages[i - 1])
  BY DEF IsWalk
<1>2. PICK m \in Wrong : \A k \in Wrong : m <= k
  <2>1. Wrong \in SUBSET Nat
    BY <1>0
  <2> QED BY <2>1, MinNat
<1>3. m \in 1 .. Len(pages) /\ l[m] # num - Before(c, m)
  OBVIOUS
<1>4. m # 1
  <2>1. l[1] = num /\ Before(c, 1) = 0
    BY <1>1, <1>3 DEF Before
  <2> QED BY <1>3, <2>1
<1>5. m - 1 \in 1 .. Len(pages) /\ ~(m <= m - 1)
  BY <1>0, <1>3, <1>4
<1>6. l[m - 1] = num - Before(c, m - 1)
  BY <1>2, <1>5
<1>7. l[m] = l[m - 1] - Len(pages[m - 1])
  BY <1>1, <1>3, <1>4
<1>8. /\ Len(c[m - 1]) = Before(c, m - 1) + Len(pages[m - 1]) /\ Before(c, m - 1) \in Nat
      /\ Len(pages[m - 1]) \in Nat
  BY <1>5, TurnedPages DEF Listed, AllListed
<1>9. Before(c, m) = Len(c[m - 1])
  BY <1>4 DEF Before
<1>10. l[m] = num - Before(c, m)
  <2> DEFINE x == Before(c, m - 1)
             y == Len(pages[m - 1])
  <2>1. l[m] = (num - x) - y /\ Before(c, m) = x + y /\ x \in Nat /\ y \in Nat
    BY <1>6, <1>7, <1>8, <1>9
  <2> HIDE DEF x, y
  <2> QED BY <2>1
<1> QED BY <1>3, <1>10

LEMMA WalkExists ==
  ASSUME NEW S, NEW pages \in Seq(Seq(S)), NEW c, AllListed(c, pages, S),
         NEW num \in Nat
  PROVE  \E l : IsWalk(l, pages, num)
<1> DEFINE l == [i \in 1 .. Len(pages) |-> num - Before(c, i)]
<1>1. ASSUME NEW i \in 1 .. Len(pages)
      PROVE  l[i] = IF i = 1 THEN num ELSE l[i - 1] - Len(pages[i - 1])
  <2>1. CASE i = 1
    BY <2>1 DEF Before
  <2>2. CASE i # 1
    <3>1. i - 1 \in 1 .. Len(pages)
      BY <2>2
    <3>2. /\ Len(c[i - 1]) = Before(c, i - 1) + Len(pages[i - 1]) /\ Before(c, i - 1) \in Nat
          /\ Len(pages[i - 1]) \in Nat
      BY <3>1, TurnedPages DEF Listed, AllListed
    <3>3. Before(c, i) = Len(c[i - 1])
      BY <2>2 DEF Before
    <3> QED BY <2>2, <3>1, <3>2, <3>3
  <2> QED BY <2>1, <2>2
<1>2. l = [i \in 1 .. Len(pages) |-> IF i = 1 THEN num ELSE l[i - 1] - Len(pages[i - 1])]
  BY <1>1
<1> HIDE DEF l
<1>3. IsWalk(l, pages, num)
  BY <1>2 DEF IsWalk
<1> QED BY <1>3

\* Where the walk ends: entry l[p] from the end of the page on which the rest of the
\* number is no more than the page holds.
Ends(l, pages) ==
  {<<i, Len(pages[i]) - l[i] + 1>> : i \in {p \in DOMAIN pages : l[p] \in 1 .. Len(pages[p])}}

LEMMA FoundOf ==
  ASSUME NEW S, NEW pages \in Seq(Seq(S)), NEW num, \E l : IsWalk(l, pages, num)
  PROVE  \E l : IsWalk(l, pages, num) /\ Found(pages, num) = Ends(l, pages)
<1> DEFINE made == CHOOSE l : IsWalk(l, pages, num)
<1>1. IsWalk(made, pages, num)
  OBVIOUS
<1>2. Found(pages, num) = Ends(made, pages)
  BY DEF Found, Ends, IsWalk
<1> QED BY <1>1, <1>2

At(pages, at) == pages[at[1]][at[2]]

LEMMA WalkAndListing ==
  ASSUME NEW S, NEW pages \in Seq(Seq(S)), NEW num \in Nat \ {0}
  PROVE  {At(pages, at) : at \in Found(pages, num)}
           = IF num \in DOMAIN QueryOrder(pages) THEN {QueryOrder(pages)[num]} ELSE {}
<1> DEFINE m == Len(pages)
           listing == QueryOrder(pages)
<1>1. CASE pages = <<>>
  <2>1. Turned(pages) = <<>>
    BY <1>1 DEF Turned
  <2>2. listing = FlattenSeq(Turned(pages))
    BY DEF QueryOrder, Turned
  <2>3. listing = <<>>
    BY <2>1, <2>2 DEF FlattenSeq
  <2>4. Found(pages, num) = {}
    BY <1>1 DEF Found
  <2> QED BY <2>3, <2>4
<1>2. CASE pages # <<>>
  <2>1. m \in Nat /\ m # 0 /\ DOMAIN pages = 1 .. m
    BY <1>2
  <2>2. PICK c : IsListing(c, Turned(pages), m) /\ listing = c[m]
    BY <1>2, ListingOf
  <2>3. AllListed(c, pages, S)
    BY <2>2, TurnedPages, ListedAlways DEF AllListed
  <2>4. PICK l : IsWalk(l, pages, num) /\ Found(pages, num) = Ends(l, pages)
    <3>1. \E w : IsWalk(w, pages, num)
      BY <2>3, WalkExists
    <3> QED BY <3>1, FoundOf
  <2>5. \A p \in 1 .. m : l[p] = num - Before(c, p) /\ Before(c, p) \in Nat
    <3>1. \A p \in 1 .. m : l[p] = num - Before(c, p)
      BY <2>3, <2>4, WalkLeaves
    <3>2. \A p \in 1 .. m : Before(c, p) \in Nat
      BY <2>3 DEF Listed, AllListed
    <3> QED BY <3>1, <3>2
  <2>6. /\ listing \in Seq(S)
        /\ \A p \in 1 .. m : \A j \in 1 .. Len(pages[p]) :
             /\ Before(c, p) + j \in 1 .. Len(listing)
             /\ listing[Before(c, p) + j] = pages[p][Len(pages[p]) - j + 1]
        /\ \A k \in 1 .. Len(listing) :
             \E p \in 1 .. m : \E j \in 1 .. Len(pages[p]) : k = Before(c, p) + j
    <3>1. Listed(c, Turned(pages), S, m)
      BY <2>1, <2>3 DEF AllListed
    <3>2. \A p \in 1 .. m : /\ Len(Turned(pages)[p]) = Len(pages[p])
                            /\ \A j \in 1 .. Len(pages[p]) :
                                 Turned(pages)[p][j] = pages[p][Len(pages[p]) - j + 1]
      BY TurnedPages
    <3>3. /\ listing \in Seq(S)
          /\ \A p \in 1 .. m : \A j \in 1 .. Len(Turned(pages)[p]) :
               /\ Before(c, p) + j \in 1 .. Len(listing)
               /\ listing[Before(c, p) + j] = Turned(pages)[p][j]
          /\ \A k \in 1 .. Len(listing) :
               \E p \in 1 .. m : \E j \in 1 .. Len(Turned(pages)[p]) : k = Before(c, p) + j
      BY <2>2, <3>1 DEF Listed
    <3>4. m \in Nat
      OBVIOUS
    <3> HIDE DEF listing, m
    <3>5. ASSUME NEW p \in 1 .. m, NEW j \in 1 .. Len(pages[p])
          PROVE  /\ Before(c, p) + j \in 1 .. Len(listing)
                 /\ listing[Before(c, p) + j] = pages[p][Len(pages[p]) - j + 1]
      <4>1. j \in 1 .. Len(Turned(pages)[p]) /\ Turned(pages)[p][j] = pages[p][Len(pages[p]) - j + 1]
        BY <3>2
      <4> QED BY <3>3, <4>1
    <3>6. ASSUME NEW k \in 1 .. Len(listing)
          PROVE  \E p \in 1 .. m : \E j \in 1 .. Len(pages[p]) : k = Before(c, p) + j
      <4>1. PICK p \in 1 .. m : \E j \in 1 .. Len(Turned(pages)[p]) : k = Before(c, p) + j
        BY <3>3
      <4>2. Len(Turned(pages)[p]) = Len(pages[p])
        BY <3>2
      <4> QED BY <4>1, <4>2
    <3> QED BY <3>3, <3>5, <3>6
  <2>7. DOMAIN listing = 1 .. Len(listing)
    BY <2>6
  <2>8. ASSUME NEW at \in Found(pages, num)
        PROVE  num \in 1 .. Len(listing) /\ At(pages, at) = listing[num]
    <3>1. PICK p \in 1 .. m : l[p] \in 1 .. Len(pages[p]) /\ at = <<p, Len(pages[p]) - l[p] + 1>>
      BY <2>1, <2>4 DEF Ends
    <3>2. Before(c, p) + l[p] = num
      BY <2>5, <3>1
    <3>3. At(pages, at) = pages[p][Len(pages[p]) - l[p] + 1]
      BY <3>1 DEF At
    <3> QED BY <2>6, <3>1, <3>2, <3>3
  <2>9. ASSUME num \in 1 .. Len(listing) PROVE Found(pages, num) # {}
    <3>1. PICK p \in 1 .. m : \E j \in 1 .. Len(pages[p]) : num = Before(c, p) + j
      BY <2>6, <2>9
    <3>2. l[p] \in 1 .. Len(pages[p])
      BY <2>5, <3>1
    <3>3. <<p, Len(pages[p]) - l[p] + 1>> \in Ends(l, pages)
      BY <2>1, <3>2 DEF Ends
    <3> QED BY <2>4, <3>3
  <2>10. CASE num \in 1 .. Len(listing)
    <3>1. PICK at : at \in Found(pages, num)
      BY <2>9, <2>10
    <3> QED BY <2>7, <2>8, <2>10, <3>1
  <2>11. CASE num \notin 1 .. Len(listing)
    BY <2>7, <2>8, <2>11
  <2> QED BY <2>10, <2>11
<1> QED BY <1>1, <1>2

\* The number a customer reads off the listing is the one the walk of RefundTicket
\* ends at, and a number beyond the list finds nothing (QueryOrder, RefundTicket).
LEMMA ListingNumbers ==
  ASSUME \A u \in Users : orderlist[u] \in Seq(Seq(OrderInfo)), MaxTimestamp \in Nat
  PROVE  ListedIsRefunded
<1> SUFFICES ASSUME NEW u \in Users, NEW n \in 1 .. MaxTimestamp + 2
             PROVE  {OrderAt(u, at) : at \in Found(orderlist[u], n)}
                      = IF n \in DOMAIN QueryOrder(orderlist[u]) THEN {QueryOrder(orderlist[u])[n]} ELSE {}
  BY DEF ListedIsRefunded
<1>1. n \in Nat \ {0} /\ orderlist[u] \in Seq(Seq(OrderInfo))
  OBVIOUS
<1>2. \A at : OrderAt(u, at) = At(orderlist[u], at)
  BY DEF OrderAt, At
<1>3. {OrderAt(u, at) : at \in Found(orderlist[u], n)} = {At(orderlist[u], at) : at \in Found(orderlist[u], n)}
  BY <1>2
<1>4. {At(orderlist[u], at) : at \in Found(orderlist[u], n)}
        = IF n \in DOMAIN QueryOrder(orderlist[u]) THEN {QueryOrder(orderlist[u])[n]} ELSE {}
  BY <1>1, WalkAndListing
<1> QED BY <1>3, <1>4

\* A customer refunds the order read off the listing: the walk of RefundTicket,
\* which takes whole pages off the number, ends at the order QueryOrder lists under
\* that number, however the orders are spread over pages, and nowhere beyond the
\* list.
THEOREM ListingIsRefunded == Spec => []ListedIsRefunded
<1>1. SalesInv => ListedIsRefunded
  <2> SUFFICES ASSUME SalesInv PROVE ListedIsRefunded
    OBVIOUS
  <2>1. \A u \in Users : orderlist[u] \in Seq(Seq(OrderInfo))
    BY DEF SalesInv, TypeOK, Orderlist, PagesOf
  <2> QED BY <2>1, SalesAssumption, ListingNumbers
<1> QED BY <1>1, SalesInvariant, PTL

-----------------------------------------------------------------------------
(***************************************************************************)
(* TicketSales implements TicketOffice: what the seat counters, the chains *)
(* of waiters and the chains of orders do together is what one book of     *)
(* numbered orders and the rule of the house promise.                      *)
(***************************************************************************)
\* What the book says of order o of user u.
Line(u, o) == [user |-> u, trip |-> o.trip, leg |-> o.leg, num |-> o.num, status |-> o.status]

\* The book lists the orders of owned, a function on the users, from 0 to last.
IsBook(book, owned, last) ==
  /\ book = [i \in 0 .. last |-> book[i]]
  /\ \A u \in Users : \A o \in owned[u] :
       o \in OrderInfo /\ o.timestamp \in 0 .. last /\ book[o.timestamp] = Line(u, o)
  /\ \A i \in 0 .. last : \E u \in Users : \E o \in owned[u] : o.timestamp = i
  /\ last \in Int /\ last >= -1

Owned == [u \in Users |-> OrdersOf(u)]

\* Since the orders are numbered without gaps and no number twice, the book that
\* CHOOSE reads off the lists is well defined.
LEMMA BookNow == TypeOK /\ Numbered => IsBook(OfficeOrders, Owned, Newest)
<1> SUFFICES ASSUME TypeOK, Numbered PROVE IsBook(OfficeOrders, Owned, Newest)
  OBVIOUS
<1> DEFINE entry(i) == LET p == CHOOSE q \in Placed : q.order.timestamp = i
                       IN [user |-> p.user, trip |-> p.order.trip, leg |-> p.order.leg,
                           num |-> p.order.num, status |-> p.order.status]
<1>1. Newest \in Int /\ Newest >= -1
  BY SalesAssumption DEF TypeOK, Newest, InvalidPageId
<1>2. ASSUME NEW u \in Users, NEW o \in OrdersOf(u)
      PROVE  o \in OrderInfo /\ o.timestamp \in 0 .. Newest /\ [user |-> u, order |-> o] \in Placed
  <2>1. o \in OrderInfo /\ o.timestamp \in Nat
    BY InfoOfOrder
  <2>2. o.timestamp <= Newest
    BY DEF Numbered
  <2>3. [user |-> u, order |-> o] \in Placed
    BY DEF Placed
  <2> QED BY <1>1, <2>1, <2>2, <2>3
<1>3. ASSUME NEW p \in Placed
      PROVE  p.user \in Users /\ p.order \in OrdersOf(p.user) /\ p = [user |-> p.user, order |-> p.order]
  BY DEF Placed
<1>4. ASSUME NEW i PROVE i \in {p.order.timestamp : p \in Placed} <=> i \in 0 .. Newest
  <2>1. ASSUME NEW p \in Placed PROVE p.order.timestamp \in 0 .. Newest
    BY <1>2, <1>3
  <2>2. ASSUME i \in 0 .. Newest PROVE \E p \in Placed : p.order.timestamp = i
    <3>1. PICK u, o : u \in Users /\ o \in OrdersOf(u) /\ o.timestamp = i
      BY <2>2 DEF Numbered
    <3> QED BY <3>1, <1>2
  <2> QED BY <2>1, <2>2
<1>5. OfficeOrders = [i \in 0 .. Newest |-> entry(i)]
  <2>1. {p.order.timestamp : p \in Placed} = 0 .. Newest
    BY <1>4
  <2> QED BY <2>1 DEF OfficeOrders
<1>6. ASSUME NEW u \in Users, NEW o \in OrdersOf(u)
      PROVE  entry(o.timestamp) = Line(u, o)
  <2> DEFINE p == CHOOSE q \in Placed : q.order.timestamp = o.timestamp
  <2>1. p \in Placed /\ p.order.timestamp = o.timestamp
    <3>1. \E q \in Placed : q.order.timestamp = o.timestamp
      BY <1>2
    <3> QED BY <3>1
  <2> HIDE DEF p
  <2>2. p.user = u /\ p.order = o
    BY <1>3, <2>1 DEF Numbered
  <2>3. entry(o.timestamp) = [user |-> p.user, trip |-> p.order.trip, leg |-> p.order.leg,
                              num |-> p.order.num, status |-> p.order.status]
    BY DEF p
  <2> QED BY <2>2, <2>3 DEF Line
<1> HIDE DEF entry
<1>7. \A u \in Users : \A o \in Owned[u] :
        o \in OrderInfo /\ o.timestamp \in 0 .. Newest /\ OfficeOrders[o.timestamp] = Line(u, o)
  BY <1>2, <1>5, <1>6 DEF Owned
<1>8. \A i \in 0 .. Newest : \E u \in Users : \E o \in Owned[u] : o.timestamp = i
  BY DEF Numbered, Owned
<1>9. OfficeOrders = [i \in 0 .. Newest |-> OfficeOrders[i]]
  BY <1>5
<1> QED BY <1>1, <1>7, <1>8, <1>9 DEF IsBook

LEMMA OfficeCounts == \A S : Office!Cardinality(S) = Cardinality(S)
BY DEF Office!Cardinality, Cardinality

LEMMA BookSize ==
  ASSUME NEW book, NEW owned, NEW n, IsBook(book, owned, n)
  PROVE  Office!Cardinality(DOMAIN book) = n + 1 /\ DOMAIN book = 0 .. n
<1>1. DOMAIN book = 0 .. n /\ n \in Int /\ n >= -1
  BY DEF IsBook
<1>2. Cardinality(0 .. n) = n + 1
  BY <1>1, FS_Interval
<1> QED BY <1>1, <1>2, OfficeCounts

OwnsMore(now, owned, u, o) ==
  \A v \in Users : now[v] = IF v = u THEN owned[v] \cup {o} ELSE owned[v]

OwnsRestated(now, owned, u, o, st) ==
  \A v \in Users : now[v] = IF v = u THEN (owned[v] \ {o}) \cup {Restated(o, st)} ELSE owned[v]

\* Placing an order writes the next line of the book.
LEMMA BookGains ==
  ASSUME NEW book, NEW owned, NEW n, IsBook(book, owned, n),
         NEW after, NEW now, IsBook(after, now, n + 1),
         NEW u \in Users, NEW o, o.timestamp = n + 1,
         OwnsMore(now, owned, u, o)
  PROVE  after = Office!Entered(book, Line(u, o))
<1>1. n \in Int /\ n >= -1 /\ book = [i \in 0 .. n |-> book[i]] /\ after = [i \in 0 .. n + 1 |-> after[i]]
  BY DEF IsBook
<1>2. Office!Entered(book, Line(u, o)) = [i \in 0 .. n + 1 |-> IF i = n + 1 THEN Line(u, o) ELSE book[i]]
  <2>1. DOMAIN book \cup {n + 1} = 0 .. n + 1
    BY <1>1
  <2> QED BY <2>1, BookSize DEF Office!Entered
<1>3. ASSUME NEW i \in 0 .. n + 1
      PROVE  after[i] = IF i = n + 1 THEN Line(u, o) ELSE book[i]
  <2>1. CASE i = n + 1
    <3>1. o \in now[u]
      BY DEF OwnsMore
    <3>2. after[o.timestamp] = Line(u, o)
      BY <3>1 DEF IsBook
    <3> QED BY <2>1, <3>2
  <2>2. CASE i # n + 1
    <3>1. i \in 0 .. n
      BY <2>2, <1>1
    <3>2. PICK v, x : v \in Users /\ x \in owned[v] /\ x.timestamp = i
      BY <3>1 DEF IsBook
    <3>3. x \in now[v]
      BY <3>2 DEF OwnsMore
    <3>4. book[i] = Line(v, x) /\ after[i] = Line(v, x)
      BY <3>2, <3>3 DEF IsBook
    <3> QED BY <2>2, <3>4
  <2> QED BY <2>1, <2>2
<1> QED BY <1>1, <1>2, <1>3

\* A change of status rewrites one line.
LEMMA BookRestates ==
  ASSUME NEW book, NEW owned, NEW n, IsBook(book, owned, n),
         NEW after, NEW now, IsBook(after, now, n),
         NEW u \in Users, NEW o \in owned[u], NEW st \in Statuses,
         OwnsRestated(now, owned, u, o, st)
  PROVE  after = Office!WithStatus(book, o.timestamp, st)
<1> DEFINE r == Restated(o, st)
<1>1. /\ n \in Int /\ book = [i \in 0 .. n |-> book[i]] /\ after = [i \in 0 .. n |-> after[i]]
      /\ o \in OrderInfo /\ o.timestamp \in 0 .. n /\ book[o.timestamp] = Line(u, o)
  BY DEF IsBook
<1>2. r.timestamp = o.timestamp /\ Line(u, r) = [Line(u, o) EXCEPT !.status = st]
  <2>1. /\ r.timestamp = o.timestamp /\ r.num = o.num /\ r.trip = o.trip /\ r.leg = o.leg
        /\ r.status = st
    BY <1>1, RestatedFields
  <2> HIDE DEF r
  <2> QED BY <2>1 DEF Line
<1>3. r \in now[u]
  BY DEF OwnsRestated
<1> HIDE DEF r
<1>4. Office!WithStatus(book, o.timestamp, st)
        = [i \in 0 .. n |-> IF i = o.timestamp THEN Line(u, r) ELSE book[i]]
  <2>1. Office!WithStatus(book, o.timestamp, st)
          = [book EXCEPT ![o.timestamp] = [book[o.timestamp] EXCEPT !.status = st]]
    BY DEF Office!WithStatus
  <2> QED BY <2>1, <1>1, <1>2
<1>5. ASSUME NEW i \in 0 .. n
      PROVE  after[i] = IF i = o.timestamp THEN Line(u, r) ELSE book[i]
  <2>1. CASE i = o.timestamp
    BY <2>1, <1>2, <1>3 DEF IsBook
  <2>2. CASE i # o.timestamp
    <3>1. PICK v, x : v \in Users /\ x \in owned[v] /\ x.timestamp = i
      BY DEF IsBook
    <3>2. x \in now[v]
      BY <2>2, <3>1 DEF OwnsRestated
    <3>3. book[i] = Line(v, x) /\ after[i] = Line(v, x)
      BY <3>1, <3>2 DEF IsBook
    <3> QED BY <2>2, <3>3
  <2> QED BY <2>1, <2>2
<1> QED BY <1>1, <1>4, <1>5

-----------------------------------------------------------------------------
(* The seats left are the seats free in the book. *)

LEMMA BookSeats ==
  ASSUME TypeOK, Numbered, NEW k, NEW s, IsFiniteSet(Sold(k, s))
  PROVE  Office!Cardinality(Office!SeatsSold(OfficeOrders, k, s)) = Cardinality(Sold(k, s))
<1> DEFINE S == Sold(k, s)
           T == Office!SeatsSold(OfficeOrders, k, s)
           f == [x \in S |-> <<x[2].timestamp, x[3]>>]
<1>1. IsBook(OfficeOrders, Owned, Newest)
  BY BookNow
<1>2. ASSUME NEW x
      PROVE  x \in S <=> \E u \in Users : \E o \in OrdersOf(u) : \E n \in 1 .. o.num :
                           x = <<u, o, n>> /\ o.trip = k /\ o.status = "success" /\ s \in Covers(o.leg)
  BY DEF Sold
<1>3. ASSUME NEW y
      PROVE  y \in T <=> \E i \in DOMAIN OfficeOrders : \E n \in 1 .. OfficeOrders[i].num :
                           /\ y = <<i, n>> /\ OfficeOrders[i].trip = k
                           /\ OfficeOrders[i].status = "success" /\ s \in Covers(OfficeOrders[i].leg)
  BY DEF Office!SeatsSold, Office!SoldOn, Office!Covers, Covers
<1>4. ASSUME NEW u \in Users, NEW o \in OrdersOf(u)
      PROVE  /\ o.timestamp \in DOMAIN OfficeOrders
             /\ OfficeOrders[o.timestamp].trip = o.trip /\ OfficeOrders[o.timestamp].num = o.num
             /\ OfficeOrders[o.timestamp].leg = o.leg /\ OfficeOrders[o.timestamp].status = o.status
  <2>1. o \in Owned[u]
    BY DEF Owned
  <2>2. o.timestamp \in 0 .. Newest /\ OfficeOrders[o.timestamp] = Line(u, o)
        /\ DOMAIN OfficeOrders = 0 .. Newest
    BY <1>1, <2>1 DEF IsBook
  <2> QED BY <2>2 DEF Line
<1>5. ASSUME NEW i \in DOMAIN OfficeOrders
      PROVE  \E u \in Users : \E o \in OrdersOf(u) : o.timestamp = i
  BY <1>1 DEF IsBook, Owned
<1> HIDE DEF S, T
<1>6. f \in [S -> T]
  <2>1. ASSUME NEW x \in S PROVE <<x[2].timestamp, x[3]>> \in T
    <3>1. PICK u, o, n : /\ u \in Users /\ o \in OrdersOf(u) /\ n \in 1 .. o.num
                         /\ x = <<u, o, n>> /\ o.trip = k /\ o.status = "success" /\ s \in Covers(o.leg)
      BY <1>2
    <3>2. x[2] = o /\ x[3] = n
      BY <3>1
    <3> QED BY <3>1, <3>2, <1>3, <1>4
  <2> QED BY <2>1
<1>7. ASSUME NEW x \in S, NEW y \in S, f[x] = f[y] PROVE x = y
  <2>1. PICK u, o, n : u \in Users /\ o \in OrdersOf(u) /\ x = <<u, o, n>>
    BY <1>2
  <2>2. PICK v, p, m : v \in Users /\ p \in OrdersOf(v) /\ y = <<v, p, m>>
    BY <1>2
  <2>3. o.timestamp = p.timestamp /\ n = m
    <3>1. <<o.timestamp, n>> = <<p.timestamp, m>>
      BY <1>7, <2>1, <2>2
    <3> QED BY <3>1
  <2>4. u = v /\ o = p
    BY <2>1, <2>2, <2>3 DEF Numbered
  <2> QED BY <2>1, <2>2, <2>3, <2>4
<1>8. ASSUME NEW y \in T PROVE \E x \in S : f[x] = y
  <2>1. PICK i, n : /\ i \in DOMAIN OfficeOrders /\ n \in 1 .. OfficeOrders[i].num
                    /\ y = <<i, n>> /\ OfficeOrders[i].trip = k
                    /\ OfficeOrders[i].status = "success" /\ s \in Covers(OfficeOrders[i].leg)
    BY <1>3
  <2>2. PICK u, o : u \in Users /\ o \in OrdersOf(u) /\ o.timestamp = i
    BY <1>5, <2>1
  <2>3. <<u, o, n>> \in S
    BY <1>2, <1>4, <2>1, <2>2
  <2>4. f[<<u, o, n>>] = <<o.timestamp, n>>
    BY <2>3
  <2> QED BY <2>1, <2>2, <2>3, <2>4
<1>9. f \in Bijection(S, T)
  <2> HIDE DEF f
  <2>1. IsInjective(f)
    BY <1>6, <1>7 DEF IsInjective
  <2> QED BY <1>6, <1>8, <2>1 DEF Bijection, Injection, Surjection
<1>10. Cardinality(T) = Cardinality(S)
  BY <1>9, FS_Bijection DEF ExistsBijection, S
<1> QED BY <1>10, OfficeCounts DEF S, T

\* Free seats and fitting parties agree with the counters, until a crash.
LEMMA BookFits ==
  SalesInv /\ status # "crashed" =>
    \A k \in Trips, leg \in Legs, num \in Nums :
      Office!Fits(OfficeOrders, k, leg, num) <=> Fits(SeatsLeft(k), leg, num)
<1> SUFFICES ASSUME SalesInv, status # "crashed", NEW k \in Trips, NEW leg \in Legs, NEW num \in Nums
             PROVE  Office!Fits(OfficeOrders, k, leg, num) <=> Fits(SeatsLeft(k), leg, num)
  OBVIOUS
<1>1. ASSUME NEW s \in Segments
      PROVE  Office!Free(OfficeOrders, k, s) = SeatsLeft(k)[s]
  <2>1. IsFiniteSet(Sold(k, s)) /\ SeatsLeft(k)[s] + Cardinality(Sold(k, s)) = MaxSeat
    BY DEF SalesInv, SoldFinite, SeatsConserved
  <2>2. Cardinality(Sold(k, s)) \in Nat
    BY <2>1, FS_CardinalityType
  <2>3. SeatsLeft(k)[s] \in Int
    BY SeatsTyped, SalesAssumption DEF Seats, SalesInv
  <2>4. Office!Cardinality(Office!SeatsSold(OfficeOrders, k, s)) = Cardinality(Sold(k, s))
    BY <2>1, BookSeats DEF SalesInv
  <2> QED BY <2>1, <2>2, <2>3, <2>4, SalesAssumption DEF Office!Free
<1> QED BY <1>1, CoveredSegments DEF Office!Fits, Office!Covers, Fits, Covers

-----------------------------------------------------------------------------
(* Those who wait in the book are those in the queues. *)

LEMMA BookWaiting ==
  ASSUME SalesInv, status # "crashed", NEW k \in Trips, NEW j
  PROVE  j \in Office!Servable(OfficeOrders, k) <=>
           \E u \in Users : \E o \in OrdersOf(u) :
             /\ o.timestamp = j /\ o.trip = k /\ o.status = "pending"
             /\ Fits(SeatsLeft(k), o.leg, o.num)
<1>1. IsBook(OfficeOrders, Owned, Newest)
  BY BookNow DEF SalesInv
<1>2. DOMAIN OfficeOrders = 0 .. Newest
  BY <1>1 DEF IsBook
<1>3. ASSUME NEW u \in Users, NEW o \in OrdersOf(u)
      PROVE  /\ o.timestamp \in DOMAIN OfficeOrders
             /\ OfficeOrders[o.timestamp].trip = o.trip /\ OfficeOrders[o.timestamp].num = o.num
             /\ OfficeOrders[o.timestamp].leg = o.leg /\ OfficeOrders[o.timestamp].status = o.status
             /\ o.leg \in Legs /\ o.num \in Nums
  <2>1. o \in Owned[u]
    BY DEF Owned
  <2>2. o.timestamp \in 0 .. Newest /\ OfficeOrders[o.timestamp] = Line(u, o) /\ o \in OrderInfo
    BY <1>1, <2>1 DEF IsBook
  <2> QED BY <1>2, <2>2 DEF Line, OrderInfo
<1>4. ASSUME NEW i \in DOMAIN OfficeOrders
      PROVE  \E u \in Users : \E o \in OrdersOf(u) : o.timestamp = i
  BY <1>1, <1>2 DEF IsBook, Owned
<1>5. \A leg \in Legs, num \in Nums : Office!Fits(OfficeOrders, k, leg, num) <=> Fits(SeatsLeft(k), leg, num)
  BY BookFits
<1>6. ASSUME j \in Office!Servable(OfficeOrders, k)
      PROVE  \E u \in Users : \E o \in OrdersOf(u) :
               /\ o.timestamp = j /\ o.trip = k /\ o.status = "pending"
               /\ Fits(SeatsLeft(k), o.leg, o.num)
  <2>1. /\ j \in DOMAIN OfficeOrders /\ OfficeOrders[j].trip = k /\ OfficeOrders[j].status = "pending"
        /\ Office!Fits(OfficeOrders, k, OfficeOrders[j].leg, OfficeOrders[j].num)
    BY <1>6 DEF Office!Servable, Office!Waiting
  <2>2. PICK u, o : u \in Users /\ o \in OrdersOf(u) /\ o.timestamp = j
    BY <1>4, <2>1
  <2> QED BY <1>3, <1>5, <2>1, <2>2
<1>7. ASSUME NEW u \in Users, NEW o \in OrdersOf(u), o.timestamp = j, o.trip = k, o.status = "pending",
             Fits(SeatsLeft(k), o.leg, o.num)
      PROVE  j \in Office!Servable(OfficeOrders, k)
  <2>1. Office!Fits(OfficeOrders, k, OfficeOrders[j].leg, OfficeOrders[j].num)
    BY <1>3, <1>5, <1>7
  <2> QED BY <1>3, <1>7, <2>1 DEF Office!Servable, Office!Waiting
<1> QED BY <1>6, <1>7

NoneServable ==
  status # "crashed" =>
    \A k \in Trips : refund.trip # k => Office!Servable(OfficeOrders, k) = {}

\* Where no pass is under way nobody could be served.
LEMMA NobodyServable == SalesInv => NoneServable
<1> SUFFICES ASSUME SalesInv, status # "crashed", NEW k \in Trips, refund.trip # k,
                    NEW j \in Office!Servable(OfficeOrders, k)
             PROVE  FALSE
  BY DEF NoneServable
<1>1. PICK u, o : /\ u \in Users /\ o \in OrdersOf(u) /\ o.trip = k /\ o.status = "pending"
                  /\ Fits(SeatsLeft(k), o.leg, o.num)
  BY BookWaiting
<1>2. PICK w \in Queued(k) : StandsFor(w, k, u, o)
  BY <1>1 DEF SalesInv, Matched
<1>3. NoVain(waitlist[k], FetchTicket(k))
  BY StoresOK, NoVainNow DEF NoVainOn, SalesInv
<1>4. SeatsLeft(k) = FetchTicket(k)
  BY DEF SeatsLeft
<1> QED BY <1>1, <1>2, <1>3, <1>4 DEF NoVain, Queued, StandsFor

\* During a pass nobody before the slot reached could be served.
LEMMA EarlierNotServable ==
  ASSUME SalesInv, Passing, Slot(Chain, refund.at).queue,
         NEW j \in Office!Servable(OfficeOrders, refund.trip)
  PROVE  Slot(Chain, refund.at).timestamp <= j
<1> DEFINE k == refund.trip
           at == refund.at
<1>1. /\ k \in Trips /\ at \in 1 .. Slots(Chain) /\ Waitlist(Chain)
      /\ status = "up" /\ refund.seats \in Seats /\ at \in Nat
      /\ NoVainBefore(Chain, refund.seats, at) /\ Slots(Chain) \in Nat
  BY PassingAt
<1>2. PICK u, o : /\ u \in Users /\ o \in OrdersOf(u) /\ o.timestamp = j
                  /\ o.trip = k /\ o.status = "pending" /\ Fits(SeatsLeft(k), o.leg, o.num)
  BY <1>1, BookWaiting
<1>3. PICK w \in Queued(k) : StandsFor(w, k, u, o)
  BY <1>2 DEF SalesInv, Matched
<1>4. w \in Entries(Chain) /\ w.queue /\ w.timestamp = j /\ Fits(refund.seats, w.leg, w.num)
  BY <1>2, <1>3 DEF Queued, Chain, StandsFor, SeatsLeft
<1>5. PICK n \in 1 .. Slots(Chain) : Filled(Chain, n) /\ Slot(Chain, n) = w
  BY <1>1, <1>4, SlotOfEntry
<1>6. ~(n < at)
  BY <1>1, <1>4, <1>5 DEF NoVainBefore
<1>7. Filled(Chain, at) /\ Slot(Chain, at) \in Entries(Chain)
  BY <1>1, QueuedSlot
<1>8. CASE n = at
  <2>1. Slot(Chain, at).timestamp \in Nat
    BY <1>1, <1>7, InfoOfWaiter DEF Chain, SalesInv
  <2> QED BY <1>4, <1>5, <1>8, <2>1
<1>9. CASE n # at
  <2>1. at < n
    BY <1>1, <1>6, <1>9
  <2>2. Slot(Chain, at).timestamp < Slot(Chain, n).timestamp
    BY <1>1, <1>5, <1>7, <2>1, SlotsSorted
  <2>3. Slot(Chain, at).timestamp \in Nat /\ Slot(Chain, n).timestamp \in Nat
    BY <1>1, <1>4, <1>5, <1>7, InfoOfWaiter DEF Chain, SalesInv
  <2> QED BY <1>4, <1>5, <2>2, <2>3
<1> QED BY <1>8, <1>9

-----------------------------------------------------------------------------
(* Each step of the sales is a step of the office, or none. *)

LEMMA BookInv == SalesInv => IsBook(OfficeOrders, Owned, Newest)
BY BookNow DEF SalesInv

LEMMA BookInvNext ==
  ASSUME SalesInv'
  PROVE  IsBook(OfficeOrders', Owned', Newest') /\ Owned' = [u \in Users |-> OrdersOf(u)']
<1>1. SalesInv' => IsBook(OfficeOrders, Owned, Newest)'
  BY BookInv, PTL
<1> QED BY <1>1 DEF IsBook, Owned

LEMMA NobodyServableNext ==
  ASSUME SalesInv', status' # "crashed", NEW k \in Trips, refund'.trip # k
  PROVE  Office!Servable(OfficeOrders', k) = {}
<1>1. SalesInv' => NoneServable'
  BY NobodyServable, PTL
<1> QED BY <1>1 DEF NoneServable, Office!Servable, Office!Waiting, Office!Fits, Office!Free, Office!SeatsSold, Office!SoldOn

\* Nothing the customer sees changes.
LEMMA SameBook ==
  ASSUME SalesInv, SalesInv', UNCHANGED orderlist
  PROVE  OfficeOrders' = OfficeOrders
BY DEF OfficeOrders, Placed, OrdersOf

LEMMA PlaceStep ==
  ASSUME SalesInv, SalesInv', Ready, UNCHANGED <<refund, status>>,
         NEW u \in Users, NEW k \in Trips, NEW leg \in Legs, NEW num \in Nums, num <= MaxSeat,
         NEW st, st = IF Fits(FetchTicket(k), leg, num) THEN "success" ELSE "pending",
         Gains(u, NewOrder(k, leg, num, st)), timestamp' = timestamp + 1
  PROVE  Office!OfficeNext
<1> DEFINE o == NewOrder(k, leg, num, st)
           line == Line(u, o)
<1>1. /\ status = "up" /\ status' = "up" /\ refund = NoRefund /\ refund' = NoRefund
      /\ Newest = timestamp /\ Newest' = Newest + 1
  BY DEF Ready, Newest
<1>2. o.timestamp = Newest + 1
  BY <1>1 DEF NewOrder
<1>3. line = [user |-> u, trip |-> k, leg |-> leg, num |-> num, status |-> st]
  BY DEF Line, NewOrder
<1> HIDE DEF o
<1>4. OfficeOrders' = Office!Entered(OfficeOrders, line)
  <2>1. IsBook(OfficeOrders, Owned, Newest) /\ IsBook(OfficeOrders', Owned', Newest + 1)
    BY <1>1, BookInv, BookInvNext
  <2>2. OwnsMore(Owned', Owned, u, o)
    BY BookInvNext DEF Owned, Gains, OwnsMore, o
  <2> QED BY <1>2, <2>1, <2>2, BookGains
<1> HIDE DEF line
<1>5. line \in Office!Order
  BY <1>3 DEF Office!Order
<1>6. refund.trip = NoTrip /\ refund'.trip = NoTrip /\ SeatsLeft(k) = FetchTicket(k)
  BY <1>1, SalesAssumption DEF NoRefund, SeatsLeft
<1>7. line.status = IF Office!Fits(OfficeOrders, line.trip, line.leg, line.num) THEN "success" ELSE "pending"
  BY <1>1, <1>3, <1>6, BookFits
<1>8. Office!Place(OfficeOrders, OfficeOrders', line)
  BY <1>3, <1>4, <1>6, <1>7 DEF Office!Place
<1> QED BY <1>5, <1>8 DEF Office!OfficeNext

\* A change of status, as the book sees it.
LEMMA StatusStep ==
  ASSUME SalesInv, SalesInv', Newest' = Newest, NEW u \in Users, NEW o \in OrdersOf(u),
         NEW st \in Statuses, Restates(u, o, st)
  PROVE  /\ OfficeOrders' = Office!WithStatus(OfficeOrders, o.timestamp, st)
         /\ o.timestamp \in DOMAIN OfficeOrders
         /\ OfficeOrders[o.timestamp].trip = o.trip /\ OfficeOrders[o.timestamp].status = o.status
<1>1. IsBook(OfficeOrders, Owned, Newest) /\ IsBook(OfficeOrders', Owned', Newest)
  BY BookInv, BookInvNext
<1>2. OwnsRestated(Owned', Owned, u, o, st)
  BY BookInvNext DEF Owned, Restates, OwnsRestated
<1>3. o \in Owned[u]
  BY DEF Owned
<1>4. OfficeOrders' = Office!WithStatus(OfficeOrders, o.timestamp, st)
  BY <1>1, <1>2, <1>3, BookRestates
<1>5. o.timestamp \in DOMAIN OfficeOrders /\ OfficeOrders[o.timestamp] = Line(u, o)
  BY <1>1, <1>3 DEF IsBook
<1> QED BY <1>4, <1>5 DEF Line

LEMMA RefundStep ==
  ASSUME SalesInv, SalesInv', NEW u, NEW o, Refunding(u, o),
         RefundPending(o) \/ RefundSold(o) \/ RefundSoldToWaiters(o) \/ RefundIntoDroppedPage(o)
  PROVE  Office!OfficeNext
<1> DEFINE i == o.timestamp
<1>1. /\ status = "up" /\ refund = NoRefund /\ u \in Users /\ o \in OrdersOf(u) /\ o.status # "refunded"
      /\ Restates(u, o, "refunded") /\ UNCHANGED <<timestamp, header>>
  BY DEF Refunding, Ready
<1>2. status' \in {"up", "crashed"}
  BY <1>1 DEF RefundPending, RefundSold, RefundSoldToWaiters, RefundIntoDroppedPage
<1>3. Newest' = Newest
  BY <1>1, <1>2 DEF Newest
<1>4. /\ OfficeOrders' = Office!WithStatus(OfficeOrders, i, "refunded")
      /\ i \in DOMAIN OfficeOrders /\ OfficeOrders[i].trip = o.trip /\ OfficeOrders[i].status = o.status
  BY <1>1, <1>3, StatusStep DEF Statuses
<1>5. o.trip \in Trips /\ refund.trip = NoTrip
  BY <1>1, InfoOfOrder DEF OrderInfo, NoRefund, SalesInv
<1>6. \/ refund'.trip = o.trip /\ o.status = "success"
      \/ refund'.trip = NoTrip /\ Office!Servable(OfficeOrders', o.trip) = {}
  <2>1. CASE RefundPending(o) \/ RefundSold(o)
    <3>1. refund'.trip = NoTrip /\ status' # "crashed"
      BY <1>1, <2>1 DEF RefundPending, RefundSold, NoRefund
    <3> QED BY <1>5, <3>1, NobodyServableNext, SalesAssumption
  <2>2. CASE RefundSoldToWaiters(o)
    BY <2>2 DEF RefundSoldToWaiters
  <2>3. CASE RefundIntoDroppedPage(o)
    <3>1. refund'.trip = NoTrip /\ waitlist' = [waitlist EXCEPT ![o.trip] = <<>>]
      BY <1>5, <2>3 DEF RefundIntoDroppedPage
    <3>2. waitlist'[o.trip] = <<>>
      BY <1>5, <3>1 DEF SalesInv, TypeOK
    <3>3. Queued(o.trip)' = {}
      BY <3>2 DEF Queued, Entries
    <3>4. ASSUME NEW v \in Users, NEW x \in OrdersOf(v)', x.trip = o.trip, x.status = "pending"
          PROVE  FALSE
      <4>1. Matched'
        BY DEF SalesInv
      <4>2. \E w \in Queued(o.trip)' : StandsFor(w, o.trip, v, x)
        BY <3>4, <4>1 DEF Matched, StandsFor, Queued
      <4> QED BY <3>3, <4>2
    <3>5. ASSUME NEW j \in Office!Waiting(OfficeOrders', o.trip) PROVE FALSE
      <4>1. j \in DOMAIN OfficeOrders' /\ OfficeOrders'[j].trip = o.trip /\ OfficeOrders'[j].status = "pending"
        BY DEF Office!Waiting
      <4>2. IsBook(OfficeOrders', Owned', Newest')
        BY BookInvNext
      <4>3. PICK v, x : v \in Users /\ x \in Owned'[v] /\ x.timestamp = j
        BY <4>1, <4>2 DEF IsBook
      <4>4. OfficeOrders'[j] = Line(v, x) /\ x \in OrdersOf(v)'
        BY <4>2, <4>3, BookInvNext DEF IsBook
      <4> QED BY <3>4, <4>1, <4>3, <4>4 DEF Line
    <3> QED BY <3>1, <3>5 DEF Office!Servable
  <2> QED BY <2>1, <2>2, <2>3
<1>7. Office!Refund(OfficeOrders, OfficeOrders', i)
  BY <1>1, <1>4, <1>5, <1>6 DEF Office!Refund
<1> QED BY <1>4, <1>7 DEF Office!OfficeNext

LEMMA ServeStep ==
  ASSUME SalesInv, SalesInv', ServeNext
  PROVE  Office!OfficeNext
<1> DEFINE k == refund.trip
           info == Slot(Chain, refund.at)
<1>1. PICK u, o : /\ u \in Users /\ o \in OrdersOf(u) /\ info \in Queued(k)
                  /\ StandsFor(info, k, u, o) /\ Restates(u, o, "success")
  BY ServeFinds
<1>2. /\ Passing /\ info.queue /\ Fits(refund.seats, info.leg, info.num)
      /\ refund' = [refund EXCEPT !.at = @ + 1, !.seats = Plus(@, info.leg, -info.num)]
      /\ UNCHANGED <<timestamp, header, status>>
  BY DEF ServeNext, Servable
<1>3. k \in Trips /\ status = "up" /\ refund = [trip |-> k, seats |-> refund.seats, at |-> refund.at]
  BY <1>2, PassingAt
<1>4. refund'.trip = k /\ k # NoTrip
  BY <1>2, <1>3, SalesAssumption
<1>5. /\ OfficeOrders' = Office!WithStatus(OfficeOrders, o.timestamp, "success")
      /\ o.timestamp \in DOMAIN OfficeOrders
  <2>1. Newest' = Newest
    BY <1>2 DEF Newest
  <2> QED BY <1>1, <2>1, StatusStep DEF Statuses
<1>6. /\ o.timestamp = info.timestamp /\ o.leg = info.leg /\ o.num = info.num
      /\ o.trip = k /\ o.status = "pending"
  BY <1>1 DEF StandsFor
<1>7. o.timestamp \in Office!Servable(OfficeOrders, k)
  BY <1>1, <1>2, <1>3, <1>6, BookWaiting DEF SeatsLeft
<1>8. \A j \in Office!Servable(OfficeOrders, k) : o.timestamp <= j
  BY <1>2, <1>6, EarlierNotServable
<1>9. Office!Serve(OfficeOrders, OfficeOrders', o.timestamp)
  BY <1>4, <1>5, <1>7, <1>8 DEF Office!Serve
<1> QED BY <1>5, <1>9 DEF Office!OfficeNext

LEMMA ReopenStep ==
  ASSUME SalesInv, SalesInv', FinishRefund
  PROVE  Office!OfficeNext
<1> DEFINE k == refund.trip
<1>1. /\ refund # NoRefund /\ refund' = NoRefund /\ UNCHANGED <<orderlist, status>>
  BY DEF FinishRefund
<1>2. k \in Trips /\ k # NoTrip /\ status' # "crashed" /\ refund'.trip = NoTrip
  BY <1>1, SalesAssumption DEF SalesInv, PassSound, NoRefund
<1>3. OfficeOrders' = OfficeOrders
  BY <1>1, SameBook
<1>4. Office!Servable(OfficeOrders, k) = {}
  BY <1>2, <1>3, NobodyServableNext
<1>5. Office!Reopen(OfficeOrders, OfficeOrders')
  BY <1>2, <1>3, <1>4 DEF Office!Reopen
<1> QED BY <1>5 DEF Office!OfficeNext

LEMMA StepImplements ==
  SalesInv /\ SalesInv' /\ [Next]_salesVars => [Office!OfficeNext]_(Office!officeVars)
<1> SUFFICES ASSUME SalesInv, SalesInv', [Next]_salesVars
             PROVE  [Office!OfficeNext]_(Office!officeVars)
  OBVIOUS
<1>0. ASSUME UNCHANGED orderlist, refund'.trip = refund.trip
      PROVE  UNCHANGED Office!officeVars
  BY <1>0, SameBook DEF Office!officeVars
<1>1. ASSUME NEW u \in Users, NEW k \in Trips, NEW leg \in Legs, NEW num \in Nums,
             BuyTicket(u, k, leg, num) \/ QueueForTicket(u, k, leg, num)
      PROVE  Office!OfficeNext
  <2> DEFINE st == IF Fits(FetchTicket(k), leg, num) THEN "success" ELSE "pending"
  <2>1. /\ Ready /\ CanStamp /\ num <= MaxSeat /\ UNCHANGED <<refund, status>>
        /\ Ordered(u, k, leg, num, st)
    BY <1>1 DEF BuyTicket, QueueForTicket
  <2>2. st \in Statuses
    BY DEF Statuses
  <2> HIDE DEF st
  <2>3. Gains(u, NewOrder(k, leg, num, st)) /\ timestamp' = timestamp + 1
    BY <2>1, <2>2, OrderedKeeps DEF Ready, SalesInv, Ordered
  <2> QED BY <2>1, <2>3, PlaceStep DEF st
<1>2. ASSUME NEW u \in Users, NEW num, RefundTicket(u, num)
      PROVE  Office!OfficeNext
  <2>1. PICK at \in Found(orderlist[u], num) :
          /\ OrderAt(u, at).status # "refunded"
          /\ orderlist' = [orderlist EXCEPT ![u] = WithStatus(@, at, "refunded")]
          /\ \/ RefundPending(OrderAt(u, at))
             \/ RefundSold(OrderAt(u, at))
             \/ RefundSoldToWaiters(OrderAt(u, at))
             \/ RefundIntoDroppedPage(OrderAt(u, at))
    BY <1>2 DEF RefundTicket
  <2>2. Refunding(u, OrderAt(u, at))
    BY <1>2, <2>1, RefundFinds DEF RefundTicket, SalesInv
  <2> QED BY <2>1, <2>2, RefundStep
<1>3. CASE ServeNext
  BY <1>3, ServeStep
<1>4. CASE FinishRefund
  BY <1>4, ReopenStep
<1>5. CASE PassOver
  <2>1. refund'.trip = refund.trip
    BY <1>5 DEF PassOver, SalesInv, TypeOK
  <2> QED BY <1>0, <1>5, <2>1 DEF PassOver
<1>6. CASE Exit \/ Start \/ \E u \in Users : RefundWithoutOrders(u)
  BY <1>0, <1>6 DEF Exit, Start, RefundWithoutOrders
<1>7. CASE UNCHANGED salesVars
  BY <1>0, <1>7 DEF salesVars
<1> QED BY <1>1, <1>2, <1>3, <1>4, <1>5, <1>6, <1>7 DEF Next, InTheLoop

LEMMA InitImplements == Init => Office!OfficeInit
<1> SUFFICES ASSUME Init PROVE Office!OfficeInit
  OBVIOUS
<1>1. IsBook(OfficeOrders, Owned, Newest)
  BY SalesInvInit, BookInv
<1>2. Newest = -1
  BY DEF Init, Newest, InvalidPageId
<1>3. OfficeOrders = [i \in {} |-> 0]
  <2>1. OfficeOrders = [i \in 0 .. -1 |-> OfficeOrders[i]]
    BY <1>1, <1>2 DEF IsBook
  <2>2. 0 .. -1 = {}
    OBVIOUS
  <2> QED BY <2>1, <2>2
<1>4. refund.trip = NoTrip
  BY DEF Init, NoRefund
<1> QED BY <1>3, <1>4 DEF Office!OfficeInit

\* For any trains, users, legs and page sizes, whatever is bought, queued for and
\* refunded, and however a pass interleaves with restarts, a customer of
\* BuyTicket and RefundTicket sees one book of orders, numbered as placed, and
\* waiters served in that order as far as they fit.
THEOREM SalesImplementOffice == Spec => ImplementsOffice
<1>1. Init => Office!OfficeInit
  BY InitImplements
<1>2. SalesInv /\ SalesInv' /\ [Next]_salesVars => [Office!OfficeNext]_(Office!officeVars)
  BY StepImplements
<1> QED BY <1>1, <1>2, SalesInvariant, PTL DEF Spec, ImplementsOffice, Office!OfficeSpec
=============================================================================
