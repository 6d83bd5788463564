------------------------- MODULE TrainSystemProofs --------------------------
(***************************************************************************)
(* Theorems about TrainSystem (ticket/train_system.cpp), for any trains.   *)
(*                                                                         *)
(* The catalogue keeps every train as it was entered, for any services and *)
(* page sizes: records and lists never move, the index leads to the record *)
(* of the train it is asked for, and what a customer sees is Timetable.    *)
(* A ticket query lists the trains that can be bought: each released train *)
(* is in the station index under its stations, and the walk down the two   *)
(* train lists finds those on both.                                        *)
(*                                                                         *)
(* The days and times of a journey agree: the dates of the code number the *)
(* days from the first of June one by one, adding to and taking from a     *)
(* time adds to and takes from the count of minutes, and so a run is found *)
(* again from the day on which it leaves any of its stations.  The answer  *)
(* to a query for a journey with one change is the best there is.          *)
(***************************************************************************)
EXTENDS TrainCatalog, TrainTime, TLAPS, WellFoundedInduction, FiniteSetTheorems

-----------------------------------------------------------------------------
(* Induction. *)

LEMMA CourseOfValues ==
  ASSUME NEW S \in SUBSET Nat,
         \A n \in Nat : (\A m \in Nat : m < n => m \in S) => n \in S
  PROVE  \A n \in Nat : n \in S
<1>1. SUFFICES ASSUME Nat \ S # {} PROVE FALSE
  OBVIOUS
<1>2. PICK n \in Nat \ S : \A m \in Nat \ S : ~(<<m, n>> \in OpToRel(<, Nat))
  BY <1>1, NatLessThanWellFounded, WFMin
<1>3. ASSUME NEW m \in Nat, m < n PROVE m \in S
  BY <1>2, <1>3 DEF OpToRel
<1> QED BY <1>2, <1>3

-----------------------------------------------------------------------------
(***************************************************************************)
(* The catalogue.  First sequences of pages.                               *)
(***************************************************************************)

IsSeq(s) == s \in Seq(Range(s))

IsAppended(new, old, e) ==
  /\ IsSeq(new) /\ Len(old) \in Nat
  /\ DOMAIN old = 1 .. Len(old) /\ DOMAIN new = 1 .. Len(old) + 1
  /\ Len(new) = Len(old) + 1
  /\ \A i \in 1 .. Len(old) : new[i] = old[i]
  /\ new[Len(old) + 1] = e

LEMMA Appended ==
  ASSUME NEW s, IsSeq(s), NEW e
  PROVE  IsAppended(Append(s, e), s, e)
<1> DEFINE S == Range(s) \cup {e}
           new == Append(s, e)
<1>1. s \in Seq(S) /\ e \in S
  BY DEF IsSeq
<1> HIDE DEF S
<1>2. /\ new \in Seq(S) /\ Len(new) = Len(s) + 1 /\ Len(s) \in Nat
      /\ DOMAIN s = 1 .. Len(s) /\ DOMAIN new = 1 .. Len(s) + 1
      /\ \A i \in 1 .. Len(s) : new[i] = s[i]
      /\ new[Len(s) + 1] = e
  BY <1>1
<1> HIDE DEF new
<1>3. IsSeq(new)
  BY <1>2 DEF IsSeq, Range
<1> QED BY <1>2, <1>3 DEF IsAppended, new

Replaced(s, i, e) == [s EXCEPT ![i] = e]

IsReplaced(new, old, i, e) ==
  /\ IsSeq(new) /\ DOMAIN new = DOMAIN old /\ Len(new) = Len(old)
  /\ DOMAIN old = 1 .. Len(old) /\ Len(old) \in Nat
  /\ \A j \in DOMAIN old : new[j] = IF j = i THEN e ELSE old[j]

LEMMA Replacing ==
  ASSUME NEW s, IsSeq(s), NEW i \in DOMAIN s, NEW e
  PROVE  IsReplaced(Replaced(s, i, e), s, i, e)
<1> DEFINE S == Range(s) \cup {e}
           new == Replaced(s, i, e)
<1>1. s \in Seq(S) /\ e \in S
  BY DEF IsSeq
<1> HIDE DEF S
<1>2. /\ new \in Seq(S) /\ Len(new) = Len(s) /\ Len(s) \in Nat
      /\ DOMAIN s = 1 .. Len(s) /\ DOMAIN new = DOMAIN s
      /\ \A j \in DOMAIN s : new[j] = IF j = i THEN e ELSE s[j]
  BY <1>1 DEF Replaced
<1> HIDE DEF new
<1>3. IsSeq(new)
  BY <1>2 DEF IsSeq, Range
<1> QED BY <1>2, <1>3 DEF IsReplaced, new

-----------------------------------------------------------------------------
(* Pages of records and pages of lists. *)

Info == [train_id : TrainIds, released : BOOLEAN, lists : [1 .. 4 -> Nat \X Nat]]

TuplePage(page) ==
  /\ DOMAIN page = {"tuples"} /\ page = [tuples |-> page.tuples]
  /\ page.tuples \in Seq(Info)

DynamicPage(page) ==
  /\ DOMAIN page = {"size", "at"} /\ page = [size |-> page.size, at |-> page.at]
  /\ page.size \in Nat /\ DOMAIN page.at \subseteq 0 .. page.size - 1

LEMMA PagesDiffer ==
  ASSUME NEW page, TuplePage(page), DynamicPage(page)
  PROVE  FALSE
BY DEF TuplePage, DynamicPage

\* A list is where rid says.
Points(ps, rid) ==
  /\ rid \in Nat \X Nat
  /\ rid[1] \in DOMAIN ps /\ DynamicPage(ps[rid[1]])
  /\ rid[2] \in DOMAIN ps[rid[1]].at

\* A record is where rid says.
HasRecord(ps, rid) ==
  /\ rid \in Nat \X Nat
  /\ rid[1] \in DOMAIN ps /\ TuplePage(ps[rid[1]])
  /\ rid[2] + 1 \in DOMAIN ps[rid[1]].tuples

PagesTyped(ps) == IsSeq(ps) /\ \A p \in DOMAIN ps : TuplePage(ps[p]) \/ DynamicPage(ps[p])

\* The lists of every record are there.
ListsThere(ps) ==
  \A p \in DOMAIN ps :
    TuplePage(ps[p]) =>
      \A j \in DOMAIN ps[p].tuples, n \in 1 .. 4 : Points(ps, ps[p].tuples[j].lists[n])

\* What is on the pages stays where it is.
GrowsTuple(new, old) ==
  /\ TuplePage(new)
  /\ \A j \in DOMAIN old.tuples : j \in DOMAIN new.tuples /\ new.tuples[j] = old.tuples[j]

GrowsDynamic(new, old) ==
  /\ DynamicPage(new)
  /\ \A c \in DOMAIN old.at : c \in DOMAIN new.at /\ new.at[c] = old.at[c]

Grows(new, old) ==
  /\ DOMAIN old \subseteq DOMAIN new
  /\ \A p \in DOMAIN old : TuplePage(old[p]) => GrowsTuple(new[p], old[p])
  /\ \A p \in DOMAIN old : DynamicPage(old[p]) => GrowsDynamic(new[p], old[p])

\* There are no records but the ones there were.
OldRecords(new, old) ==
  \A p \in DOMAIN new : TuplePage(new[p]) =>
    \A j \in DOMAIN new[p].tuples :
      /\ p \in DOMAIN old /\ TuplePage(old[p])
      /\ j \in DOMAIN old[p].tuples /\ new[p].tuples[j] = old[p].tuples[j]

LEMMA OldRecordsTransitive ==
  ASSUME NEW one, NEW two, NEW three, OldRecords(two, one), OldRecords(three, two)
  PROVE  OldRecords(three, one)
BY DEF OldRecords

LEMMA GrowsTransitive ==
  ASSUME NEW one, NEW two, NEW three, Grows(two, one), Grows(three, two)
  PROVE  Grows(three, one)
BY DEF Grows, GrowsTuple, GrowsDynamic

LEMMA PointsStay ==
  ASSUME NEW old, NEW new, Grows(new, old), NEW rid, Points(old, rid)
  PROVE  Points(new, rid) /\ new[rid[1]].at[rid[2]] = old[rid[1]].at[rid[2]]
BY DEF Points, Grows, GrowsDynamic

LEMMA ListsStay ==
  ASSUME NEW old, NEW new, Grows(new, old), OldRecords(new, old), ListsThere(old)
  PROVE  ListsThere(new)
BY PointsStay DEF ListsThere, OldRecords

LEMMA RecordsStay ==
  ASSUME NEW old, NEW new, Grows(new, old), NEW rid, HasRecord(old, rid)
  PROVE  HasRecord(new, rid) /\ new[rid[1]].tuples[rid[2] + 1] = old[rid[1]].tuples[rid[2] + 1]
BY DEF HasRecord, Grows, GrowsTuple

-----------------------------------------------------------------------------
(* Writing the lists. *)

CurrentDynamic(ps, id) == id = NoPage \/ (id \in DOMAIN ps /\ DynamicPage(ps[id]))

LEMMA WrittenPage ==
  ASSUME NEW page, DynamicPage(page), NEW cells \in Nat, cells >= 1, NEW data
  PROVE  /\ GrowsDynamic(Written(page, cells, data), page)
         /\ page.size \in Nat
         /\ page.size \in DOMAIN Written(page, cells, data).at
         /\ Written(page, cells, data).at[page.size] = data
<1> DEFINE at == [slot \in DOMAIN page.at \cup {page.size} |-> IF slot = page.size THEN data ELSE page.at[slot]]
<1>1. page.size \in Nat /\ DOMAIN page.at \subseteq 0 .. page.size - 1
  BY DEF DynamicPage
<1>2. /\ DOMAIN at \subseteq 0 .. page.size + cells - 1 /\ DOMAIN page.at \subseteq DOMAIN at
      /\ page.size \in DOMAIN at /\ at[page.size] = data
      /\ \A c \in DOMAIN page.at : at[c] = page.at[c]
  BY <1>1
<1>3. Written(page, cells, data) = [size |-> page.size + cells, at |-> at]
  BY DEF Written
<1> HIDE DEF at
<1> QED BY <1>1, <1>2, <1>3 DEF GrowsDynamic, DynamicPage

LEMMA EmptyPages == TuplePage(EmptyTuplePage) /\ DynamicPage(EmptyDynamicPage)
BY DEF TuplePage, EmptyTuplePage, DynamicPage, EmptyDynamicPage

LEMMA ServiceCells ==
  ASSUME NEW service \in Services, NEW list
  PROVE  Cells(service, list) \in Nat /\ Cells(service, list) >= 1
<1>1. Len(service.stations) \in 2 .. DynamicMax - 1
  BY CatalogAssumption
<1>2. Len(service.stations) \in Nat /\ Len(service.stations) >= 2
  <2>1. DynamicMax \in Nat
    BY CatalogAssumption
  <2> QED BY <1>1, <2>1
<1>3. CASE list = "stations"
  BY <1>2, <1>3 DEF Cells
<1>4. CASE list # "stations"
  BY <1>2, <1>4 DEF Cells
<1> QED BY <1>3, <1>4

\* Replacing a page by one that has grown, or adding one.
LEMMA ReplaceGrows ==
  ASSUME NEW ps, PagesTyped(ps), NEW i \in DOMAIN ps, NEW page,
         \/ DynamicPage(ps[i]) /\ GrowsDynamic(page, ps[i])
         \/ TuplePage(ps[i]) /\ GrowsTuple(page, ps[i])
  PROVE  /\ PagesTyped(Replaced(ps, i, page)) /\ Grows(Replaced(ps, i, page), ps)
         /\ IsReplaced(Replaced(ps, i, page), ps, i, page)
<1> DEFINE new == Replaced(ps, i, page)
<1>1. IsReplaced(new, ps, i, page)
  BY Replacing DEF PagesTyped
<1> HIDE DEF new
<1>2. PagesTyped(new)
  BY <1>1 DEF IsReplaced, PagesTyped, GrowsDynamic, GrowsTuple
<1>3. ASSUME NEW p \in DOMAIN ps, TuplePage(ps[p]) PROVE GrowsTuple(new[p], ps[p])
  BY <1>1, <1>3, PagesDiffer DEF IsReplaced, GrowsTuple
<1>4. ASSUME NEW p \in DOMAIN ps, DynamicPage(ps[p]) PROVE GrowsDynamic(new[p], ps[p])
  BY <1>1, <1>4, PagesDiffer DEF IsReplaced, GrowsDynamic
<1> QED BY <1>1, <1>2, <1>3, <1>4 DEF Grows, IsReplaced, new

LEMMA AppendGrows ==
  ASSUME NEW ps, PagesTyped(ps), NEW page, TuplePage(page) \/ DynamicPage(page)
  PROVE  /\ PagesTyped(Append(ps, page)) /\ Grows(Append(ps, page), ps)
         /\ IsAppended(Append(ps, page), ps, page)
<1> DEFINE new == Append(ps, page)
<1>1. IsAppended(new, ps, page)
  BY Appended DEF PagesTyped
<1> HIDE DEF new
<1>2. PagesTyped(new)
  <2>1. ASSUME NEW p \in DOMAIN new PROVE TuplePage(new[p]) \/ DynamicPage(new[p])
    <3>1. CASE p \in DOMAIN ps
      BY <3>1, <1>1 DEF IsAppended, PagesTyped
    <3>2. CASE p \notin DOMAIN ps
      <4>1. p = Len(ps) + 1
        BY <3>2, <1>1 DEF IsAppended
      <4> QED BY <4>1, <1>1 DEF IsAppended
    <3> QED BY <3>1, <3>2
  <2> QED BY <2>1, <1>1 DEF IsAppended, PagesTyped
<1>3. /\ DOMAIN ps \subseteq DOMAIN new
      /\ \A p \in DOMAIN ps : new[p] = ps[p]
  BY <1>1 DEF IsAppended
<1> QED BY <1>1, <1>2, <1>3 DEF Grows, GrowsTuple, GrowsDynamic, new

\* The list is written to the page rid says, and nothing else changes.
ListWritten(new, old, data) ==
  /\ PagesTyped(new.pages) /\ Grows(new.pages, old.pages) /\ OldRecords(new.pages, old.pages)
  /\ new.page_id # NoPage /\ CurrentDynamic(new.pages, new.page_id)
  /\ \E rid : /\ new.rids = Append(old.rids, rid)
              /\ Points(new.pages, rid) /\ new.pages[rid[1]].at[rid[2]] = data

LEMMA RoomIsMade ==
  ASSUME NEW store, PagesTyped(store.pages), CurrentDynamic(store.pages, store.page_id),
         NEW cells
  PROVE  /\ PagesTyped(WithRoom(store, cells).pages)
         /\ Grows(WithRoom(store, cells).pages, store.pages)
         /\ OldRecords(WithRoom(store, cells).pages, store.pages)
         /\ WithRoom(store, cells).page_id \in DOMAIN WithRoom(store, cells).pages
         /\ DynamicPage(WithRoom(store, cells).pages[WithRoom(store, cells).page_id])
         /\ WithRoom(store, cells).rids = store.rids
<1>1. CASE store.page_id = NoPage \/ IsFull(store.pages[store.page_id], cells)
  <2>1. /\ WithRoom(store, cells).pages = Append(store.pages, EmptyDynamicPage)
        /\ WithRoom(store, cells).page_id = Len(store.pages) + 1
        /\ WithRoom(store, cells).rids = store.rids
    BY <1>1 DEF WithRoom
  <2>2. /\ PagesTyped(Append(store.pages, EmptyDynamicPage))
        /\ Grows(Append(store.pages, EmptyDynamicPage), store.pages)
        /\ IsAppended(Append(store.pages, EmptyDynamicPage), store.pages, EmptyDynamicPage)
    BY AppendGrows, EmptyPages
  <2> HIDE DEF EmptyDynamicPage
  <2>3. /\ Len(store.pages) + 1 \in DOMAIN Append(store.pages, EmptyDynamicPage)
        /\ Append(store.pages, EmptyDynamicPage)[Len(store.pages) + 1] = EmptyDynamicPage
    BY <2>2 DEF IsAppended
  <2>4. OldRecords(Append(store.pages, EmptyDynamicPage), store.pages)
    <3>1. ASSUME NEW p \in DOMAIN Append(store.pages, EmptyDynamicPage),
                 TuplePage(Append(store.pages, EmptyDynamicPage)[p])
          PROVE  p \in DOMAIN store.pages
      BY <2>2, <3>1, EmptyPages, PagesDiffer DEF IsAppended
    <3> QED BY <3>1, <2>2 DEF OldRecords, IsAppended
  <2> QED BY <2>1, <2>2, <2>3, <2>4, EmptyPages
<1>2. CASE ~(store.page_id = NoPage \/ IsFull(store.pages[store.page_id], cells))
  <2>1. WithRoom(store, cells) = store
    BY <1>2 DEF WithRoom
  <2>2. Grows(store.pages, store.pages) /\ OldRecords(store.pages, store.pages)
    BY DEF Grows, GrowsTuple, GrowsDynamic, OldRecords
  <2> QED BY <1>2, <2>1, <2>2 DEF CurrentDynamic
<1> QED BY <1>1, <1>2

LEMMA ListIsNoted ==
  ASSUME NEW store, PagesTyped(store.pages), store.page_id \in DOMAIN store.pages,
         DynamicPage(store.pages[store.page_id]), NEW cells \in Nat, cells >= 1, NEW data
  PROVE  ListWritten(Noted(store, cells, data), store, data)
<1> DEFINE id == store.page_id
           page == store.pages[id]
           after == Written(page, cells, data)
           ps == Replaced(store.pages, id, after)
           rid == <<id, page.size>>
           new == Noted(store, cells, data)
<1>1. new.pages = ps /\ new.page_id = id /\ new.rids = Append(store.rids, rid)
  BY DEF Noted, Replaced
<1>2. /\ GrowsDynamic(after, page) /\ page.size \in Nat
      /\ page.size \in DOMAIN after.at /\ after.at[page.size] = data
  BY WrittenPage
<1> HIDE DEF after, new
<1>3. /\ PagesTyped(ps) /\ Grows(ps, store.pages) /\ IsReplaced(ps, store.pages, id, after)
  BY <1>2, ReplaceGrows
<1> HIDE DEF ps, page
<1>4. /\ id \in Nat /\ id \in DOMAIN ps /\ ps[id] = after
  BY <1>3 DEF IsReplaced
<1>5. DynamicPage(after)
  BY <1>2 DEF GrowsDynamic
<1> HIDE DEF id
<1>6. rid \in Nat \X Nat /\ rid[1] = id /\ rid[2] = page.size
  BY <1>2, <1>4
<1> HIDE DEF rid
<1>7. Points(ps, rid) /\ ps[rid[1]].at[rid[2]] = data
  BY <1>2, <1>4, <1>5, <1>6 DEF Points
<1>8. id # NoPage /\ CurrentDynamic(ps, id)
  BY <1>4, <1>5, CatalogAssumption DEF CurrentDynamic
<1>9. OldRecords(ps, store.pages)
  <2>1. ASSUME NEW p \in DOMAIN ps, TuplePage(ps[p])
        PROVE  p \in DOMAIN store.pages /\ ps[p] = store.pages[p]
    BY <1>3, <1>5, <2>1, PagesDiffer DEF IsReplaced
  <2> QED BY <2>1 DEF OldRecords
<1> QED BY <1>1, <1>3, <1>7, <1>8, <1>9 DEF ListWritten, new

LEMMA WriteDynamicInfoWrites ==
  ASSUME NEW store, PagesTyped(store.pages), CurrentDynamic(store.pages, store.page_id),
         NEW list, NEW service \in Services
  PROVE  ListWritten(WriteDynamicInfo(store, list, service), store, service[list])
<1> DEFINE room == WithRoom(store, Cells(service, list))
           new  == Noted(room, Cells(service, list), service[list])
<1>1. /\ PagesTyped(room.pages) /\ Grows(room.pages, store.pages)
      /\ OldRecords(room.pages, store.pages)
      /\ room.page_id \in DOMAIN room.pages
      /\ DynamicPage(room.pages[room.page_id])
      /\ room.rids = store.rids
  BY RoomIsMade
<1>2. WriteDynamicInfo(store, list, service) = new
  BY DEF WriteDynamicInfo
<1> HIDE DEF room
<1>3. ListWritten(new, room, service[list])
  BY <1>1, ServiceCells, ListIsNoted
<1> HIDE DEF new
<1>4. Grows(new.pages, store.pages) /\ OldRecords(new.pages, store.pages)
  BY <1>1, <1>3, GrowsTransitive, OldRecordsTransitive DEF ListWritten
<1> QED BY <1>1, <1>2, <1>3, <1>4 DEF ListWritten

\* The four lists, written from the current dynamic page on.
Holds(ps, rid, data) == Points(ps, rid) /\ ps[rid[1]].at[rid[2]] = data

LEMMA HoldsStay ==
  ASSUME NEW old, NEW new, Grows(new, old), NEW rid, NEW data, Holds(old, rid, data)
  PROVE  Holds(new, rid, data)
BY PointsStay DEF Holds

LEMMA FourAppended ==
  ASSUME NEW S, NEW a \in S, NEW b \in S, NEW c \in S, NEW d \in S, NEW s,
         s = Append(Append(Append(Append(<<>>, a), b), c), d)
  PROVE  s[1] = a /\ s[2] = b /\ s[3] = c /\ s[4] = d
OBVIOUS

LEMMA AllWrittenHolds ==
  ASSUME NEW service \in Services, PagesTyped(pages), CurrentDynamic(pages, dynamic_page_id)
  PROVE  /\ PagesTyped(AllWritten(service).pages)
         /\ Grows(AllWritten(service).pages, pages)
         /\ OldRecords(AllWritten(service).pages, pages)
         /\ CurrentDynamic(AllWritten(service).pages, AllWritten(service).page_id)
         /\ \A n \in 1 .. 4 :
              Holds(AllWritten(service).pages, AllWritten(service).rids[n], service[Lists[n]])
<1> DEFINE none  == [pages |-> pages, page_id |-> dynamic_page_id, rids |-> <<>>]
           one   == WriteDynamicInfo(none, "stations", service)
           two   == WriteDynamicInfo(one, "prices", service)
           three == WriteDynamicInfo(two, "travel_time", service)
           four  == WriteDynamicInfo(three, "stopover_time", service)
<1>1. AllWritten(service) = four
  BY DEF AllWritten
<1>2. none.pages = pages /\ none.page_id = dynamic_page_id /\ none.rids = <<>>
  OBVIOUS
<1> HIDE DEF none
<1>3. ListWritten(one, none, service["stations"])
  BY <1>2, WriteDynamicInfoWrites
<1> HIDE DEF one
<1>4. ListWritten(two, one, service["prices"])
  <2>1. PagesTyped(one.pages) /\ CurrentDynamic(one.pages, one.page_id)
    BY <1>3 DEF ListWritten
  <2> QED BY <2>1, WriteDynamicInfoWrites
<1> HIDE DEF two
<1>5. ListWritten(three, two, service["travel_time"])
  <2>1. PagesTyped(two.pages) /\ CurrentDynamic(two.pages, two.page_id)
    BY <1>4 DEF ListWritten
  <2> QED BY <2>1, WriteDynamicInfoWrites
<1> HIDE DEF three
<1>6. ListWritten(four, three, service["stopover_time"])
  <2>1. PagesTyped(three.pages) /\ CurrentDynamic(three.pages, three.page_id)
    BY <1>5 DEF ListWritten
  <2> QED BY <2>1, WriteDynamicInfoWrites
<1> HIDE DEF four
<1>7. PICK r1 : one.rids = Append(<<>>, r1) /\ Holds(one.pages, r1, service["stations"])
  BY <1>2, <1>3 DEF ListWritten, Holds
<1>8. PICK r2 : two.rids = Append(one.rids, r2) /\ Holds(two.pages, r2, service["prices"])
  BY <1>4 DEF ListWritten, Holds
<1>9. PICK r3 : three.rids = Append(two.rids, r3) /\ Holds(three.pages, r3, service["travel_time"])
  BY <1>5 DEF ListWritten, Holds
<1>10. PICK r4 : four.rids = Append(three.rids, r4) /\ Holds(four.pages, r4, service["stopover_time"])
  BY <1>6 DEF ListWritten, Holds
<1>11. /\ Grows(one.pages, pages) /\ Grows(two.pages, one.pages)
       /\ Grows(three.pages, two.pages) /\ Grows(four.pages, three.pages)
       /\ OldRecords(one.pages, pages) /\ OldRecords(two.pages, one.pages)
       /\ OldRecords(three.pages, two.pages) /\ OldRecords(four.pages, three.pages)
  BY <1>2, <1>3, <1>4, <1>5, <1>6 DEF ListWritten
<1>12. Grows(four.pages, two.pages) /\ OldRecords(four.pages, two.pages)
  BY <1>11, GrowsTransitive, OldRecordsTransitive
<1>13. Grows(four.pages, one.pages) /\ OldRecords(four.pages, one.pages)
  BY <1>11, <1>12, GrowsTransitive, OldRecordsTransitive
<1>14. Grows(four.pages, pages) /\ OldRecords(four.pages, pages)
  BY <1>11, <1>13, GrowsTransitive, OldRecordsTransitive
<1>15. /\ Holds(four.pages, r1, service["stations"]) /\ Holds(four.pages, r2, service["prices"])
       /\ Holds(four.pages, r3, service["travel_time"])
  BY <1>7, <1>8, <1>9, <1>11, <1>12, <1>13, HoldsStay
<1>16. four.rids[1] = r1 /\ four.rids[2] = r2 /\ four.rids[3] = r3 /\ four.rids[4] = r4
  <2>1. four.rids = Append(Append(Append(Append(<<>>, r1), r2), r3), r4)
    BY <1>7, <1>8, <1>9, <1>10
  <2>2. r1 \in {r1, r2, r3, r4} /\ r2 \in {r1, r2, r3, r4} /\ r3 \in {r1, r2, r3, r4}
        /\ r4 \in {r1, r2, r3, r4}
    OBVIOUS
  <2> QED BY <2>1, <2>2, FourAppended
<1>17. ASSUME NEW n \in 1 .. 4 PROVE Holds(four.pages, four.rids[n], service[Lists[n]])
  <2>1. CASE n = 1
    BY <2>1, <1>15, <1>16 DEF Lists
  <2>2. CASE n = 2
    BY <2>2, <1>15, <1>16 DEF Lists
  <2>3. CASE n = 3
    BY <2>3, <1>15, <1>16 DEF Lists
  <2>4. CASE n = 4
    BY <2>4, <1>10, <1>16 DEF Lists
  <2> QED BY <2>1, <2>2, <2>3, <2>4
<1> QED BY <1>1, <1>6, <1>14, <1>17 DEF ListWritten

-----------------------------------------------------------------------------
(* Adding a record, and releasing one. *)

CurrentTuple(ps, id) == id = NoPage \/ (id \in DOMAIN ps /\ TuplePage(ps[id]))

LEMMA CurrentStays ==
  ASSUME NEW old, NEW new, Grows(new, old), NEW id
  PROVE  /\ CurrentTuple(old, id) => CurrentTuple(new, id)
         /\ CurrentDynamic(old, id) => CurrentDynamic(new, id)
BY DEF Grows, GrowsTuple, GrowsDynamic, CurrentTuple, CurrentDynamic

Added(ps, p, info) == [ps EXCEPT ![p].tuples = Append(@, info)]

PageWith(page, info) == [page EXCEPT !.tuples = Append(@, info)]

LEMMA PageAppended ==
  ASSUME NEW tuples, NEW page, page = [tuples |-> tuples], NEW info
  PROVE  PageWith(page, info) = [tuples |-> Append(tuples, info)]
BY DEF PageWith

LEMMA RecordIsAdded ==
  ASSUME NEW ps, PagesTyped(ps), ListsThere(ps), NEW p \in DOMAIN ps, TuplePage(ps[p]),
         NEW info \in Info, \A n \in 1 .. 4 : Points(ps, info.lists[n])
  PROVE  /\ PagesTyped(Added(ps, p, info)) /\ ListsThere(Added(ps, p, info))
         /\ Grows(Added(ps, p, info), ps)
         /\ HasRecord(Added(ps, p, info), <<p, Len(ps[p].tuples)>>)
         /\ Added(ps, p, info)[p].tuples[Len(ps[p].tuples) + 1] = info
<1> DEFINE old  == ps[p].tuples
           tups == Append(old, info)
           page == [tuples |-> tups]
           new  == Replaced(ps, p, page)
<1>1. old \in Seq(Info) /\ ps[p] = [tuples |-> old]
  BY DEF TuplePage
<1>2. Added(ps, p, info) = new
  <2>1. PageWith(ps[p], info) = page
    BY <1>1, PageAppended
  <2>2. Added(ps, p, info) = Replaced(ps, p, PageWith(ps[p], info))
    BY DEF Added, PageWith, Replaced
  <2> QED BY <2>1, <2>2
<1> HIDE DEF old
<1>3. /\ tups \in Seq(Info) /\ Len(old) \in Nat /\ Len(tups) = Len(old) + 1
      /\ DOMAIN old = 1 .. Len(old) /\ DOMAIN tups = 1 .. Len(old) + 1
      /\ tups[Len(old) + 1] = info
      /\ \A j \in 1 .. Len(old) : tups[j] = old[j]
  BY <1>1
<1> HIDE DEF tups
<1>4. TuplePage(page) /\ page.tuples = tups
  BY <1>3 DEF TuplePage
<1>5. GrowsTuple(page, ps[p])
  BY <1>1, <1>3, <1>4 DEF GrowsTuple
<1> HIDE DEF page
<1>6. /\ PagesTyped(new) /\ Grows(new, ps) /\ IsReplaced(new, ps, p, page)
  BY <1>5, ReplaceGrows
<1> HIDE DEF new
<1>7. p \in DOMAIN new /\ new[p] = page /\ p \in Nat
  BY <1>6 DEF IsReplaced
<1>8. HasRecord(new, <<p, Len(old)>>) /\ new[p].tuples[Len(old) + 1] = info
  <2> DEFINE rid == <<p, Len(old)>>
  <2>1. rid \in Nat \X Nat /\ rid[1] = p /\ rid[2] = Len(old)
    BY <1>3, <1>7
  <2> HIDE DEF rid
  <2>2. HasRecord(new, rid)
    BY <2>1, <1>3, <1>4, <1>7 DEF HasRecord
  <2> QED BY <2>2, <1>3, <1>4, <1>7 DEF rid
<1>9. ASSUME NEW q \in DOMAIN new, TuplePage(new[q]), NEW j \in DOMAIN new[q].tuples,
             NEW n \in 1 .. 4
      PROVE  Points(new, new[q].tuples[j].lists[n])
  <2>1. CASE q = p /\ j = Len(old) + 1
    BY <2>1, <1>3, <1>4, <1>6, <1>7, PointsStay
  <2>2. CASE ~(q = p /\ j = Len(old) + 1)
    <3>1. q \in DOMAIN ps /\ TuplePage(ps[q]) /\ j \in DOMAIN ps[q].tuples
          /\ new[q].tuples[j] = ps[q].tuples[j]
      <4>1. CASE q = p
        <5>1. j \in 1 .. Len(old)
          BY <4>1, <2>2, <1>3, <1>4, <1>7, <1>9
        <5> QED BY <5>1, <4>1, <1>3, <1>4, <1>7 DEF old
      <4>2. CASE q # p
        BY <4>2, <1>6, <1>9 DEF IsReplaced
      <4> QED BY <4>1, <4>2
    <3>2. Points(ps, ps[q].tuples[j].lists[n])
      BY <3>1 DEF ListsThere
    <3> QED BY <3>1, <3>2, <1>6, PointsStay
  <2> QED BY <2>1, <2>2
<1>10. ListsThere(new)
  BY <1>9 DEF ListsThere
<1> QED BY <1>2, <1>6, <1>8, <1>10 DEF old

Released(ps, rid) == [ps EXCEPT ![rid[1]].tuples[rid[2] + 1].released = TRUE]

\* Releasing a record touches nothing else.
OnlyReleases(new, old, rid) ==
  /\ PagesTyped(new) /\ ListsThere(new)
  /\ \A r \in Nat \X Nat :
       HasRecord(old, r) =>
         /\ HasRecord(new, r)
         /\ new[r[1]].tuples[r[2] + 1] =
              IF r = rid THEN [old[r[1]].tuples[r[2] + 1] EXCEPT !.released = TRUE]
              ELSE old[r[1]].tuples[r[2] + 1]
  /\ \A r \in Nat \X Nat :
       Points(old, r) => Points(new, r) /\ new[r[1]].at[r[2]] = old[r[1]].at[r[2]]
  /\ \A id : CurrentTuple(old, id) => CurrentTuple(new, id)
  /\ \A id : CurrentDynamic(old, id) => CurrentDynamic(new, id)

LEMMA ReleaseIsLocal ==
  ASSUME NEW ps, PagesTyped(ps), ListsThere(ps), NEW rid, HasRecord(ps, rid)
  PROVE  OnlyReleases(Released(ps, rid), ps, rid)
<1> DEFINE p == rid[1]
           i == rid[2] + 1
           old  == ps[p].tuples
           info == [old[i] EXCEPT !.released = TRUE]
           tups == [old EXCEPT ![i] = info]
           page == [tuples |-> tups]
           new  == [ps EXCEPT ![p] = page]
<1>1. /\ rid \in Nat \X Nat /\ p \in DOMAIN ps /\ old \in Seq(Info) /\ i \in DOMAIN old
      /\ ps[p] = [tuples |-> old]
  BY DEF HasRecord, TuplePage
<1>2. Released(ps, rid) = new
  <2>1. [ps[p] EXCEPT !.tuples[i].released = TRUE] = page
    BY <1>1
  <2> QED BY <2>1 DEF Released
<1>3. info \in Info /\ info.lists = old[i].lists /\ info.train_id = old[i].train_id
  <2>1. old[i] \in Info
    BY <1>1
  <2> QED BY <2>1 DEF Info
<1> HIDE DEF info, old
<1>4. /\ tups \in Seq(Info) /\ DOMAIN tups = DOMAIN old
      /\ \A j \in DOMAIN old : tups[j] = IF j = i THEN info ELSE old[j]
  BY <1>1, <1>3
<1> HIDE DEF tups
<1>5. TuplePage(page) /\ page.tuples = tups
  BY <1>4 DEF TuplePage
<1> HIDE DEF page
<1>6. IsReplaced(new, ps, p, page)
  BY <1>1, Replacing DEF PagesTyped, Replaced
<1> HIDE DEF new
<1>7. p \in DOMAIN new /\ new[p] = page /\ DOMAIN new = DOMAIN ps
      /\ \A q \in DOMAIN ps : q # p => new[q] = ps[q]
  BY <1>1, <1>6 DEF IsReplaced
<1>8. PagesTyped(new)
  BY <1>5, <1>6, <1>7 DEF IsReplaced, PagesTyped
<1>9. TuplePage(ps[p])
  BY DEF HasRecord
<1>10. ASSUME NEW q \in DOMAIN ps, DynamicPage(ps[q]) PROVE new[q] = ps[q]
  BY <1>7, <1>9, <1>10, PagesDiffer
<1>11. ASSUME NEW r \in Nat \X Nat, Points(ps, r)
       PROVE  Points(new, r) /\ new[r[1]].at[r[2]] = ps[r[1]].at[r[2]]
  BY <1>7, <1>10, <1>11 DEF Points
<1>12. ASSUME NEW id, CurrentDynamic(ps, id) PROVE CurrentDynamic(new, id)
  BY <1>7, <1>10, <1>12 DEF CurrentDynamic
<1>13. ASSUME NEW id, CurrentTuple(ps, id) PROVE CurrentTuple(new, id)
  BY <1>5, <1>7, <1>13 DEF CurrentTuple
<1>14. ASSUME NEW r \in Nat \X Nat, HasRecord(ps, r)
       PROVE  /\ HasRecord(new, r)
              /\ new[r[1]].tuples[r[2] + 1] =
                   IF r = rid THEN [ps[r[1]].tuples[r[2] + 1] EXCEPT !.released = TRUE]
                   ELSE ps[r[1]].tuples[r[2] + 1]
  <2>1. CASE r[1] = p
    <3>1. r[2] + 1 \in DOMAIN old
      BY <2>1, <1>14 DEF HasRecord, old
    <3>2. HasRecord(new, r)
      BY <2>1, <3>1, <1>14, <1>4, <1>5, <1>7 DEF HasRecord
    <3>3. new[r[1]].tuples[r[2] + 1] = IF r[2] + 1 = i THEN info ELSE old[r[2] + 1]
      BY <2>1, <3>1, <1>4, <1>5, <1>7
    <3>4. r = rid <=> r[2] + 1 = i
      BY <2>1, <1>1, <1>14
    <3> QED BY <2>1, <3>2, <3>3, <3>4 DEF info, old
  <2>2. CASE r[1] # p
    <3>1. HasRecord(new, r) /\ new[r[1]] = ps[r[1]] /\ r # rid
      BY <2>2, <1>7, <1>14 DEF HasRecord
    <3> QED BY <3>1
  <2> QED BY <2>1, <2>2
<1>15. ASSUME NEW q \in DOMAIN new, TuplePage(new[q]), NEW j \in DOMAIN new[q].tuples,
              NEW n \in 1 .. 4
       PROVE  Points(new, new[q].tuples[j].lists[n])
  <2>1. /\ TuplePage(ps[q]) /\ j \in DOMAIN ps[q].tuples
        /\ new[q].tuples[j].lists[n] = ps[q].tuples[j].lists[n]
    <3>1. CASE q = p
      <4>1. j \in DOMAIN old /\ tups[j].lists = old[j].lists
        BY <3>1, <1>3, <1>4, <1>5, <1>7, <1>15
      <4> QED BY <3>1, <4>1, <1>5, <1>7, <1>9 DEF old
    <3>2. CASE q # p
      BY <3>2, <1>7, <1>15
    <3> QED BY <3>1, <3>2
  <2>2. Points(ps, ps[q].tuples[j].lists[n])
    BY <2>1, <1>7 DEF ListsThere
  <2>3. ps[q].tuples[j].lists[n] \in Nat \X Nat
    BY <2>2 DEF Points
  <2> QED BY <2>1, <2>2, <2>3, <1>11
<1>16. ListsThere(new)
  BY <1>15 DEF ListsThere
<1> QED BY <1>2, <1>8, <1>11, <1>12, <1>13, <1>14, <1>16 DEF OnlyReleases

-----------------------------------------------------------------------------
(* The invariant. *)

RecordOn(ps, rid) == ps[rid[1]].tuples[rid[2] + 1]

\* The index leads to the record of the train it is asked for.
Indexed(ps, ix) ==
  \A id \in DOMAIN ix :
    /\ id \in TrainIds
    /\ HasRecord(ps, ix[id]) /\ RecordOn(ps, ix[id]).train_id = id

\* The pages new records and lists go to are there, now and after the next start.
PagesAtHand(ps) ==
  /\ CurrentTuple(ps, tuple_page_id) /\ CurrentDynamic(ps, dynamic_page_id)
  /\ CurrentTuple(ps, header.tuple) /\ CurrentDynamic(ps, header.dynamic)

CatalogInv ==
  /\ PagesTyped(pages) /\ ListsThere(pages)
  /\ Indexed(pages, index)
  /\ PagesAtHand(pages)

THEOREM CatalogInvInit == Init => CatalogInv
<1> SUFFICES ASSUME Init PROVE CatalogInv
  OBVIOUS
<1>1. pages = <<>> /\ index = <<>>
  BY DEF Init
<1>2. DOMAIN pages = {} /\ DOMAIN index = {} /\ IsSeq(pages)
  BY <1>1 DEF IsSeq
<1>3. PagesTyped(pages) /\ ListsThere(pages) /\ Indexed(pages, index)
  BY <1>2 DEF PagesTyped, ListsThere, Indexed
<1>4. PagesAtHand(pages)
  BY DEF Init, PagesAtHand, CurrentTuple, CurrentDynamic
<1> QED BY <1>3, <1>4 DEF CatalogInv

\* The record of a train entered just now.
IsEntered(ps, rid, id, service) ==
  /\ HasRecord(ps, rid)
  /\ RecordOn(ps, rid).train_id = id /\ RecordOn(ps, rid).released = FALSE
  /\ \A n \in 1 .. 4 : Holds(ps, RecordOn(ps, rid).lists[n], service[Lists[n]])

LEMMA AddTrainAdds ==
  ASSUME CatalogInv, NEW id \in TrainIds, NEW service \in Services, AddTrain(id, service)
  PROVE  /\ PagesTyped(pages') /\ ListsThere(pages') /\ Grows(pages', pages)
         /\ CurrentTuple(pages', tuple_page_id') /\ CurrentDynamic(pages', dynamic_page_id')
         /\ IsEntered(pages', index'[id], id, service)
<1> DEFINE store == AllWritten(service)
           info  == [train_id |-> id, released |-> FALSE, lists |-> [n \in 1 .. 4 |-> store.rids[n]]]
           fresh == tuple_page_id = NoPage \/ Full(store.pages[tuple_page_id])
           page  == IF fresh THEN Len(store.pages) + 1 ELSE tuple_page_id
           older == IF fresh THEN Append(store.pages, EmptyTuplePage) ELSE store.pages
           rid   == <<page, Len(older[page].tuples)>>
<1>1. /\ pages' = Added(older, page, info)
      /\ index' = [i \in DOMAIN index \cup {id} |-> IF i = id THEN rid ELSE index[i]]
      /\ tuple_page_id' = page /\ dynamic_page_id' = store.page_id
  BY DEF AddTrain, Added
<1>2. /\ PagesTyped(store.pages) /\ Grows(store.pages, pages) /\ OldRecords(store.pages, pages)
      /\ CurrentDynamic(store.pages, store.page_id)
      /\ \A n \in 1 .. 4 : Holds(store.pages, store.rids[n], service[Lists[n]])
  BY AllWrittenHolds DEF CatalogInv, PagesAtHand
<1> HIDE DEF store
<1>3. CurrentTuple(store.pages, tuple_page_id) /\ ListsThere(store.pages)
  BY <1>2, CurrentStays, ListsStay DEF CatalogInv, PagesAtHand
<1>4. /\ PagesTyped(older) /\ ListsThere(older) /\ Grows(older, store.pages)
      /\ page \in DOMAIN older /\ TuplePage(older[page])
  <2>1. CASE fresh
    <3>1. older = Append(store.pages, EmptyTuplePage) /\ page = Len(store.pages) + 1
      BY <2>1
    <3> HIDE DEF older, page
    <3>2. PagesTyped(older) /\ Grows(older, store.pages)
          /\ IsAppended(older, store.pages, EmptyTuplePage)
      BY <1>2, <3>1, AppendGrows, EmptyPages
    <3>3. page \in DOMAIN older /\ older[page] = EmptyTuplePage
      BY <3>1, <3>2 DEF IsAppended
    <3>4. OldRecords(older, store.pages)
      <4>1. DOMAIN EmptyTuplePage.tuples = {}
        BY DEF EmptyTuplePage
      <4>2. ASSUME NEW q \in DOMAIN older, q # page
            PROVE  q \in DOMAIN store.pages /\ older[q] = store.pages[q]
        BY <3>1, <3>2, <4>2 DEF IsAppended
      <4> QED BY <3>3, <4>1, <4>2 DEF OldRecords
    <3> QED BY <1>3, <3>2, <3>3, <3>4, EmptyPages, ListsStay
  <2>2. CASE ~fresh
    <3>1. older = store.pages /\ page = tuple_page_id /\ tuple_page_id # NoPage
      BY <2>2
    <3>2. Grows(store.pages, store.pages)
      BY DEF Grows, GrowsTuple, GrowsDynamic
    <3> QED BY <1>2, <1>3, <3>1, <3>2 DEF CurrentTuple
  <2> QED BY <2>1, <2>2
<1> HIDE DEF older, page, fresh
<1>5. \A n \in 1 .. 4 : Holds(older, info.lists[n], service[Lists[n]])
  BY <1>2, <1>4, HoldsStay
<1>6. info \in Info /\ info.train_id = id /\ info.released = FALSE
      /\ \A n \in 1 .. 4 : Points(older, info.lists[n])
  <2>1. \A n \in 1 .. 4 : store.rids[n] \in Nat \X Nat
    BY <1>2 DEF Holds, Points
  <2> QED BY <1>5, <2>1 DEF Info, Holds
<1> HIDE DEF info
<1>7. /\ PagesTyped(pages') /\ ListsThere(pages') /\ Grows(pages', older)
      /\ HasRecord(pages', rid) /\ pages'[page].tuples[Len(older[page].tuples) + 1] = info
  BY <1>1, <1>4, <1>6, RecordIsAdded
<1>8. index'[id] = rid /\ RecordOn(pages', rid) = info
  BY <1>1, <1>7 DEF RecordOn
<1>9. Grows(pages', store.pages) /\ Grows(pages', pages)
  BY <1>2, <1>4, <1>7, GrowsTransitive
<1>10. CurrentTuple(pages', tuple_page_id') /\ CurrentDynamic(pages', dynamic_page_id')
  BY <1>1, <1>2, <1>4, <1>7, <1>9, CurrentStays DEF CurrentTuple
<1>11. \A n \in 1 .. 4 : Holds(pages', info.lists[n], service[Lists[n]])
  BY <1>5, <1>7, HoldsStay
<1> QED BY <1>6, <1>7, <1>8, <1>9, <1>10, <1>11 DEF IsEntered

\* Trains of different ids have different records.
LEMMA RecordsDiffer ==
  ASSUME CatalogInv, NEW i \in DOMAIN index, NEW j \in DOMAIN index, index[i] = index[j]
  PROVE  i = j
BY DEF CatalogInv, Indexed

LEMMA ReleaseReleases ==
  ASSUME CatalogInv, NEW id \in TrainIds, ReleaseTrain(id)
  PROVE  id \in DOMAIN index /\ OnlyReleases(pages', pages, index[id])
<1>1. pages' = Released(pages, index[id]) /\ id \in DOMAIN index
  BY DEF ReleaseTrain, Released
<1> QED BY <1>1, ReleaseIsLocal DEF CatalogInv, Indexed

KeepsRecord(new, old, rid, r) ==
  /\ HasRecord(new, r)
  /\ RecordOn(new, r).train_id = RecordOn(old, r).train_id
  /\ RecordOn(new, r).lists = RecordOn(old, r).lists
  /\ RecordOn(new, r).released = IF r = rid THEN TRUE ELSE RecordOn(old, r).released

LEMMA ReleasedRecord ==
  ASSUME NEW new, NEW old, NEW rid, OnlyReleases(new, old, rid), NEW r, HasRecord(old, r)
  PROVE  KeepsRecord(new, old, rid, r)
<1> DEFINE was == RecordOn(old, r)
           now == RecordOn(new, r)
<1>1. was \in Info /\ r \in Nat \X Nat
  BY DEF HasRecord, TuplePage, RecordOn
<1>2. now = (IF r = rid THEN [was EXCEPT !.released = TRUE] ELSE was) /\ HasRecord(new, r)
  BY <1>1 DEF OnlyReleases, RecordOn
<1> HIDE DEF was, now
<1>3. now.train_id = was.train_id /\ now.lists = was.lists
      /\ now.released = IF r = rid THEN TRUE ELSE was.released
  BY <1>1, <1>2 DEF Info
<1> QED BY <1>2, <1>3 DEF was, now, KeepsRecord

THEOREM CatalogInvNext == CatalogInv /\ [Next]_catalogVars => CatalogInv'
<1> SUFFICES ASSUME CatalogInv, [Next]_catalogVars PROVE CatalogInv'
  OBVIOUS
<1> USE DEF CatalogInv
<1>1. ASSUME NEW id \in TrainIds, NEW service \in Services, AddTrain(id, service)
      PROVE  CatalogInv'
  <2>1. /\ PagesTyped(pages') /\ ListsThere(pages') /\ Grows(pages', pages)
        /\ CurrentTuple(pages', tuple_page_id') /\ CurrentDynamic(pages', dynamic_page_id')
        /\ IsEntered(pages', index'[id], id, service)
    BY <1>1, AddTrainAdds
  <2>2. /\ DOMAIN index' = DOMAIN index \cup {id}
        /\ \A i \in DOMAIN index : index'[i] = index[i]
        /\ header' = header
    BY <1>1 DEF AddTrain
  <2>3. PagesAtHand(pages)'
    BY <2>1, <2>2, CurrentStays DEF PagesAtHand
  <2>4. Indexed(pages', index')
    <3>1. ASSUME NEW i \in DOMAIN index
          PROVE  HasRecord(pages', index'[i]) /\ RecordOn(pages', index'[i]).train_id = i
      <4>1. HasRecord(pages, index[i]) /\ RecordOn(pages, index[i]).train_id = i
        BY DEF Indexed
      <4>2. HasRecord(pages', index[i]) /\ RecordOn(pages', index[i]) = RecordOn(pages, index[i])
        BY <2>1, <4>1, RecordsStay DEF RecordOn
      <4> QED BY <2>2, <4>1, <4>2
    <3> QED BY <2>1, <2>2, <3>1 DEF Indexed, IsEntered
  <2> QED BY <2>1, <2>3, <2>4
<1>2. ASSUME NEW id \in TrainIds, DeleteTrain(id) PROVE CatalogInv'
  <2>1. /\ DOMAIN index' \subseteq DOMAIN index
        /\ \A i \in DOMAIN index' : index'[i] = index[i]
        /\ pages' = pages
    BY <1>2 DEF DeleteTrain
  <2>2. Indexed(pages', index')
    BY <2>1 DEF Indexed
  <2>3. PagesAtHand(pages)'
    BY <1>2 DEF DeleteTrain, PagesAtHand
  <2> QED BY <2>1, <2>2, <2>3
<1>3. ASSUME NEW id \in TrainIds, ReleaseTrain(id) PROVE CatalogInv'
  <2>1. OnlyReleases(pages', pages, index[id])
    BY <1>3, ReleaseReleases
  <2>2. index' = index /\ tuple_page_id' = tuple_page_id /\ dynamic_page_id' = dynamic_page_id
        /\ header' = header
    BY <1>3 DEF ReleaseTrain
  <2>3. Indexed(pages', index')
    <3>1. ASSUME NEW i \in DOMAIN index
          PROVE  HasRecord(pages', index[i]) /\ RecordOn(pages', index[i]).train_id = i
      <4>1. HasRecord(pages, index[i]) /\ RecordOn(pages, index[i]).train_id = i
        BY DEF Indexed
      <4>2. KeepsRecord(pages', pages, index[id], index[i])
        BY <2>1, <4>1, ReleasedRecord
      <4> QED BY <4>1, <4>2 DEF KeepsRecord
    <3> QED BY <2>2, <3>1 DEF Indexed
  <2>4. PagesAtHand(pages)'
    BY <2>1, <2>2 DEF OnlyReleases, PagesAtHand
  <2> QED BY <2>1, <2>3, <2>4 DEF OnlyReleases
<1>4. CASE Exit
  <2>1. PagesAtHand(pages)'
    BY <1>4 DEF Exit, PagesAtHand
  <2> QED BY <1>4, <2>1 DEF Exit
<1>5. CASE Start
  <2>1. PagesAtHand(pages)'
    BY <1>5 DEF Start, PagesAtHand
  <2> QED BY <1>5, <2>1 DEF Start
<1>6. CASE UNCHANGED catalogVars
  <2>1. PagesAtHand(pages)'
    BY <1>6 DEF catalogVars, PagesAtHand
  <2> QED BY <1>6, <2>1 DEF catalogVars
<1> QED BY <1>1, <1>2, <1>3, <1>4, <1>5, <1>6 DEF Next

THEOREM CatalogInvariant == Spec => []CatalogInv
<1> QED BY CatalogInvInit, CatalogInvNext, PTL DEF Spec

-----------------------------------------------------------------------------
(* What a customer sees is Timetable. *)

Number(list) == CHOOSE n \in 1 .. 4 : Lists[n] = list

LEMMA ListNumbers ==
  ASSUME NEW list \in Range(Lists)
  PROVE  Number(list) \in 1 .. 4 /\ Lists[Number(list)] = list
<1>1. \E n \in 1 .. 4 : Lists[n] = list
  BY DEF Range, Lists
<1> QED BY <1>1 DEF Number

\* Entry, on given pages.
ListOn(ps, rid, list) ==
  ps[RecordOn(ps, rid).lists[Number(list)][1]].at[RecordOn(ps, rid).lists[Number(list)][2]]

EntryOn(ps, rid) ==
  [service  |-> [list \in Range(Lists) |-> ListOn(ps, rid, list)],
   released |-> RecordOn(ps, rid).released]

TrainsOn(ps, ix) == [id \in DOMAIN ix |-> EntryOn(ps, ix[id])]

LEMMA EntryIsEntryOn == \A rid : Entry(rid) = EntryOn(pages, rid)
BY DEF Entry, EntryOn, ListOn, RecordOn, Number, At, FetchDynamicInfo

BoardTrains == [id \in DOMAIN index |-> Entry(index[id])]

LEMMA TrainsAreTrainsOn == BoardTrains = TrainsOn(pages, index) /\ BoardTrains' = TrainsOn(pages', index')
<1>1. BoardTrains = TrainsOn(pages, index)
  BY EntryIsEntryOn DEF BoardTrains, TrainsOn
<1>2. BoardTrains' = TrainsOn(pages', index')
  BY DEF BoardTrains, TrainsOn, Entry, EntryOn, ListOn, RecordOn, Number, At, FetchDynamicInfo
<1> QED BY <1>1, <1>2

\* The lists of a record the index leads to are there.
LEMMA ListsOfRecords ==
  ASSUME NEW ps, ListsThere(ps), NEW rid, HasRecord(ps, rid), NEW n \in 1 .. 4
  PROVE  Points(ps, RecordOn(ps, rid).lists[n])
BY DEF ListsThere, HasRecord, RecordOn

\* On pages that grow an entry stays as it is.
LEMMA EntriesStay ==
  ASSUME NEW old, NEW new, Grows(new, old), ListsThere(old), NEW rid, HasRecord(old, rid)
  PROVE  EntryOn(new, rid) = EntryOn(old, rid)
<1>1. RecordOn(new, rid) = RecordOn(old, rid)
  BY RecordsStay DEF RecordOn
<1>2. ASSUME NEW list \in Range(Lists) PROVE ListOn(new, rid, list) = ListOn(old, rid, list)
  <2>1. Points(old, RecordOn(old, rid).lists[Number(list)])
    BY ListNumbers, ListsOfRecords
  <2> DEFINE rid1 == RecordOn(old, rid).lists[Number(list)]
  <2>0. Points(old, rid1)
    BY <2>1
  <2> HIDE DEF rid1
  <2>2. new[rid1[1]].at[rid1[2]] = old[rid1[1]].at[rid1[2]]
    BY <2>0, PointsStay
  <2> QED BY <1>1, <2>2 DEF ListOn, rid1
<1> QED BY <1>1, <1>2 DEF EntryOn

EntryAfter(old, rid, r) ==
  IF r = rid THEN [EntryOn(old, r) EXCEPT !.released = TRUE] ELSE EntryOn(old, r)

LEMMA EntriesKept ==
  ASSUME NEW old, NEW new, NEW rid, OnlyReleases(new, old, rid), ListsThere(old),
         NEW r, HasRecord(old, r)
  PROVE  EntryOn(new, r) = EntryAfter(old, rid, r)
<1>1. /\ RecordOn(new, r).lists = RecordOn(old, r).lists
      /\ RecordOn(new, r).released = IF r = rid THEN TRUE ELSE RecordOn(old, r).released
  <2>1. KeepsRecord(new, old, rid, r)
    BY ReleasedRecord
  <2> QED BY <2>1 DEF KeepsRecord
<1>2. ASSUME NEW list \in Range(Lists) PROVE ListOn(new, r, list) = ListOn(old, r, list)
  <2>1. Points(old, RecordOn(old, r).lists[Number(list)])
    BY ListNumbers, ListsOfRecords
  <2>2. RecordOn(old, r).lists[Number(list)] \in Nat \X Nat
    BY <2>1 DEF Points
  <2> QED BY <1>1, <2>1, <2>2 DEF ListOn, OnlyReleases
<1>3. [list \in Range(Lists) |-> ListOn(new, r, list)] = [list \in Range(Lists) |-> ListOn(old, r, list)]
  BY <1>2
<1> QED BY <1>1, <1>3 DEF EntryOn, EntryAfter

\* A train just entered has the service it was entered with.
LEMMA EnteredEntry ==
  ASSUME NEW ps, NEW rid, NEW id, NEW service \in Services, IsEntered(ps, rid, id, service)
  PROVE  EntryOn(ps, rid) = [service |-> service, released |-> FALSE]
<1>1. ASSUME NEW list \in Range(Lists) PROVE ListOn(ps, rid, list) = service[list]
  BY ListNumbers DEF IsEntered, Holds, ListOn
<1>2. service = [list \in Range(Lists) |-> service[list]]
  BY CatalogAssumption
<1>3. [list \in Range(Lists) |-> ListOn(ps, rid, list)] = service
  <2>1. [list \in Range(Lists) |-> ListOn(ps, rid, list)] = [list \in Range(Lists) |-> service[list]]
    BY <1>1
  <2> QED BY <1>2, <2>1
<1> QED BY <1>3 DEF EntryOn, IsEntered

LEMMA AddImplements ==
  ASSUME CatalogInv, NEW id \in TrainIds, NEW service \in Services, AddTrain(id, service)
  PROVE  Board!Add(id, service)
<1> DEFINE was == BoardTrains
           now == BoardTrains'
<1>1. was = TrainsOn(pages, index) /\ now = TrainsOn(pages', index')
  BY TrainsAreTrainsOn
<1>2. /\ ListsThere(pages) /\ Grows(pages', pages) /\ IsEntered(pages', index'[id], id, service)
      /\ Indexed(pages, index)
  BY AddTrainAdds DEF CatalogInv
<1>3. /\ id \notin DOMAIN index
      /\ DOMAIN index' = DOMAIN index \cup {id}
      /\ \A i \in DOMAIN index : index'[i] = index[i]
  BY DEF AddTrain
<1>4. ASSUME NEW i \in DOMAIN index PROVE EntryOn(pages', index'[i]) = EntryOn(pages, index[i])
  BY <1>2, <1>3, EntriesStay DEF Indexed
<1>5. EntryOn(pages', index'[id]) = [service |-> service, released |-> FALSE]
  BY <1>2, EnteredEntry
<1>6. DOMAIN was = DOMAIN index /\ \A i \in DOMAIN index : was[i] = EntryOn(pages, index[i])
  BY <1>1 DEF TrainsOn
<1>7. now = [i \in DOMAIN was \cup {id} |->
               IF i = id THEN [service |-> service, released |-> FALSE] ELSE was[i]]
  <2>1. now = [i \in DOMAIN index' |-> EntryOn(pages', index'[i])]
    BY <1>1 DEF TrainsOn
  <2>2. ASSUME NEW i \in DOMAIN index'
        PROVE  EntryOn(pages', index'[i]) =
                 IF i = id THEN [service |-> service, released |-> FALSE] ELSE was[i]
    BY <1>3, <1>4, <1>5, <1>6
  <2> HIDE DEF was, now
  <2> QED BY <2>1, <2>2, <1>3, <1>6
<1> QED BY <1>3, <1>6, <1>7 DEF Board!Add, Board!Entered, BoardTrains

LEMMA WithdrawImplements ==
  ASSUME CatalogInv, NEW id \in TrainIds, DeleteTrain(id)
  PROVE  Board!Withdraw(id)
<1> DEFINE was == BoardTrains
           now == BoardTrains'
<1>1. was = TrainsOn(pages, index) /\ now = TrainsOn(pages', index')
  BY TrainsAreTrainsOn
<1>2. /\ pages' = pages /\ id \in DOMAIN index
      /\ index' = [i \in DOMAIN index \ {id} |-> index[i]]
      /\ ~RecordOn(pages, index[id]).released
  BY DEF DeleteTrain, At, RecordOn
<1>3. /\ DOMAIN was = DOMAIN index
      /\ \A i \in DOMAIN index : was[i] = EntryOn(pages, index[i])
  BY <1>1 DEF TrainsOn
<1>4. now = [i \in DOMAIN was \ {id} |-> was[i]]
  <2>1. now = [i \in DOMAIN index' |-> EntryOn(pages', index'[i])]
    BY <1>1 DEF TrainsOn
  <2>2. /\ DOMAIN index' = DOMAIN was \ {id}
        /\ \A i \in DOMAIN index' : EntryOn(pages', index'[i]) = was[i]
    BY <1>2, <1>3
  <2> HIDE DEF was, now
  <2> QED BY <2>1, <2>2
<1>5. ~was[id].released
  BY <1>2, <1>3 DEF EntryOn
<1> QED BY <1>2, <1>3, <1>4, <1>5 DEF Board!Withdraw, Board!Entered, BoardTrains

LEMMA ReleaseImplements ==
  ASSUME CatalogInv, NEW id \in TrainIds, ReleaseTrain(id)
  PROVE  Board!Release(id)
<1> DEFINE was == BoardTrains
           now == BoardTrains'
<1>1. was = TrainsOn(pages, index) /\ now = TrainsOn(pages', index')
  BY TrainsAreTrainsOn
<1>2. index' = index /\ id \in DOMAIN index /\ ~RecordOn(pages, index[id]).released
  BY DEF ReleaseTrain, At, RecordOn
<1>3. OnlyReleases(pages', pages, index[id]) /\ ListsThere(pages)
  BY ReleaseReleases DEF CatalogInv
<1>4. ASSUME NEW i \in DOMAIN index
      PROVE  EntryOn(pages', index[i]) =
               IF i = id THEN [EntryOn(pages, index[i]) EXCEPT !.released = TRUE]
               ELSE EntryOn(pages, index[i])
  <2>1. HasRecord(pages, index[i])
    BY DEF CatalogInv, Indexed
  <2>2. EntryOn(pages', index[i]) = EntryAfter(pages, index[id], index[i])
    BY <1>3, <2>1, EntriesKept, Zenon
  <2> QED BY <1>2, <2>2, RecordsDiffer DEF EntryAfter
<1>5. /\ DOMAIN was = DOMAIN index
      /\ \A i \in DOMAIN index : was[i] = EntryOn(pages, index[i])
      /\ was = [i \in DOMAIN index |-> was[i]]
  BY <1>1 DEF TrainsOn
<1>6. now = [was EXCEPT ![id].released = TRUE]
  <2>1. now = [i \in DOMAIN index |-> EntryOn(pages', index[i])]
    BY <1>1, <1>2 DEF TrainsOn
  <2> HIDE DEF was, now
  <2>2. ASSUME NEW i \in DOMAIN index
        PROVE  EntryOn(pages', index[i]) = [was EXCEPT ![id].released = TRUE][i]
    BY <1>4, <1>5
  <2> QED BY <2>1, <2>2, <1>5
<1>7. ~was[id].released
  BY <1>2, <1>5 DEF EntryOn
<1> QED BY <1>2, <1>5, <1>6, <1>7 DEF Board!Release, Board!Entered, BoardTrains

LEMMA StepImplements == CatalogInv /\ [Next]_catalogVars => [Board!Next]_BoardTrains
<1> SUFFICES ASSUME CatalogInv, [Next]_catalogVars PROVE Board!Next \/ UNCHANGED BoardTrains
  OBVIOUS
<1>1. ASSUME NEW id \in TrainIds, NEW service \in Services, AddTrain(id, service)
      PROVE  Board!Next
  BY <1>1, AddImplements DEF Board!Next
<1>2. ASSUME NEW id \in TrainIds, DeleteTrain(id) PROVE Board!Next
  BY <1>2, WithdrawImplements DEF Board!Next
<1>3. ASSUME NEW id \in TrainIds, ReleaseTrain(id) PROVE Board!Next
  BY <1>3, ReleaseImplements DEF Board!Next
<1>4. ASSUME pages' = pages, index' = index PROVE UNCHANGED BoardTrains
  BY <1>4, TrainsAreTrainsOn
<1>5. CASE Exit
  BY <1>4, <1>5 DEF Exit
<1>6. CASE Start
  BY <1>4, <1>6 DEF Start
<1>7. CASE UNCHANGED catalogVars
  BY <1>4, <1>7 DEF catalogVars
<1> QED BY <1>1, <1>2, <1>3, <1>5, <1>6, <1>7 DEF Next

LEMMA InitImplements == Init => Board!Init
<1> SUFFICES ASSUME Init PROVE BoardTrains = [id \in {} |-> 0]
  BY DEF Board!Init, BoardTrains
<1>1. DOMAIN index = {}
  BY DEF Init
<1> QED BY <1>1 DEF BoardTrains

\* Records, lists, index and restarts carry out Timetable, for any trains, services and
\* page sizes: a train keeps the lists it was entered with, and a released one stays as it
\* is (TrainSystem::AddTrain, DeleteTrain, ReleaseTrain).
THEOREM CatalogImplementsTimetable == Spec => ImplementsTimetable
<1>1. Init => Board!Init
  BY InitImplements
<1>2. CatalogInv /\ [Next]_catalogVars => [Board!Next]_BoardTrains
  BY StepImplements
<1> QED
  BY <1>1, <1>2, CatalogInvariant, PTL DEF Spec, ImplementsTimetable, Board!Spec, BoardTrains

-----------------------------------------------------------------------------
(***************************************************************************)
(* What a ticket query answers.  First functions defined by recursion on a *)
(* measure, and folds over sequences.                                      *)
(***************************************************************************)

\* Where G only looks at what measures less, functions agree on it.
LooksBelow(D, X, m, G) ==
  /\ G \in [D \X [D -> X] -> X]
  /\ \A x \in D, f, g \in [D -> X] :
       (\A y \in D : m[y] < m[x] => f[y] = g[y]) => G[<<x, f>>] = G[<<x, g>>]

\* f is what G makes of it, for all that measures less than n.
SolvedBelow(D, m, G, f, n) == \A x \in D : m[x] < n => f[x] = G[<<x, f>>]

Solvable(D, X, G) == \E f \in [D -> X] : \A x \in D : f[x] = G[<<x, f>>]

LEMMA SolvedFurther ==
  ASSUME NEW D, NEW X, NEW m, \A x \in D : m[x] \in Nat, NEW G, LooksBelow(D, X, m, G),
         NEW n \in Nat, NEW f \in [D -> X], SolvedBelow(D, m, G, f, n)
  PROVE  \E g \in [D -> X] : SolvedBelow(D, m, G, g, n + 1)
<1> DEFINE g == [x \in D |-> IF m[x] < n THEN f[x] ELSE G[<<x, f>>]]
<1>1. g \in [D -> X]
  BY DEF LooksBelow
<1>2. \A x \in D : g[x] = IF m[x] < n THEN f[x] ELSE G[<<x, f>>]
  OBVIOUS
<1> HIDE DEF g
<1>3. ASSUME NEW x \in D, m[x] < n + 1
      PROVE  g[x] = G[<<x, g>>]
  <2>1. ASSUME NEW y \in D, m[y] < m[x] PROVE f[y] = g[y]
    <3>1. m[y] \in Nat /\ m[x] \in Nat /\ m[y] < n
      BY <1>3, <2>1
    <3> QED BY <1>2, <3>1
  <2>2. G[<<x, f>>] = G[<<x, g>>]
    BY <1>1, <2>1 DEF LooksBelow
  <2> QED BY <1>2, <2>2 DEF SolvedBelow
<1> QED BY <1>1, <1>3 DEF SolvedBelow

LEMMA SolvedUpTo ==
  ASSUME NEW D, NEW X, X # {}, NEW m, \A x \in D : m[x] \in Nat,
         NEW G, LooksBelow(D, X, m, G)
  PROVE  \A n \in Nat : \E f \in [D -> X] : SolvedBelow(D, m, G, f, n)
<1> DEFINE S == {n \in Nat : \E f \in [D -> X] : SolvedBelow(D, m, G, f, n)}
<1>1. ASSUME NEW n \in Nat, \A k \in Nat : k < n => k \in S PROVE n \in S
  <2>1. CASE n = 0
    <3>1. PICK x0 \in X : TRUE
      OBVIOUS
    <3>2. [x \in D |-> x0] \in [D -> X]
      OBVIOUS
    <3>3. \A x \in D : ~(m[x] < 0)
      OBVIOUS
    <3> QED BY <2>1, <3>2, <3>3 DEF SolvedBelow
  <2>2. CASE n # 0
    <3>1. n - 1 \in Nat /\ n - 1 < n /\ (n - 1) + 1 = n
      BY <2>2
    <3>2. PICK f \in [D -> X] : SolvedBelow(D, m, G, f, n - 1)
      BY <1>1, <3>1
    <3> QED BY <3>1, <3>2, SolvedFurther
  <2> QED BY <2>1, <2>2
<1>2. S \in SUBSET Nat
  OBVIOUS
<1>3. \A n \in Nat : n \in S
  <2> HIDE DEF S
  <2> QED BY <1>1, <1>2, CourseOfValues
<1> QED BY <1>3

\* There is one solution below a number.
LEMMA SolutionsAgree ==
  ASSUME NEW D, NEW X, NEW m, \A x \in D : m[x] \in Nat, NEW G, LooksBelow(D, X, m, G),
         NEW n \in Nat, NEW f \in [D -> X], NEW g \in [D -> X],
         SolvedBelow(D, m, G, f, n), SolvedBelow(D, m, G, g, n),
         NEW y \in D, m[y] < n
  PROVE  f[y] = g[y]
<1> DEFINE S == {k \in Nat : \A x \in D : m[x] = k /\ k < n => f[x] = g[x]}
<1>1. ASSUME NEW k \in Nat, \A j \in Nat : j < k => j \in S PROVE k \in S
  <2>1. SUFFICES ASSUME NEW x \in D, m[x] = k, k < n PROVE f[x] = g[x]
    OBVIOUS
  <2>2. ASSUME NEW z \in D, m[z] < m[x] PROVE f[z] = g[z]
    <3>1. m[z] \in Nat /\ m[z] < k /\ m[z] < n
      BY <2>1, <2>2
    <3> QED BY <1>1, <3>1
  <2>3. G[<<x, f>>] = G[<<x, g>>]
    BY <2>2 DEF LooksBelow
  <2>4. m[x] < n
    BY <2>1
  <2> QED BY <2>3, <2>4 DEF SolvedBelow
<1>2. S \in SUBSET Nat
  OBVIOUS
<1>3. \A k \in Nat : k \in S
  <2> HIDE DEF S
  <2> QED BY <1>1, <1>2, CourseOfValues
<1> QED BY <1>3

\* A recursive equation whose right side only looks below has a solution.
LEMMA Recursion ==
  ASSUME NEW D, NEW X, X # {}, NEW m, \A x \in D : m[x] \in Nat,
         NEW G, LooksBelow(D, X, m, G)
  PROVE  Solvable(D, X, G)
<1> DEFINE W == [n \in Nat |-> CHOOSE f \in [D -> X] : SolvedBelow(D, m, G, f, n)]
<1>1. \A n \in Nat : W[n] \in [D -> X] /\ SolvedBelow(D, m, G, W[n], n)
  BY SolvedUpTo
<1> HIDE DEF W
<1> DEFINE F == [x \in D |-> W[m[x] + 1][x]]
<1>2. F \in [D -> X]
  BY <1>1
<1>3. \A x \in D : F[x] = W[m[x] + 1][x]
  OBVIOUS
<1> HIDE DEF F
<1>4. ASSUME NEW x \in D PROVE F[x] = G[<<x, F>>]
  <2>1. PICK n \in Nat : n = m[x] + 1
    OBVIOUS
  <2>2. W[n] \in [D -> X] /\ SolvedBelow(D, m, G, W[n], n)
    BY <1>1
  <2>3. W[n][x] = G[<<x, W[n]>>]
    BY <2>1, <2>2 DEF SolvedBelow
  <2>4. ASSUME NEW y \in D, m[y] < m[x] PROVE W[n][y] = F[y]
    <3>1. PICK k \in Nat : k = m[y] + 1
      OBVIOUS
    <3>2. k <= n /\ m[y] < k
      BY <2>1, <2>4, <3>1
    <3>3. W[k] \in [D -> X] /\ SolvedBelow(D, m, G, W[k], k)
      BY <1>1
    <3>4. SolvedBelow(D, m, G, W[n], k)
      <4>1. \A z \in D : m[z] < k => m[z] < n
        BY <3>2
      <4> QED BY <2>2, <4>1 DEF SolvedBelow
    <3>5. W[n][y] = W[k][y]
      <4>1. PICK f \in [D -> X] : f = W[n]
        BY <2>2
      <4>2. PICK g \in [D -> X] : g = W[k]
        BY <3>3
      <4>3. SolvedBelow(D, m, G, f, k) /\ SolvedBelow(D, m, G, g, k)
        BY <3>3, <3>4, <4>1, <4>2
      <4>4. k \in Nat /\ m[y] < k
        BY <3>2
      <4>5. f[y] = g[y]
        BY <4>3, <4>4, SolutionsAgree
      <4> QED BY <4>1, <4>2, <4>5
    <3> QED BY <1>3, <3>1, <3>5
  <2>5. G[<<x, W[n]>>] = G[<<x, F>>]
    BY <1>2, <2>2, <2>4 DEF LooksBelow
  <2> QED BY <1>3, <2>1, <2>3, <2>5
<1> QED BY <1>2, <1>4 DEF Solvable

LEMMA MaxOfPrefix ==
  ASSUME NEW n \in Nat \ {0}
  PROVE  Max(1 .. n) = n /\ (1 .. n) \ {n} = 1 .. n - 1 /\ 1 .. n # {}
BY DEF Max

LEMMA MaxOfIndices ==
  ASSUME NEW n \in Nat, NEW s \in SUBSET (1 .. n), s # {}
  PROVE  Max(s) \in s /\ \A x \in s : x <= Max(s)
<1> DEFINE U == {k \in Nat : \A x \in s : x <= k}
<1> DEFINE S == {k \in Nat : k \notin U}
<1>2. n \in U
  OBVIOUS
<1>3. \E k \in U : \A j \in Nat : j < k => j \notin U
  <2>1. SUFFICES ASSUME \A k \in U : \E j \in Nat : j < k /\ j \in U PROVE FALSE
    OBVIOUS
  <2>2. ASSUME NEW k \in Nat, \A j \in Nat : j < k => j \in S PROVE k \in S
    BY <2>1, <2>2
  <2>3. S \in SUBSET Nat
    OBVIOUS
  <2>4. \A k \in Nat : k \in S
    <3> HIDE DEF S
    <3> QED BY <2>2, <2>3, CourseOfValues
  <2> QED BY <1>2, <2>4
<1>4. PICK k \in U : \A j \in Nat : j < k => j \notin U
  BY <1>3
<1>5. k \in s
  <2>1. SUFFICES ASSUME k \notin s PROVE FALSE
    OBVIOUS
  <2>2. PICK x \in s : TRUE
    OBVIOUS
  <2>3. x \in Nat \ {0} /\ x <= k /\ k \in Nat
    OBVIOUS
  <2>4. k - 1 \in Nat /\ k - 1 < k
    BY <2>3
  <2>5. \A y \in s : y <= k - 1
    BY <2>1, <2>3
  <2> QED BY <1>4, <2>4, <2>5
<1>6. \A y \in s : k >= y
  OBVIOUS
<1> QED BY <1>5, <1>6 DEF Max

LEMMA MinOfSome ==
  ASSUME NEW S \in SUBSET Nat, S # {}
  PROVE  Min(S) \in S /\ \A x \in S : Min(S) <= x
<1> DEFINE T == {n \in Nat : n \notin S}
<1>1. T \in SUBSET Nat /\ ~(\A n \in Nat : n \in T)
  OBVIOUS
<1> HIDE DEF T
<1>2. PICK n \in Nat : n \notin T /\ \A j \in Nat : j < n => j \in T
  BY <1>1, CourseOfValues
<1>3. n \in S /\ \A x \in S : n <= x
  BY <1>2 DEF T
<1> QED BY <1>3 DEF Min

LEMMA Counting ==
  ASSUME NEW S \in SUBSET Nat, 0 \in S, \A n \in S : n + 1 \in S
  PROVE  \A n \in Nat : n \in S
<1>1. ASSUME NEW n \in Nat, \A j \in Nat : j < n => j \in S PROVE n \in S
  <2>1. CASE n = 0
    BY <2>1
  <2>2. CASE n # 0
    <3>1. n - 1 \in Nat /\ n - 1 < n /\ (n - 1) + 1 = n
      BY <2>2
    <3>2. n - 1 \in S
      BY <1>1, <3>1
    <3>3. (n - 1) + 1 \in S
      BY <3>2
    <3> QED BY <3>1, <3>3
  <2> QED BY <2>1, <2>2
<1> QED BY <1>1, CourseOfValues

\* What FoldLeft runs through: the sets of the first elements, the last one first.
FoldStep(base, seq, op, f, s) ==
  IF s = {} THEN base ELSE op[<<seq[Max(s)], f[s \ {Max(s)}]>>]

Foldable(base, seq, op, A) ==
  \E f \in [SUBSET DOMAIN seq -> A] :
    \A s \in SUBSET DOMAIN seq : f[s] = FoldStep(base, seq, op, f, s)

LEMMA FoldExists ==
  ASSUME NEW E, NEW seq \in Seq(E), NEW A, NEW base \in A, NEW op \in [E \X A -> A]
  PROVE  Foldable(base, seq, op, A)
<1> DEFINE D == SUBSET DOMAIN seq
           m == [s \in D |-> IF s = {} THEN 0 ELSE Max(s)]
           G == [p \in D \X [D -> A] |-> FoldStep(base, seq, op, p[2], p[1])]
<1>1. Len(seq) \in Nat /\ DOMAIN seq = 1 .. Len(seq)
  OBVIOUS
<1>2. ASSUME NEW s \in D, s # {}
      PROVE  Max(s) \in s /\ Max(s) \in Nat \ {0} /\ (s \ {Max(s)}) \in D
             /\ \A x \in s : x <= Max(s)
  <2>1. s \in SUBSET (1 .. Len(seq))
    BY <1>1
  <2>2. Max(s) \in s /\ \A x \in s : x <= Max(s)
    BY <1>1, <1>2, <2>1, MaxOfIndices
  <2> QED BY <2>1, <2>2, <1>1
<1>3. \A s \in D : m[s] = IF s = {} THEN 0 ELSE Max(s)
  OBVIOUS
<1>4. \A s \in D : m[s] \in Nat
  BY <1>2, <1>3
<1>5. \A s \in D, f \in [D -> A] : G[<<s, f>>] = FoldStep(base, seq, op, f, s)
  OBVIOUS
<1>6. ASSUME NEW s \in D, NEW f \in [D -> A] PROVE FoldStep(base, seq, op, f, s) \in A
  <2>1. CASE s = {}
    BY <2>1 DEF FoldStep
  <2>2. CASE s # {}
    <3>1. seq[Max(s)] \in E /\ f[s \ {Max(s)}] \in A
      BY <1>2, <2>2
    <3>2. <<seq[Max(s)], f[s \ {Max(s)}]>> \in E \X A
      BY <3>1
    <3> QED BY <2>2, <3>2 DEF FoldStep
  <2> QED BY <2>1, <2>2
<1>7. G \in [D \X [D -> A] -> A]
  BY <1>6
<1>8. ASSUME NEW s \in D, NEW f \in [D -> A], NEW g \in [D -> A],
             \A y \in D : m[y] < m[s] => f[y] = g[y]
      PROVE  G[<<s, f>>] = G[<<s, g>>]
  <2>1. CASE s = {}
    BY <1>5, <2>1 DEF FoldStep
  <2>2. CASE s # {}
    <3> DEFINE r == s \ {Max(s)}
    <3>1. r \in D /\ m[s] = Max(s) /\ Max(s) \in Nat \ {0}
      BY <1>2, <1>3, <2>2
    <3>2. m[r] < m[s]
      <4>1. CASE r = {}
        BY <1>3, <3>1, <4>1
      <4>2. CASE r # {}
        <5>1. m[r] = Max(r) /\ Max(r) \in r /\ Max(r) \in Nat
          BY <1>2, <1>3, <3>1, <4>2
        <5>2. Max(r) <= Max(s) /\ Max(r) # Max(s)
          BY <5>1, <1>2, <2>2
        <5> QED BY <3>1, <5>1, <5>2
      <4> QED BY <4>1, <4>2
    <3>3. f[r] = g[r]
      BY <1>8, <3>1, <3>2
    <3> QED BY <1>5, <2>2, <3>3 DEF FoldStep
  <2> QED BY <2>1, <2>2
<1> HIDE DEF m, G
<1>9. LooksBelow(D, A, m, G)
  BY <1>7, <1>8 DEF LooksBelow
<1>10. Solvable(D, A, G)
  BY <1>4, <1>9, Recursion
<1> QED BY <1>5, <1>10 DEF Solvable, Foldable

\* The fold of a sequence, element by element.
FoldedBy(base, seq, op, A, result) ==
  \E run \in [0 .. Len(seq) -> A] :
    /\ run[0] = base /\ run[Len(seq)] = result
    /\ \A n \in 1 .. Len(seq) : run[n] = op[<<seq[n], run[n - 1]>>]

LEMMA FoldRuns ==
  ASSUME NEW E, NEW seq \in Seq(E), NEW A, NEW base \in A, NEW op \in [E \X A -> A],
         NEW f, f[{}] = base,
         \A n \in 1 .. Len(seq) : f[1 .. n - 1] \in A => f[1 .. n] = op[<<seq[n], f[1 .. n - 1]>>]
  PROVE  FoldedBy(base, seq, op, A, f[1 .. Len(seq)])
<1> DEFINE last == Len(seq)
           S == {n \in Nat : n <= last => f[1 .. n] \in A}
<1>1. last \in Nat /\ \A n \in 1 .. last : seq[n] \in E
  OBVIOUS
<1>2. 1 .. 0 = {}
  OBVIOUS
<1>3. 0 \in S
  BY <1>2
<1>4. ASSUME NEW n \in S PROVE n + 1 \in S
  <2>1. n \in Nat /\ n + 1 \in Nat /\ (n + 1) - 1 = n
    OBVIOUS
  <2>2. ASSUME n + 1 <= last PROVE f[1 .. n + 1] \in A
    <3>1. n + 1 \in 1 .. last /\ f[1 .. n] \in A
      BY <1>1, <2>1, <2>2
    <3>2. f[1 .. n + 1] = op[<<seq[n + 1], f[1 .. n]>>]
      BY <2>1, <3>1
    <3> QED BY <1>1, <3>1, <3>2
  <2> QED BY <2>1, <2>2
<1>5. \A n \in Nat : n \in S
  <2>1. S \in SUBSET Nat
    OBVIOUS
  <2> HIDE DEF S
  <2> QED BY <1>3, <1>4, <2>1, Counting
<1> DEFINE run == [n \in 0 .. last |-> f[1 .. n]]
<1>6. run \in [0 .. last -> A]
  BY <1>1, <1>5
<1>7. run[0] = base /\ run[last] = f[1 .. last]
  BY <1>1, <1>2
<1>8. ASSUME NEW n \in 1 .. last PROVE run[n] = op[<<seq[n], run[n - 1]>>]
  <2>1. n - 1 \in 0 .. last /\ n \in 0 .. last /\ n - 1 \in Nat /\ n - 1 <= last
    BY <1>1
  <2>2. f[1 .. n - 1] \in A
    BY <1>5, <2>1
  <2>3. f[1 .. n] = op[<<seq[n], f[1 .. n - 1]>>]
    BY <2>2
  <2> QED BY <2>1, <2>3
<1> HIDE DEF run
<1> QED BY <1>6, <1>7, <1>8 DEF FoldedBy

-----------------------------------------------------------------------------
(* The orders of RIDs and of keys. *)

StationKeys == Nat \X Rids

LEMMA RidOrder ==
  ASSUME NEW r \in Rids, NEW q \in Rids
  PROVE  /\ ~RidLess(r, r) /\ ~(RidLess(r, q) /\ RidLess(q, r))
         /\ RidLess(r, q) \/ r = q \/ RidLess(q, r)
         /\ \A t \in Rids : RidLess(r, q) /\ RidLess(q, t) => RidLess(r, t)
<1>1. r[1] \in Nat /\ r[2] \in Nat /\ q[1] \in Nat /\ q[2] \in Nat
      /\ r = <<r[1], r[2]>> /\ q = <<q[1], q[2]>>
  BY DEF Rids
<1>2. ASSUME NEW t \in Rids, RidLess(r, q), RidLess(q, t) PROVE RidLess(r, t)
  <2>1. t[1] \in Nat /\ t[2] \in Nat
    BY DEF Rids
  <2> QED BY <1>1, <1>2, <2>1 DEF RidLess
<1>3. RidLess(r, q) \/ r = q \/ RidLess(q, r)
  BY <1>1 DEF RidLess
<1>4. ~RidLess(r, r) /\ ~(RidLess(r, q) /\ RidLess(q, r))
  BY <1>1 DEF RidLess
<1> QED BY <1>2, <1>3, <1>4

LEMMA KeyOrder ==
  ASSUME NEW k \in StationKeys, NEW l \in StationKeys
  PROVE  /\ ~KeyLess(k, k) /\ ~(KeyLess(k, l) /\ KeyLess(l, k))
         /\ KeyLess(k, l) \/ k = l \/ KeyLess(l, k)
         /\ \A t \in StationKeys : KeyLess(k, l) /\ KeyLess(l, t) => KeyLess(k, t)
<1>1. /\ k[1] \in Nat /\ k[2] \in Rids /\ l[1] \in Nat /\ l[2] \in Rids
      /\ k = <<k[1], k[2]>> /\ l = <<l[1], l[2]>>
  BY DEF StationKeys
<1>2. ASSUME NEW t \in StationKeys, KeyLess(k, l), KeyLess(l, t) PROVE KeyLess(k, t)
  <2>1. t[1] \in Nat /\ t[2] \in Rids
    BY DEF StationKeys
  <2>2. RidLess(k[2], l[2]) /\ RidLess(l[2], t[2]) => RidLess(k[2], t[2])
    BY <1>1, <2>1, RidOrder
  <2> QED BY <1>1, <1>2, <2>1, <2>2 DEF KeyLess
<1>3. KeyLess(k, l) \/ k = l \/ KeyLess(l, k)
  <2>1. RidLess(k[2], l[2]) \/ k[2] = l[2] \/ RidLess(l[2], k[2])
    BY <1>1, RidOrder
  <2> QED BY <1>1, <2>1 DEF KeyLess
<1>4. ~KeyLess(k, k) /\ ~(KeyLess(k, l) /\ KeyLess(l, k))
  <2>1. ~RidLess(k[2], k[2]) /\ ~(RidLess(k[2], l[2]) /\ RidLess(l[2], k[2]))
    BY <1>1, RidOrder
  <2> QED BY <1>1, <2>1 DEF KeyLess
<1> QED BY <1>2, <1>3, <1>4

Sorted(entries) ==
  /\ entries \in Seq(StationKeys)
  /\ \A i, j \in 1 .. Len(entries) : i < j => KeyLess(entries[i], entries[j])

LEMMA Joining ==
  ASSUME NEW E, NEW a \in Seq(E), NEW b \in Seq(E)
  PROVE  /\ a \o b \in Seq(E) /\ Len(a \o b) = Len(a) + Len(b)
         /\ Len(a) \in Nat /\ Len(b) \in Nat
         /\ \A i \in 1 .. Len(a) + Len(b) : (a \o b)[i] = IF i <= Len(a) THEN a[i] ELSE b[i - Len(a)]
OBVIOUS

\* A new element at a place in a sequence.
IsInserted(new, old, place, e) ==
  /\ Len(new) = Len(old) + 1
  /\ \A i \in 1 .. Len(old) + 1 :
       new[i] = IF i < place THEN old[i] ELSE IF i = place THEN e ELSE old[i - 1]

LEMMA Inserting ==
  ASSUME NEW E, NEW old \in Seq(E), NEW e \in E, NEW place \in 1 .. Len(old) + 1
  PROVE  InsertAt(old, place, e) \in Seq(E) /\ IsInserted(InsertAt(old, place, e), old, place, e)
<1> DEFINE front == SubSeq(old, 1, place - 1)
           back  == SubSeq(old, place, Len(old))
<1>0. Len(old) \in Nat /\ place \in Nat /\ 1 <= place /\ place <= Len(old) + 1
  OBVIOUS
<1>1. /\ front \in Seq(E) /\ Len(front) = place - 1
      /\ \A i \in 1 .. place - 1 : front[i] = old[i]
  BY <1>0
<1>2. /\ back \in Seq(E) /\ Len(back) = Len(old) - place + 1
      /\ \A i \in 1 .. Len(old) - place + 1 : back[i] = old[place + i - 1]
  BY <1>0
<1>3. InsertAt(old, place, e) = (front \o <<e>>) \o back
  BY DEF InsertAt
<1> HIDE DEF front, back
<1>4. /\ front \o <<e>> \in Seq(E) /\ Len(front \o <<e>>) = place
      /\ \A i \in 1 .. place : (front \o <<e>>)[i] = IF i < place THEN old[i] ELSE e
  BY <1>0, <1>1
<1> DEFINE one == front \o <<e>>
<1>5. one \in Seq(E) /\ Len(one) = place
  BY <1>4
<1>6. \A i \in 1 .. place : one[i] = IF i < place THEN old[i] ELSE e
  BY <1>4
<1> HIDE DEF one
<1>7. one \o back \in Seq(E) /\ Len(one \o back) = Len(old) + 1
  <2>1. one \o back \in Seq(E) /\ Len(one \o back) = Len(one) + Len(back)
    BY <1>2, <1>5, Joining
  <2>2. place + (Len(old) - place + 1) = Len(old) + 1
    BY <1>0
  <2> QED BY <1>2, <1>5, <2>1, <2>2
<1>8. ASSUME NEW i \in 1 .. Len(old) + 1
      PROVE  (one \o back)[i] = IF i < place THEN old[i] ELSE IF i = place THEN e ELSE old[i - 1]
  <2>0. Len(one) + Len(back) = Len(old) + 1
    BY <1>0, <1>2, <1>5
  <2>1. (one \o back)[i] = IF i <= place THEN one[i] ELSE back[i - place]
    BY <1>2, <1>5, <2>0, Joining
  <2>2. CASE i <= place
    <3>1. i \in 1 .. place /\ (~(i < place) => i = place)
      BY <1>0, <2>2
    <3>2. one[i] = IF i < place THEN old[i] ELSE e
      BY <1>6, <3>1
    <3> QED BY <2>1, <2>2, <3>1, <3>2
  <2>3. CASE i > place
    <3>1. i - place \in 1 .. Len(old) - place + 1 /\ place + (i - place) - 1 = i - 1
      BY <1>0, <2>3
    <3>2. back[i - place] = old[i - 1]
      BY <1>2, <3>1
    <3>3. ~(i <= place) /\ ~(i < place) /\ i # place
      BY <1>0, <2>3
    <3> QED BY <2>1, <3>2, <3>3
  <2>4. i <= place \/ i > place
    BY <1>0
  <2> QED BY <2>2, <2>3, <2>4, Zenon
<1> QED BY <1>3, <1>7, <1>8 DEF IsInserted, one

HoldsKeys(new, old, key) == Range(new) = Range(old) \cup {key}

LEMMA InsertedKeeps ==
  ASSUME NEW entries, Sorted(entries), NEW key \in StationKeys
  PROVE  Sorted(Inserted(entries, key)) /\ HoldsKeys(Inserted(entries, key), entries, key)
<1> DEFINE last == Len(entries)
           S    == {n \in 1 .. last + 1 : n = last + 1 \/ ~KeyLess(entries[n], key)}
           place  == Min(S)
<1>1. /\ entries \in Seq(StationKeys) /\ last \in Nat
      /\ \A n \in 1 .. last : entries[n] \in StationKeys
  BY DEF Sorted
<1>2. S \in SUBSET Nat /\ last + 1 \in S
  BY <1>1
<1>3. place \in S /\ \A n \in S : place <= n
  <2> HIDE DEF S
  <2> QED BY <1>2, MinOfSome
<1>4. Inserted(entries, key) = IF place < last + 1 /\ entries[place] = key THEN entries
                               ELSE InsertAt(entries, place, key)
  BY DEF Inserted
<1>5. place \in 1 .. last + 1 /\ (place < last + 1 => ~KeyLess(entries[place], key))
  BY <1>1, <1>3
<1>6. ASSUME NEW n \in 1 .. last, n < place PROVE KeyLess(entries[n], key)
  <2>1. n \in 1 .. last + 1 /\ n \notin S
    BY <1>1, <1>3, <1>5, <1>6
  <2> QED BY <2>1
<1> HIDE DEF place, S
<1>7. CASE place < last + 1 /\ entries[place] = key
  <2>1. place \in DOMAIN entries
    BY <1>1, <1>5, <1>7
  <2> QED BY <1>4, <1>7, <2>1 DEF HoldsKeys, Range
<1>8. CASE ~(place < last + 1 /\ entries[place] = key)
  <2>1. PICK new : new = InsertAt(entries, place, key)
    OBVIOUS
  <2>2. new \in Seq(StationKeys) /\ IsInserted(new, entries, place, key)
    BY <1>1, <1>5, <2>1, Inserting
  <2>3. Len(new) = last + 1
    BY <2>2 DEF IsInserted
  <2>4. \A i \in 1 .. last + 1 :
          new[i] = IF i < place THEN entries[i] ELSE IF i = place THEN key ELSE entries[i - 1]
    BY <2>2 DEF IsInserted
  <2>5. ASSUME NEW n \in 1 .. last, place <= n PROVE KeyLess(key, entries[n])
    <3>1. place \in 1 .. last /\ place < last + 1
      BY <1>1, <1>5, <2>5
    <3>2. KeyLess(key, entries[place])
      BY <1>1, <1>5, <1>8, <3>1, KeyOrder
    <3>3. CASE n = place
      BY <3>2, <3>3
    <3>4. CASE n # place
      <4>1. KeyLess(entries[place], entries[n])
        BY <1>1, <1>5, <2>5, <3>1, <3>4 DEF Sorted
      <4> QED BY <1>1, <3>1, <3>2, <4>1, KeyOrder
    <3> QED BY <3>3, <3>4
  <2>6. ASSUME NEW i \in 1 .. last + 1, NEW j \in 1 .. last + 1, i < j
        PROVE  KeyLess(new[i], new[j])
    <3>1. CASE j < place
      <4>1. new[i] = entries[i] /\ new[j] = entries[j] /\ i \in 1 .. last /\ j \in 1 .. last
        BY <1>1, <1>5, <2>4, <2>6, <3>1
      <4> QED BY <2>6, <4>1 DEF Sorted
    <3>2. CASE j = place
      <4>1. new[i] = entries[i] /\ new[j] = key /\ i \in 1 .. last /\ i < place
        BY <1>1, <1>5, <2>4, <2>6, <3>2
      <4> QED BY <1>6, <4>1
    <3>3. CASE i = place
      <4>1. new[i] = key /\ new[j] = entries[j - 1] /\ j - 1 \in 1 .. last /\ place <= j - 1
        BY <1>1, <1>5, <2>4, <2>6, <3>3
      <4> QED BY <2>5, <4>1
    <3>4. CASE i < place /\ place < j
      <4>1. new[i] = entries[i] /\ new[j] = entries[j - 1]
        BY <1>1, <1>5, <2>4, <2>6, <3>4
      <4>2. i < j - 1 /\ i \in 1 .. last /\ j - 1 \in 1 .. last
        BY <1>1, <1>5, <2>6, <3>4
      <4> QED BY <4>1, <4>2 DEF Sorted
    <3>5. CASE place < i
      <4>1. new[i] = entries[i - 1] /\ new[j] = entries[j - 1]
        BY <1>1, <1>5, <2>4, <2>6, <3>5
      <4>2. i - 1 < j - 1 /\ i - 1 \in 1 .. last /\ j - 1 \in 1 .. last
        BY <1>1, <1>5, <2>6, <3>5
      <4> QED BY <4>1, <4>2 DEF Sorted
    <3> QED BY <1>5, <2>6, <3>1, <3>2, <3>3, <3>4, <3>5
  <2>7. Sorted(new)
    BY <2>2, <2>3, <2>6 DEF Sorted
  <2>8. DOMAIN new = 1 .. last + 1 /\ DOMAIN entries = 1 .. last
    BY <1>1, <2>2, <2>3
  <2>9. ASSUME NEW x \in Range(new) PROVE x \in Range(entries) \cup {key}
    <3>1. PICK i \in 1 .. last + 1 : x = new[i]
      BY <2>8, <2>9 DEF Range
    <3>2. CASE i = place
      BY <2>4, <3>1, <3>2
    <3>3. CASE i < place
      <4>1. i \in 1 .. last /\ new[i] = entries[i]
        BY <1>1, <1>5, <2>4, <3>3
      <4> QED BY <2>8, <3>1, <4>1 DEF Range
    <3>4. CASE place < i
      <4>1. i - 1 \in 1 .. last /\ new[i] = entries[i - 1]
        BY <1>1, <1>5, <2>4, <3>4
      <4> QED BY <2>8, <3>1, <4>1 DEF Range
    <3> QED BY <1>5, <3>2, <3>3, <3>4
  <2>10. key \in Range(new)
    <3>1. new[place] = key
      BY <1>5, <2>4
    <3> QED BY <1>5, <2>8, <3>1 DEF Range
  <2>11. ASSUME NEW x \in Range(entries) PROVE x \in Range(new)
    <3>1. PICK i \in 1 .. last : x = entries[i]
      BY <2>8, <2>11 DEF Range
    <3>2. CASE i < place
      <4>1. i \in 1 .. last + 1 /\ new[i] = entries[i]
        BY <1>1, <1>5, <2>4, <3>2
      <4> QED BY <2>8, <3>1, <4>1 DEF Range
    <3>3. CASE place <= i
      <4>1. i + 1 \in 1 .. last + 1 /\ new[i + 1] = entries[(i + 1) - 1] /\ (i + 1) - 1 = i
        BY <1>1, <1>5, <2>4, <3>3
      <4> QED BY <2>8, <3>1, <4>1 DEF Range
    <3> QED BY <1>1, <1>5, <3>2, <3>3
  <2> QED BY <1>4, <1>8, <2>1, <2>7, <2>9, <2>10, <2>11 DEF HoldsKeys
<1> QED BY <1>7, <1>8

\* ReleaseTrain enters a train under its stations.
AllInserted(entries, stops, rid) ==
  FoldLeft(LAMBDA e, station : Inserted(e, <<station, rid>>), entries, stops)

InsertedFrom(entries, stops, rid, f, s) ==
  IF s = {} THEN entries ELSE Inserted(f[s \ {Max(s)}], <<stops[Max(s)], rid>>)

SortedLists == {e \in Seq(StationKeys) : Sorted(e)}

LEMMA InsertingRuns ==
  ASSUME NEW entries, Sorted(entries), NEW stops \in Seq(Nat), NEW rid \in Rids,
         NEW op, op = [p \in Nat \X SortedLists |-> Inserted(p[2], <<p[1], rid>>)]
  PROVE  FoldedBy(entries, stops, op, SortedLists, AllInserted(entries, stops, rid))
<1> DEFINE D == SUBSET DOMAIN stops
<1>0. Len(stops) \in Nat /\ DOMAIN stops = 1 .. Len(stops)
  OBVIOUS
<1>1. ASSUME NEW e \in SortedLists, NEW st \in Nat
      PROVE  Inserted(e, <<st, rid>>) \in SortedLists
  <2>1. Sorted(e) /\ <<st, rid>> \in StationKeys
    BY DEF SortedLists, StationKeys
  <2>2. Sorted(Inserted(e, <<st, rid>>))
    BY <2>1, InsertedKeeps
  <2> QED BY <2>2 DEF SortedLists, Sorted
<1>2. op \in [Nat \X SortedLists -> SortedLists]
      /\ \A e \in SortedLists, st \in Nat : op[<<st, e>>] = Inserted(e, <<st, rid>>)
  BY <1>1
<1>3. entries \in SortedLists
  BY DEF SortedLists, Sorted
<1> HIDE DEF SortedLists
<1>4. PICK f \in [D -> SortedLists] : \A s \in D : f[s] = FoldStep(entries, stops, op, f, s)
  <2>1. Foldable(entries, stops, op, SortedLists)
    BY <1>2, <1>3, FoldExists
  <2> QED BY <2>1 DEF Foldable
<1>5. ASSUME NEW s \in D PROVE f[s] = InsertedFrom(entries, stops, rid, f, s)
  <2>1. CASE s = {}
    BY <1>4, <2>1 DEF FoldStep, InsertedFrom
  <2>2. CASE s # {}
    <3>1. Max(s) \in s
      BY <1>0, <2>2, MaxOfIndices
    <3>2. stops[Max(s)] \in Nat /\ f[s \ {Max(s)}] \in SortedLists
      BY <1>0, <3>1
    <3>3. f[s] = op[<<stops[Max(s)], f[s \ {Max(s)}]>>]
      BY <1>4, <2>2 DEF FoldStep
    <3> QED BY <1>2, <2>2, <3>2, <3>3 DEF InsertedFrom
  <2> QED BY <2>1, <2>2
<1>6. f = [s \in D |-> InsertedFrom(entries, stops, rid, f, s)]
  BY <1>5
<1>7. PICK g : g = [s \in D |-> InsertedFrom(entries, stops, rid, g, s)]
               /\ AllInserted(entries, stops, rid) = g[DOMAIN stops]
  <2> DEFINE g == CHOOSE g : g = [s \in D |-> InsertedFrom(entries, stops, rid, g, s)]
  <2>1. g = [s \in D |-> InsertedFrom(entries, stops, rid, g, s)]
    BY <1>6
  <2>2. AllInserted(entries, stops, rid) = g[DOMAIN stops]
    BY DEF AllInserted, FoldLeft, MapThenFoldSet, InsertedFrom
  <2> QED BY <2>1, <2>2
<1>8. g[{}] = entries
  <2>1. {} \in D
    OBVIOUS
  <2> QED BY <1>7, <2>1 DEF InsertedFrom
<1>9. ASSUME NEW n \in 1 .. Len(stops), g[1 .. n - 1] \in SortedLists
      PROVE  g[1 .. n] = op[<<stops[n], g[1 .. n - 1]>>]
  <2>1. 1 .. n \in D /\ n \in Nat \ {0} /\ stops[n] \in Nat
    BY <1>0
  <2>2. 1 .. n # {} /\ Max(1 .. n) = n /\ (1 .. n) \ {n} = 1 .. n - 1
    BY <2>1, MaxOfPrefix
  <2>3. g[1 .. n] = Inserted(g[1 .. n - 1], <<stops[n], rid>>)
    <3>1. g[1 .. n] = InsertedFrom(entries, stops, rid, g, 1 .. n)
      BY <1>7, <2>1
    <3> QED BY <2>2, <3>1 DEF InsertedFrom
  <2> QED BY <1>2, <1>9, <2>1, <2>3
<1>10. FoldedBy(entries, stops, op, SortedLists, g[1 .. Len(stops)])
  BY <1>2, <1>3, <1>8, <1>9, FoldRuns
<1> QED BY <1>0, <1>7, <1>10

EntriesFor(stops, n, rid) == {<<stops[i], rid>> : i \in 1 .. n}

LEMMA AllAreInserted ==
  ASSUME NEW entries, Sorted(entries), NEW stops \in Seq(Nat), NEW rid \in Rids
  PROVE  /\ Sorted(AllInserted(entries, stops, rid))
         /\ Range(AllInserted(entries, stops, rid))
              = Range(entries) \cup EntriesFor(stops, Len(stops), rid)
<1> DEFINE op == [p \in Nat \X SortedLists |-> Inserted(p[2], <<p[1], rid>>)]
           last == Len(stops)
<1>1. FoldedBy(entries, stops, op, SortedLists, AllInserted(entries, stops, rid))
  BY InsertingRuns
<1>2. PICK run \in [0 .. last -> SortedLists] :
        /\ run[0] = entries /\ run[last] = AllInserted(entries, stops, rid)
        /\ \A n \in 1 .. last : run[n] = op[<<stops[n], run[n - 1]>>]
  BY <1>1 DEF FoldedBy
<1>3. last \in Nat /\ \A n \in 1 .. last : stops[n] \in Nat
  OBVIOUS
<1>4. ASSUME NEW n \in 1 .. last
      PROVE  HoldsKeys(run[n], run[n - 1], <<stops[n], rid>>)
  <2>1. n - 1 \in 0 .. last
    BY <1>3
  <2>2. run[n - 1] \in SortedLists /\ stops[n] \in Nat
    BY <1>3, <2>1
  <2>3. run[n] = Inserted(run[n - 1], <<stops[n], rid>>)
    BY <1>2, <2>2
  <2>4. Sorted(run[n - 1]) /\ <<stops[n], rid>> \in StationKeys
    BY <2>2 DEF SortedLists, StationKeys
  <2> QED BY <2>3, <2>4, InsertedKeeps
<1> HIDE DEF op
<1> DEFINE S == {n \in Nat : n <= last => Range(run[n]) = Range(entries) \cup EntriesFor(stops, n, rid)}
<1>5. 0 \in S
  BY <1>2 DEF EntriesFor
<1>6. ASSUME NEW n \in S PROVE n + 1 \in S
  <2>1. n \in Nat /\ n + 1 \in Nat /\ (n + 1) - 1 = n
    OBVIOUS
  <2>2. ASSUME n + 1 <= last
        PROVE  Range(run[n + 1]) = Range(entries) \cup EntriesFor(stops, n + 1, rid)
    <3>1. n + 1 \in 1 .. last /\ n <= last
      BY <1>3, <2>1, <2>2
    <3>2. Range(run[n]) = Range(entries) \cup EntriesFor(stops, n, rid)
      BY <3>1
    <3>3. Range(run[n + 1]) = Range(run[n]) \cup {<<stops[n + 1], rid>>}
      BY <1>4, <2>1, <3>1 DEF HoldsKeys
    <3>4. 1 .. n + 1 = (1 .. n) \cup {n + 1}
      BY <2>1
    <3>5. EntriesFor(stops, n + 1, rid) = EntriesFor(stops, n, rid) \cup {<<stops[n + 1], rid>>}
      BY <3>4, Zenon DEF EntriesFor
    <3> QED BY <3>2, <3>3, <3>5
  <2> QED BY <2>1, <2>2
<1>7. \A n \in Nat : n \in S
  <2>1. S \in SUBSET Nat
    OBVIOUS
  <2> HIDE DEF S
  <2> QED BY <1>5, <1>6, <2>1, Counting
<1>8. run[last] \in SortedLists /\ last <= last
  BY <1>3
<1> QED BY <1>2, <1>3, <1>7, <1>8 DEF SortedLists

-----------------------------------------------------------------------------
(* The station index. *)

\* Each released train is in the station index under its stations, and nothing else is.
StopsAt(trains, ix, key) ==
  \E id \in DOMAIN ix : /\ trains[id].released /\ key[2] = ix[id]
                        /\ key[1] \in Range(trains[id].service.stations)

Listed(entries, trains, ix) ==
  /\ Sorted(entries)
  /\ \A key \in StationKeys : key \in Range(entries) <=> StopsAt(trains, ix, key)

ServicesKept(trains) == \A id \in DOMAIN trains : trains[id].service \in Services

OffersInv ==
  CatalogInv /\ Listed(station_index, BoardTrains, index) /\ ServicesKept(BoardTrains)

LEMMA StationLists ==
  ASSUME NEW service \in Services
  PROVE  /\ service.stations \in Seq(Nat) /\ IsInjective(service.stations)
         /\ service.stations \in Seq(Stations)
BY CatalogAssumption

LEMMA StationsAreFirst ==
  /\ Number("stations") = 1 /\ "stations" \in Range(Lists)
<1>1. "stations" \in Range(Lists)
  <2>1. 1 \in DOMAIN Lists /\ Lists[1] = "stations"
    BY DEF Lists
  <2> QED BY <2>1 DEF Range
<1>2. Number("stations") \in 1 .. 4 /\ Lists[Number("stations")] = "stations"
  BY <1>1, ListNumbers
<1>3. \A n \in 1 .. 4 : Lists[n] = "stations" => n = 1
  BY DEF Lists
<1> QED BY <1>1, <1>2, <1>3

LEMMA StationsOfEntry ==
  ASSUME NEW id \in DOMAIN index
  PROVE  /\ StationsOf(index[id]) = BoardTrains[id].service.stations
         /\ At(index[id]).released = BoardTrains[id].released
         /\ FetchDynamicInfo(At(index[id]).lists[1]) = StationsOf(index[id])
<1>1. BoardTrains[id] = EntryOn(pages, index[id])
  BY TrainsAreTrainsOn DEF TrainsOn
<1>2. BoardTrains[id].service.stations = ListOn(pages, index[id], "stations")
  BY <1>1, StationsAreFirst DEF EntryOn
<1>3. At(index[id]) = RecordOn(pages, index[id])
  BY DEF At, RecordOn
<1>4. ListOn(pages, index[id], "stations") = FetchDynamicInfo(At(index[id]).lists[1])
  BY <1>3, StationsAreFirst DEF ListOn, FetchDynamicInfo
<1>5. BoardTrains[id].released = RecordOn(pages, index[id]).released
  BY <1>1 DEF EntryOn
<1> QED BY <1>2, <1>3, <1>4, <1>5 DEF StationsOf

LEMMA OffersInvInit == Init => OffersInv
<1> SUFFICES ASSUME Init PROVE OffersInv
  OBVIOUS
<1>1. CatalogInv
  BY CatalogInvInit
<1>2. station_index = <<>> /\ index = <<>>
  BY DEF Init
<1>3. Sorted(station_index) /\ Range(station_index) = {} /\ DOMAIN index = {}
  BY <1>2 DEF Sorted, Range
<1>4. DOMAIN BoardTrains = {}
  BY <1>3 DEF BoardTrains
<1> QED BY <1>1, <1>3, <1>4 DEF OffersInv, Listed, ServicesKept, StopsAt

LEMMA AddKeepsOffers ==
  ASSUME OffersInv, NEW id \in TrainIds, NEW service \in Services, AddTrain(id, service)
  PROVE  Listed(station_index', BoardTrains', index') /\ ServicesKept(BoardTrains')
<1> DEFINE was == BoardTrains
           now == BoardTrains'
<1>1. /\ station_index' = station_index /\ id \notin DOMAIN index
      /\ DOMAIN index' = DOMAIN index \cup {id}
      /\ \A i \in DOMAIN index : index'[i] = index[i]
  BY DEF AddTrain
<1>2. DOMAIN was = DOMAIN index
  BY DEF BoardTrains
<1>3. now = [i \in DOMAIN was \cup {id} |->
               IF i = id THEN [service |-> service, released |-> FALSE] ELSE was[i]]
  BY AddImplements DEF OffersInv, Board!Add, BoardTrains
<1> HIDE DEF was, now
<1>4. /\ DOMAIN now = DOMAIN was \cup {id}
      /\ now[id].service = service /\ now[id].released = FALSE
      /\ \A i \in DOMAIN was : now[i] = was[i]
  BY <1>1, <1>2, <1>3
<1>5. ServicesKept(now)
  BY <1>4 DEF OffersInv, ServicesKept, was
<1>6. ASSUME NEW key PROVE StopsAt(now, index', key) <=> StopsAt(was, index, key)
  BY <1>1, <1>2, <1>4 DEF StopsAt
<1>7. Listed(station_index, was, index)
  BY DEF OffersInv, was
<1> QED BY <1>1, <1>5, <1>6, <1>7 DEF Listed, now

LEMMA DeleteKeepsOffers ==
  ASSUME OffersInv, NEW id \in TrainIds, DeleteTrain(id)
  PROVE  Listed(station_index', BoardTrains', index') /\ ServicesKept(BoardTrains')
<1> DEFINE was == BoardTrains
           now == BoardTrains'
<1>1. /\ station_index' = station_index /\ id \in DOMAIN index
      /\ DOMAIN index' = DOMAIN index \ {id}
      /\ \A i \in DOMAIN index' : index'[i] = index[i]
  BY DEF DeleteTrain
<1>2. DOMAIN was = DOMAIN index
  BY DEF BoardTrains
<1>3. ~was[id].released /\ now = [i \in DOMAIN was \ {id} |-> was[i]]
  BY WithdrawImplements DEF OffersInv, Board!Withdraw, BoardTrains
<1> HIDE DEF was, now
<1>4. DOMAIN now = DOMAIN was \ {id} /\ \A i \in DOMAIN now : now[i] = was[i]
  BY <1>3
<1>5. ServicesKept(now)
  BY <1>4 DEF OffersInv, ServicesKept, was
<1>6. ASSUME NEW key PROVE StopsAt(now, index', key) <=> StopsAt(was, index, key)
  BY <1>1, <1>2, <1>3, <1>4 DEF StopsAt
<1>7. Listed(station_index, was, index)
  BY DEF OffersInv, was
<1> QED BY <1>1, <1>5, <1>6, <1>7 DEF Listed, now

LEMMA ReleaseKeepsOffers ==
  ASSUME OffersInv, NEW id \in TrainIds, ReleaseTrain(id)
  PROVE  Listed(station_index', BoardTrains', index') /\ ServicesKept(BoardTrains')
<1> DEFINE was   == BoardTrains
           now   == BoardTrains'
           rid   == index[id]
           stops == was[id].service.stations
<1>1. index' = index /\ id \in DOMAIN index
  BY DEF ReleaseTrain
<1>2. station_index' = AllInserted(station_index, FetchDynamicInfo(At(rid).lists[1]), rid)
  BY DEF ReleaseTrain, AllInserted
<1>3. FetchDynamicInfo(At(rid).lists[1]) = stops
  BY <1>1, StationsOfEntry
<1>4. DOMAIN was = DOMAIN index
  BY DEF BoardTrains
<1>5. now = [was EXCEPT ![id].released = TRUE]
  BY ReleaseImplements DEF OffersInv, Board!Release, BoardTrains
<1>6. Listed(station_index, was, index) /\ ServicesKept(was)
  BY DEF OffersInv
<1>7. rid \in Rids
  BY <1>1 DEF OffersInv, CatalogInv, Indexed, HasRecord, Rids
<1>8. \A i \in DOMAIN index : was[i] = [service |-> was[i].service, released |-> was[i].released]
  BY DEF BoardTrains, Entry
<1> HIDE DEF was, now
<1>9. /\ DOMAIN now = DOMAIN was
      /\ now[id].released = TRUE /\ now[id].service = was[id].service
      /\ \A i \in DOMAIN was : i # id => now[i] = was[i]
  BY <1>1, <1>4, <1>5, <1>8
<1>10. ServicesKept(now)
  BY <1>1, <1>4, <1>6, <1>9 DEF ServicesKept
<1>11. stops \in Seq(Nat)
  BY <1>1, <1>4, <1>6, StationLists DEF ServicesKept
<1>12. /\ Sorted(station_index')
       /\ Range(station_index') = Range(station_index) \cup EntriesFor(stops, Len(stops), rid)
  BY <1>2, <1>3, <1>6, <1>7, <1>11, AllAreInserted DEF Listed
<1>13. ASSUME NEW key \in StationKeys
       PROVE  key \in EntriesFor(stops, Len(stops), rid) <=> key[2] = rid /\ key[1] \in Range(stops)
  <2>1. key = <<key[1], key[2]>>
    BY DEF StationKeys
  <2>2. DOMAIN stops = 1 .. Len(stops)
    BY <1>11
  <2> HIDE DEF stops, rid
  <2> QED BY <2>1, <2>2 DEF EntriesFor, Range
<1>14. ASSUME NEW key \in StationKeys
       PROVE  StopsAt(now, index, key)
                <=> StopsAt(was, index, key) \/ (key[2] = rid /\ key[1] \in Range(stops))
  <2>1. ASSUME StopsAt(now, index, key)
        PROVE  StopsAt(was, index, key) \/ (key[2] = rid /\ key[1] \in Range(stops))
    <3>1. PICK i \in DOMAIN index : now[i].released /\ key[2] = index[i]
                                    /\ key[1] \in Range(now[i].service.stations)
      BY <2>1 DEF StopsAt
    <3>2. CASE i = id
      BY <1>9, <3>1, <3>2
    <3>3. CASE i # id
      BY <1>4, <1>9, <3>1, <3>3 DEF StopsAt
    <3> QED BY <3>2, <3>3
  <2>2. ASSUME StopsAt(was, index, key) PROVE StopsAt(now, index, key)
    <3>1. PICK i \in DOMAIN index : was[i].released /\ key[2] = index[i]
                                    /\ key[1] \in Range(was[i].service.stations)
      BY <2>2 DEF StopsAt
    <3>2. now[i].released /\ now[i].service = was[i].service
      BY <1>4, <1>9, <3>1
    <3> QED BY <3>1, <3>2 DEF StopsAt
  <2>3. ASSUME key[2] = rid, key[1] \in Range(stops) PROVE StopsAt(now, index, key)
    BY <1>1, <1>9, <2>3 DEF StopsAt
  <2> QED BY <2>1, <2>2, <2>3
<1>15. ASSUME NEW key \in StationKeys
       PROVE  key \in Range(station_index') <=> StopsAt(now, index, key)
  BY <1>6, <1>12, <1>13, <1>14 DEF Listed
<1> QED BY <1>1, <1>10, <1>12, <1>15 DEF Listed, now

LEMMA OffersInvNext == OffersInv /\ [Next]_catalogVars => OffersInv'
<1> SUFFICES ASSUME OffersInv, [Next]_catalogVars PROVE OffersInv'
  OBVIOUS
<1>0. CatalogInv'
  BY CatalogInvNext DEF OffersInv
<1>1. ASSUME Listed(station_index', BoardTrains', index'), ServicesKept(BoardTrains')
      PROVE  OffersInv'
  <2>1. (Listed(station_index, BoardTrains, index) /\ ServicesKept(BoardTrains))'
    BY <1>1
  <2> QED BY <1>0, <2>1 DEF OffersInv
<1>2. ASSUME NEW id \in TrainIds, NEW service \in Services, AddTrain(id, service) PROVE OffersInv'
  BY <1>1, <1>2, AddKeepsOffers
<1>3. ASSUME NEW id \in TrainIds, DeleteTrain(id) PROVE OffersInv'
  BY <1>1, <1>3, DeleteKeepsOffers
<1>4. ASSUME NEW id \in TrainIds, ReleaseTrain(id) PROVE OffersInv'
  BY <1>1, <1>4, ReleaseKeepsOffers
<1>5. ASSUME pages' = pages, index' = index, station_index' = station_index PROVE OffersInv'
  <2>1. BoardTrains' = BoardTrains
    BY <1>5, TrainsAreTrainsOn
  <2>2. Listed(station_index', BoardTrains', index') /\ ServicesKept(BoardTrains')
    BY <1>5, <2>1 DEF OffersInv
  <2> QED BY <1>1, <2>2
<1>6. CASE Exit
  BY <1>5, <1>6 DEF Exit
<1>7. CASE Start
  BY <1>5, <1>7 DEF Start
<1>8. CASE UNCHANGED catalogVars
  BY <1>5, <1>8 DEF catalogVars
<1> QED BY <1>2, <1>3, <1>4, <1>6, <1>7, <1>8 DEF Next

-----------------------------------------------------------------------------
(* The train lists: a merge sort leaves a list in order as it is. *)

Ascending(list) ==
  /\ list \in Seq(Rids)
  /\ \A i, j \in 1 .. Len(list) : i < j => RidLess(list[i], list[j])

Apart(r, q) == \A i \in 1 .. Len(r), j \in 1 .. Len(q) : RidLess(r[i], q[j])

LEMMA SameSequence ==
  ASSUME NEW E, NEW a \in Seq(E), NEW b \in Seq(E), Len(a) = Len(b),
         \A i \in 1 .. Len(a) : a[i] = b[i]
  PROVE  a = b
OBVIOUS

LEMMA HeadAndTail ==
  ASSUME NEW E, NEW s \in Seq(E), s # <<>>
  PROVE  /\ Head(s) = s[1] /\ Head(s) \in E /\ Tail(s) \in Seq(E) /\ Len(s) \in Nat \ {0}
         /\ Len(Tail(s)) = Len(s) - 1
         /\ \A i \in 1 .. Len(s) - 1 : Tail(s)[i] = s[i + 1]
OBVIOUS

LEMMA ConsTyped ==
  ASSUME NEW E, NEW e \in E, NEW s \in Seq(E)
  PROVE  <<e>> \o s \in Seq(E)
OBVIOUS

LEMMA Consing ==
  ASSUME NEW E, NEW e \in E, NEW s \in Seq(E)
  PROVE  /\ <<e>> \o s \in Seq(E) /\ Len(<<e>> \o s) = Len(s) + 1 /\ Len(s) \in Nat
         /\ (<<e>> \o s)[1] = e
         /\ \A i \in 2 .. Len(s) + 1 : (<<e>> \o s)[i] = s[i - 1]
OBVIOUS

Merged(lists, f) ==
  LET r == lists[1]
      q == lists[2]
  IN IF r = <<>> THEN q
     ELSE IF q = <<>> \/ ~RidLess(Head(q), Head(r)) THEN <<Head(r)>> \o f[<<Tail(r), q>>]
     ELSE <<Head(q)>> \o f[<<r, Tail(q)>>]

ListPairs == Seq(Rids) \X Seq(Rids)

LEMMA MergedEmpty ==
  ASSUME NEW r, NEW q, NEW f, r = <<>>
  PROVE  Merged(<<r, q>>, f) = q
BY DEF Merged

LEMMA MergedFirst ==
  ASSUME NEW r, NEW q, NEW f, r # <<>>, q = <<>> \/ ~RidLess(Head(q), Head(r))
  PROVE  Merged(<<r, q>>, f) = <<Head(r)>> \o f[<<Tail(r), q>>]
BY DEF Merged

LEMMA MergedSecond ==
  ASSUME NEW r, NEW q, NEW f, r # <<>>, ~(q = <<>> \/ ~RidLess(Head(q), Head(r)))
  PROVE  q # <<>> /\ Merged(<<r, q>>, f) = <<Head(q)>> \o f[<<r, Tail(q)>>]
BY DEF Merged

LEMMA MergeUnfolds == Merge = [lists \in ListPairs |-> Merged(lists, Merge)]
<1> DEFINE X == Seq(Rids)
           m == [l \in ListPairs |-> Len(l[1]) + Len(l[2])]
           G == [p \in ListPairs \X [ListPairs -> X] |-> Merged(p[1], p[2])]
<1>1. ASSUME NEW l \in ListPairs PROVE m[l] \in Nat /\ m[l] = Len(l[1]) + Len(l[2])
  <2>1. l[1] \in Seq(Rids) /\ l[2] \in Seq(Rids)
    BY DEF ListPairs
  <2>2. m[l] = Len(l[1]) + Len(l[2])
    OBVIOUS
  <2>3. PICK a \in Nat, b \in Nat : a = Len(l[1]) /\ b = Len(l[2])
    BY <2>1
  <2>4. a + b \in Nat
    OBVIOUS
  <2> HIDE DEF m
  <2>5. m[l] = a + b
    BY <2>2, <2>3
  <2> QED BY <2>2, <2>4, <2>5, Zenon
<1>2. ASSUME NEW l \in ListPairs, NEW f \in [ListPairs -> X], NEW g \in [ListPairs -> X],
             \A y \in ListPairs : m[y] < m[l] => f[y] = g[y]
      PROVE  Merged(l, f) \in X /\ Merged(l, f) = Merged(l, g)
  <2>1. PICK r \in Seq(Rids), q \in Seq(Rids) : l = <<r, q>>
    BY DEF ListPairs
  <2>2. m[l] = Len(r) + Len(q) /\ Len(r) \in Nat /\ Len(q) \in Nat
    BY <1>1, <2>1
  <2>3. CASE r = <<>>
    BY <2>1, <2>3, MergedEmpty
  <2>4. CASE r # <<>> /\ (q = <<>> \/ ~RidLess(Head(q), Head(r)))
    <3>1. Head(r) \in Rids /\ Tail(r) \in Seq(Rids) /\ Len(Tail(r)) = Len(r) - 1
      BY <2>4, HeadAndTail
    <3>2. <<Tail(r), q>> \in ListPairs /\ <<Tail(r), q>>[1] = Tail(r) /\ <<Tail(r), q>>[2] = q
      BY <3>1 DEF ListPairs
    <3>3. m[<<Tail(r), q>>] = Len(Tail(r)) + Len(q)
      BY <1>1, <3>2
    <3>4. m[<<Tail(r), q>>] < m[l]
      <4> HIDE DEF m
      <4> QED BY <2>2, <3>1, <3>3
    <3>5. f[<<Tail(r), q>>] = g[<<Tail(r), q>>] /\ f[<<Tail(r), q>>] \in X
      BY <1>2, <3>2, <3>4
    <3>6. /\ Merged(l, f) = <<Head(r)>> \o f[<<Tail(r), q>>]
          /\ Merged(l, g) = <<Head(r)>> \o g[<<Tail(r), q>>]
      BY <2>1, <2>4, MergedFirst
    <3> QED BY <3>1, <3>5, <3>6, Consing
  <2>5. CASE r # <<>> /\ ~(q = <<>> \/ ~RidLess(Head(q), Head(r)))
    <3>1. Head(q) \in Rids /\ Tail(q) \in Seq(Rids) /\ Len(Tail(q)) = Len(q) - 1
      BY <2>5, HeadAndTail
    <3>2. <<r, Tail(q)>> \in ListPairs /\ <<r, Tail(q)>>[1] = r /\ <<r, Tail(q)>>[2] = Tail(q)
      BY <3>1 DEF ListPairs
    <3>3. m[<<r, Tail(q)>>] = Len(r) + Len(Tail(q))
      BY <1>1, <3>2
    <3>4. m[<<r, Tail(q)>>] < m[l]
      <4> HIDE DEF m
      <4> QED BY <2>2, <3>1, <3>3
    <3>5. f[<<r, Tail(q)>>] = g[<<r, Tail(q)>>] /\ f[<<r, Tail(q)>>] \in X
      BY <1>2, <3>2, <3>4
    <3>6. /\ Merged(l, f) = <<Head(q)>> \o f[<<r, Tail(q)>>]
          /\ Merged(l, g) = <<Head(q)>> \o g[<<r, Tail(q)>>]
      BY <2>1, <2>5, MergedSecond
    <3> QED BY <3>1, <3>5, <3>6, Consing
  <2> QED BY <2>3, <2>4, <2>5
<1>3. ASSUME NEW l \in ListPairs, NEW f \in [ListPairs -> X] PROVE Merged(l, f) \in X
  BY <1>2
<1>4. /\ G \in [ListPairs \X [ListPairs -> X] -> X]
      /\ \A l \in ListPairs, f \in [ListPairs -> X] : G[<<l, f>>] = Merged(l, f)
  BY <1>3
<1>5. \A l \in ListPairs : m[l] \in Nat
  BY <1>1
<1> HIDE DEF m, G
<1>6. LooksBelow(ListPairs, X, m, G)
  <2>1. ASSUME NEW l \in ListPairs, NEW f \in [ListPairs -> X], NEW g \in [ListPairs -> X],
               \A y \in ListPairs : m[y] < m[l] => f[y] = g[y]
        PROVE  G[<<l, f>>] = G[<<l, g>>]
    <3>1. Merged(l, f) = Merged(l, g)
      BY <1>2, <2>1
    <3> QED BY <1>4, <3>1
  <2> HIDE DEF X
  <2> QED BY <1>4, <2>1 DEF LooksBelow
<1>7. X # {}
  <2>1. <<>> \in X
    OBVIOUS
  <2> QED BY <2>1
<1>8. Solvable(ListPairs, X, G)
  <2> HIDE DEF X
  <2> QED BY <1>5, <1>6, <1>7, Recursion
<1>9. PICK f \in [ListPairs -> X] : \A l \in ListPairs : f[l] = G[<<l, f>>]
  BY <1>8 DEF Solvable
<1>10. f = [l \in ListPairs |-> Merged(l, f)]
  BY <1>4, <1>9
<1> HIDE DEF X
<1> QED BY <1>10 DEF Merge, Merged, ListPairs

JoinedBefore(n, q) ==
  \A a \in Seq(Rids) : Len(a) = n /\ Apart(a, q) => Merge[<<a, q>>] = a \o q

LEMMA MergeJoins ==
  ASSUME NEW r \in Seq(Rids), NEW q \in Seq(Rids), Apart(r, q)
  PROVE  Merge[<<r, q>>] = r \o q
<1> DEFINE S == {n \in Nat : JoinedBefore(n, q)}
<1>1. \A a \in Seq(Rids) : Merge[<<a, q>>] = Merged(<<a, q>>, Merge)
  BY MergeUnfolds DEF ListPairs
<1>2. 0 \in S
  <2>1. ASSUME NEW a \in Seq(Rids), Len(a) = 0 PROVE Merge[<<a, q>>] = a \o q
    <3>1. a = <<>> /\ a \o q = q
      BY <2>1
    <3>2. Merged(<<a, q>>, Merge) = q
      BY <3>1, MergedEmpty
    <3>3. Merge[<<a, q>>] = Merged(<<a, q>>, Merge)
      BY <1>1
    <3> QED BY <3>1, <3>2, <3>3
  <2> QED BY <2>1 DEF JoinedBefore
<1>3. ASSUME NEW n \in S PROVE n + 1 \in S
  <2>1. SUFFICES ASSUME NEW a \in Seq(Rids), Len(a) = n + 1, Apart(a, q)
                 PROVE  Merge[<<a, q>>] = a \o q
    <3>1. n + 1 \in Nat
      OBVIOUS
    <3> QED BY <3>1 DEF JoinedBefore
  <2>2. n \in Nat /\ a # <<>>
    BY <2>1
  <2> DEFINE t == Tail(a)
  <2>3. /\ Head(a) = a[1] /\ Head(a) \in Rids /\ t \in Seq(Rids) /\ Len(t) = n
        /\ \A i \in 1 .. n : t[i] = a[i + 1]
    <3>1. /\ Head(a) = a[1] /\ Head(a) \in Rids /\ Tail(a) \in Seq(Rids)
          /\ Len(Tail(a)) = Len(a) - 1
          /\ \A i \in 1 .. Len(a) - 1 : Tail(a)[i] = a[i + 1]
      BY <2>2, HeadAndTail
    <3>2. Len(a) - 1 = n
      BY <2>1, <2>2
    <3> QED BY <3>1, <3>2
  <2> HIDE DEF t
  <2>4. Apart(t, q)
    <3>1. \A i \in 1 .. n : i + 1 \in 1 .. n + 1
      BY <2>2
    <3> QED BY <2>1, <2>3, <3>1 DEF Apart
  <2>5. Merge[<<t, q>>] = t \o q
    BY <2>3, <2>4 DEF JoinedBefore
  <2>6. q = <<>> \/ ~RidLess(Head(q), Head(a))
    <3>1. SUFFICES ASSUME q # <<>> PROVE ~RidLess(Head(q), Head(a))
      OBVIOUS
    <3>2. Head(q) = q[1] /\ Head(q) \in Rids /\ Len(q) \in Nat \ {0}
      BY <3>1, HeadAndTail
    <3>3. 1 \in 1 .. Len(q) /\ 1 \in 1 .. Len(a)
      BY <2>1, <2>2, <3>2
    <3>4. RidLess(Head(a), Head(q))
      BY <2>1, <2>3, <3>2, <3>3 DEF Apart
    <3> QED BY <2>3, <3>2, <3>4, RidOrder
  <2>7. Merge[<<a, q>>] = <<Head(a)>> \o (t \o q)
    <3>1. Merge[<<a, q>>] = Merged(<<a, q>>, Merge)
      BY <1>1
    <3>2. Merged(<<a, q>>, Merge) = <<Head(a)>> \o Merge[<<Tail(a), q>>]
      BY <2>2, <2>6, MergedFirst
    <3> QED BY <2>5, <3>1, <3>2 DEF t
  <2>8. <<Head(a)>> \o (t \o q) = a \o q
    <3> DEFINE u == t \o q
               v == <<Head(a)>> \o u
               w == a \o q
    <3>1. /\ u \in Seq(Rids) /\ Len(u) = n + Len(q) /\ Len(q) \in Nat
          /\ \A i \in 1 .. n + Len(q) : u[i] = IF i <= n THEN t[i] ELSE q[i - n]
      BY <2>2, <2>3, Joining
    <3>2. /\ w \in Seq(Rids) /\ Len(w) = n + 1 + Len(q)
          /\ \A i \in 1 .. n + 1 + Len(q) : w[i] = IF i <= n + 1 THEN a[i] ELSE q[i - (n + 1)]
      <4>1. PICK k \in Nat : k = n + 1
        BY <2>2
      <4>2. /\ w \in Seq(Rids) /\ Len(w) = Len(a) + Len(q)
            /\ \A i \in 1 .. Len(a) + Len(q) : w[i] = IF i <= Len(a) THEN a[i] ELSE q[i - Len(a)]
        BY Joining
      <4> HIDE DEF u, v, w
      <4>3. Len(a) = k
        BY <2>1, <4>1
      <4>4. /\ w \in Seq(Rids) /\ Len(w) = k + Len(q)
            /\ \A i \in 1 .. k + Len(q) : w[i] = IF i <= k THEN a[i] ELSE q[i - k]
        BY <4>2, <4>3
      <4> QED BY <4>1, <4>4
    <3> HIDE DEF u, w
    <3>3. /\ v \in Seq(Rids) /\ Len(v) = Len(u) + 1 /\ v[1] = Head(a)
          /\ \A i \in 2 .. Len(u) + 1 : v[i] = u[i - 1]
      BY <2>3, <3>1, Consing
    <3> HIDE DEF v
    <3>4. Len(v) = Len(w)
      BY <2>2, <3>1, <3>2, <3>3
    <3>5. ASSUME NEW i \in 1 .. Len(v) PROVE v[i] = w[i]
      <4>1. i \in Nat /\ 1 <= i /\ i <= n + 1 + Len(q)
        BY <2>2, <3>1, <3>3, <3>5
      <4>2. CASE i = 1
        BY <2>2, <2>3, <3>2, <3>3, <4>1, <4>2
      <4>3. CASE i # 1 /\ i <= n + 1
        <5>1. i \in 2 .. Len(u) + 1 /\ i - 1 \in 1 .. n + Len(q) /\ i - 1 \in 1 .. n
              /\ (i - 1) + 1 = i /\ i - 1 <= n /\ i \in 1 .. n + 1 + Len(q)
          BY <2>2, <3>1, <4>1, <4>3
        <5>2. v[i] = u[i - 1] /\ u[i - 1] = t[i - 1] /\ t[i - 1] = a[(i - 1) + 1]
          BY <2>3, <3>1, <3>3, <5>1
        <5>3. w[i] = a[i]
          BY <3>2, <4>3, <5>1
        <5> QED BY <5>1, <5>2, <5>3
      <4>4. CASE i > n + 1
        <5>1. i \in 2 .. Len(u) + 1 /\ i - 1 \in 1 .. n + Len(q) /\ ~(i - 1 <= n)
              /\ (i - 1) - n = i - (n + 1) /\ ~(i <= n + 1) /\ i \in 1 .. n + 1 + Len(q)
          BY <2>2, <3>1, <4>1, <4>4
        <5>2. v[i] = u[i - 1] /\ u[i - 1] = q[(i - 1) - n]
          BY <3>1, <3>3, <5>1
        <5>3. w[i] = q[i - (n + 1)]
          BY <3>2, <5>1
        <5> QED BY <5>1, <5>2, <5>3
      <4>5. i = 1 \/ (i # 1 /\ i <= n + 1) \/ i > n + 1
        BY <2>2, <4>1
      <4> QED BY <4>2, <4>3, <4>4, <4>5
    <3>6. v = w
      BY <3>2, <3>3, <3>4, <3>5, SameSequence
    <3> QED BY <3>6 DEF u, v, w
  <2> QED BY <2>7, <2>8
<1>4. \A n \in Nat : n \in S
  <2>1. S \in SUBSET Nat
    OBVIOUS
  <2> HIDE DEF S
  <2> QED BY <1>2, <1>3, <2>1, Counting
<1>5. Len(r) \in Nat
  OBVIOUS
<1> QED BY <1>4, <1>5 DEF JoinedBefore

LEMMA MergeTyped ==
  ASSUME NEW r \in Seq(Rids), NEW q \in Seq(Rids)
  PROVE  Merge[<<r, q>>] \in Seq(Rids)
<1> DEFINE S == {n \in Nat : \A a, b \in Seq(Rids) : Len(a) + Len(b) = n => Merge[<<a, b>>] \in Seq(Rids)}
<1>1. \A a, b \in Seq(Rids) : Merge[<<a, b>>] = Merged(<<a, b>>, Merge)
  BY MergeUnfolds DEF ListPairs
<1>2. ASSUME NEW n \in Nat, \A k \in Nat : k < n => k \in S PROVE n \in S
  <2>1. SUFFICES ASSUME NEW a \in Seq(Rids), NEW b \in Seq(Rids), Len(a) + Len(b) = n
                 PROVE  Merge[<<a, b>>] \in Seq(Rids)
    OBVIOUS
  <2>2. Merge[<<a, b>>] = Merged(<<a, b>>, Merge)
    BY <1>1
  <2>3. Len(a) \in Nat /\ Len(b) \in Nat
    OBVIOUS
  <2>4. CASE a = <<>>
    BY <2>2, <2>4, MergedEmpty
  <2>5. CASE a # <<>> /\ (b = <<>> \/ ~RidLess(Head(b), Head(a)))
    <3>1. Head(a) \in Rids /\ Tail(a) \in Seq(Rids) /\ Len(Tail(a)) = Len(a) - 1 /\ Len(a) \in Nat \ {0}
      BY <2>5, HeadAndTail
    <3>2. Len(Tail(a)) + Len(b) \in Nat /\ Len(Tail(a)) + Len(b) < n
      BY <2>1, <2>3, <3>1
    <3>3. Merge[<<Tail(a), b>>] \in Seq(Rids)
      BY <1>2, <3>1, <3>2
    <3>4. Merged(<<a, b>>, Merge) = <<Head(a)>> \o Merge[<<Tail(a), b>>]
      BY <2>5, MergedFirst
    <3> QED BY <2>2, <3>1, <3>3, <3>4, ConsTyped
  <2>6. CASE a # <<>> /\ ~(b = <<>> \/ ~RidLess(Head(b), Head(a)))
    <3>1. Head(b) \in Rids /\ Tail(b) \in Seq(Rids) /\ Len(Tail(b)) = Len(b) - 1 /\ Len(b) \in Nat \ {0}
      BY <2>6, HeadAndTail
    <3>2. Len(a) + Len(Tail(b)) \in Nat /\ Len(a) + Len(Tail(b)) < n
      BY <2>1, <2>3, <3>1
    <3>3. Merge[<<a, Tail(b)>>] \in Seq(Rids)
      BY <1>2, <3>1, <3>2
    <3>4. Merged(<<a, b>>, Merge) = <<Head(b)>> \o Merge[<<a, Tail(b)>>]
      BY <2>6, MergedSecond
    <3> QED BY <2>2, <3>1, <3>3, <3>4, ConsTyped
  <2> QED BY <2>4, <2>5, <2>6
<1>3. \A n \in Nat : n \in S
  <2>1. S \in SUBSET Nat
    OBVIOUS
  <2> HIDE DEF S
  <2> QED BY <1>2, <2>1, CourseOfValues
<1>4. Len(r) + Len(q) \in Nat
  <2>1. Len(r) \in Nat /\ Len(q) \in Nat
    OBVIOUS
  <2> QED BY <2>1
<1> QED BY <1>3, <1>4

LEMMA Parts ==
  ASSUME NEW E, NEW s \in Seq(E), NEW a \in Nat \ {0}, NEW b \in Nat, a <= b + 1, b <= Len(s)
  PROVE  /\ SubSeq(s, a, b) \in Seq(E) /\ Len(SubSeq(s, a, b)) = b - a + 1
         /\ \A i \in 1 .. b - a + 1 : SubSeq(s, a, b)[i] = s[a + i - 1]
OBVIOUS

Half(r, f) ==
  LET mid == Len(r) \div 2
  IN Merge[<<f[SubSeq(r, 1, mid)], f[SubSeq(r, mid + 1, Len(r))]>>]

HalvesOf(r, mid, a, b) ==
  /\ mid = Len(r) \div 2 /\ a = SubSeq(r, 1, mid) /\ b = SubSeq(r, mid + 1, Len(r))
  /\ 1 <= mid /\ mid < Len(r) /\ Len(a) = mid /\ Len(b) = Len(r) - mid
  /\ \A i \in 1 .. mid : a[i] = r[i]
  /\ \A i \in 1 .. Len(r) - mid : b[i] = r[i + mid]

LEMMA Halves ==
  ASSUME NEW r \in Seq(Rids), Len(r) > 1
  PROVE  \E mid \in Nat, a, b \in Seq(Rids) : HalvesOf(r, mid, a, b)
<1>1. PICK n \in Nat : n = Len(r)
  OBVIOUS
<1>2. PICK mid \in Nat : mid = n \div 2 /\ 1 <= mid /\ mid < n
  BY <1>1
<1>3. PICK a : a = SubSeq(r, 1, mid)
  OBVIOUS
<1>4. PICK b : b = SubSeq(r, mid + 1, n)
  OBVIOUS
<1>5. mid + 1 \in Nat \ {0} /\ 1 <= mid + 1 /\ mid <= n /\ mid + 1 <= n + 1
      /\ mid - 1 + 1 = mid /\ n - (mid + 1) + 1 = n - mid
  BY <1>2
<1>6. /\ a \in Seq(Rids) /\ Len(a) = mid - 1 + 1
      /\ \A i \in 1 .. mid - 1 + 1 : a[i] = r[1 + i - 1]
  BY <1>1, <1>3, <1>5, Parts
<1>7. /\ b \in Seq(Rids) /\ Len(b) = n - (mid + 1) + 1
      /\ \A i \in 1 .. n - (mid + 1) + 1 : b[i] = r[mid + 1 + i - 1]
  BY <1>1, <1>4, <1>5, Parts
<1>8. Len(a) = mid /\ \A i \in 1 .. mid : a[i] = r[i]
  BY <1>2, <1>6
<1>9. Len(b) = n - mid /\ \A i \in 1 .. n - mid : b[i] = r[i + mid]
  BY <1>2, <1>7
<1>10. HalvesOf(r, mid, a, b)
  BY <1>1, <1>2, <1>3, <1>4, <1>8, <1>9 DEF HalvesOf
<1> QED BY <1>2, <1>6, <1>7, <1>10

LEMMA SortUnfolds == Sort = [r \in Seq(Rids) |-> IF Len(r) <= 1 THEN r ELSE Half(r, Sort)]
<1> DEFINE X == Seq(Rids)
           body(r, f) == IF Len(r) <= 1 THEN r ELSE Half(r, f)
           m == [r \in X |-> Len(r)]
           G == [p \in X \X [X -> X] |-> body(p[1], p[2])]
<1>1. \A r \in X : m[r] \in Nat /\ m[r] = Len(r)
  OBVIOUS
<1>2. ASSUME NEW r \in X, NEW f \in [X -> X], NEW g \in [X -> X],
             \A y \in X : m[y] < m[r] => f[y] = g[y]
      PROVE  body(r, f) \in X /\ body(r, f) = body(r, g)
  <2>0. Len(r) \in Nat
    OBVIOUS
  <2>1. CASE Len(r) <= 1
    BY <2>1
  <2>2. CASE ~(Len(r) <= 1)
    <3>1. Len(r) > 1
      BY <2>0, <2>2
    <3>0. PICK mid \in Nat, a \in X, b \in X : HalvesOf(r, mid, a, b)
      BY <3>1, Halves
    <3>2. /\ mid = Len(r) \div 2 /\ a = SubSeq(r, 1, mid) /\ b = SubSeq(r, mid + 1, Len(r))
          /\ 1 <= mid /\ mid < Len(r) /\ Len(a) = mid /\ Len(b) = Len(r) - mid
      BY <3>0 DEF HalvesOf
    <3>3. m[a] < m[r] /\ m[b] < m[r]
      <4>1. Len(a) < Len(r) /\ Len(b) < Len(r)
        BY <2>0, <3>2
      <4>2. m[a] = Len(a) /\ m[b] = Len(b) /\ m[r] = Len(r)
        BY <1>1
      <4> QED BY <4>1, <4>2, Zenon
    <3>4. f[a] = g[a] /\ f[b] = g[b] /\ f[a] \in X /\ f[b] \in X
      BY <1>2, <3>3
    <3>5. Half(r, f) = Merge[<<f[a], f[b]>>] /\ Half(r, g) = Merge[<<g[a], g[b]>>]
      BY <3>2 DEF Half
    <3>6. Merge[<<f[a], f[b]>>] \in X
      BY <3>4, MergeTyped
    <3> QED BY <2>2, <3>4, <3>5, <3>6
  <2> QED BY <2>1, <2>2
<1>3. ASSUME NEW r \in X, NEW f \in [X -> X] PROVE body(r, f) \in X
  BY <1>2
<1> HIDE DEF body
<1>4. /\ G \in [X \X [X -> X] -> X]
      /\ \A r \in X, f \in [X -> X] : G[<<r, f>>] = body(r, f)
  BY <1>3
<1> HIDE DEF m, G
<1>5. LooksBelow(X, X, m, G)
  <2>1. ASSUME NEW r \in X, NEW f \in [X -> X], NEW g \in [X -> X],
               \A y \in X : m[y] < m[r] => f[y] = g[y]
        PROVE  G[<<r, f>>] = G[<<r, g>>]
    <3>1. body(r, f) = body(r, g)
      BY <1>2, <2>1
    <3> QED BY <1>4, <3>1
  <2> HIDE DEF X
  <2> QED BY <1>4, <2>1 DEF LooksBelow
<1>6. X # {}
  <2>1. <<>> \in X
    OBVIOUS
  <2> QED BY <2>1
<1>7. Solvable(X, X, G)
  <2>1. \A r \in X : m[r] \in Nat
    BY <1>1
  <2> HIDE DEF X
  <2> QED BY <2>1, <1>5, <1>6, Recursion
<1>8. PICK f \in [X -> X] : \A r \in X : f[r] = G[<<r, f>>]
  BY <1>7 DEF Solvable
<1>9. f = [r \in X |-> body(r, f)]
  BY <1>4, <1>8
<1> QED BY <1>9 DEF Sort, Half, body

LEMMA SortKeeps ==
  ASSUME NEW list, Ascending(list)
  PROVE  Sort[list] = list
<1> DEFINE S == {n \in Nat : \A r \in Seq(Rids) : Len(r) = n /\ Ascending(r) => Sort[r] = r}
<1>1. ASSUME NEW n \in Nat, \A k \in Nat : k < n => k \in S PROVE n \in S
  <2>1. SUFFICES ASSUME NEW r \in Seq(Rids), Len(r) = n, Ascending(r) PROVE Sort[r] = r
    OBVIOUS
  <2>2. Sort[r] = IF Len(r) <= 1 THEN r ELSE Half(r, Sort)
    BY SortUnfolds
  <2>3. CASE Len(r) <= 1
    BY <2>2, <2>3
  <2>4. CASE ~(Len(r) <= 1)
    <3>1. Len(r) > 1
      BY <2>1, <2>4
    <3>0. PICK mid \in Nat, a \in Seq(Rids), b \in Seq(Rids) : HalvesOf(r, mid, a, b)
      BY <3>1, Halves
    <3>2. /\ mid = Len(r) \div 2 /\ a = SubSeq(r, 1, mid) /\ b = SubSeq(r, mid + 1, Len(r))
          /\ 1 <= mid /\ mid < Len(r) /\ Len(a) = mid /\ Len(b) = Len(r) - mid
          /\ \A i \in 1 .. mid : a[i] = r[i]
          /\ \A i \in 1 .. Len(r) - mid : b[i] = r[i + mid]
      BY <3>0 DEF HalvesOf
    <3>3. mid < n /\ n - mid < n /\ n - mid \in Nat /\ Len(a) = mid /\ Len(b) = n - mid
      BY <2>1, <3>2
    <3>4. Ascending(a)
      <4>1. \A i \in 1 .. mid : i \in 1 .. Len(r)
        BY <2>1, <3>3
      <4> QED BY <2>1, <3>2, <4>1 DEF Ascending
    <3>5. \A i \in 1 .. n - mid : i + mid \in 1 .. Len(r) /\ b[i] = r[i + mid]
      BY <2>1, <3>2, <3>3
    <3>6. Ascending(b)
      <4>1. \A i, j \in 1 .. n - mid : i < j => i + mid < j + mid
        BY <3>3
      <4> QED BY <2>1, <3>3, <3>5, <4>1 DEF Ascending
    <3>7. Apart(a, b)
      <4>1. ASSUME NEW i \in 1 .. mid, NEW j \in 1 .. n - mid PROVE RidLess(a[i], b[j])
        <5>1. i < j + mid /\ i \in 1 .. Len(r) /\ j + mid \in 1 .. Len(r)
          BY <2>1, <3>3
        <5>2. RidLess(r[i], r[j + mid])
          BY <2>1, <5>1 DEF Ascending
        <5> QED BY <3>2, <3>5, <5>2
      <4> QED BY <3>3, <4>1 DEF Apart
    <3>8. Sort[a] = a /\ Sort[b] = b
      BY <1>1, <3>3, <3>4, <3>6
    <3>9. Sort[r] = Merge[<<a, b>>]
      BY <2>2, <2>4, <3>2, <3>8 DEF Half
    <3>10. Merge[<<a, b>>] = a \o b
      BY <3>7, MergeJoins
    <3>11. a \o b = r
      <4> DEFINE w == a \o b
      <4>1. /\ w \in Seq(Rids) /\ Len(w) = Len(a) + Len(b)
            /\ \A i \in 1 .. Len(a) + Len(b) : w[i] = IF i <= Len(a) THEN a[i] ELSE b[i - Len(a)]
        BY Joining
      <4> HIDE DEF w
      <4>2. Len(a) + Len(b) = n
        BY <3>3
      <4>3. /\ Len(w) = n
            /\ \A i \in 1 .. n : w[i] = IF i <= mid THEN a[i] ELSE b[i - mid]
        BY <3>3, <4>1, <4>2
      <4>4. ASSUME NEW i \in 1 .. n PROVE w[i] = r[i]
        <5>1. CASE i <= mid
          <6>1. i \in 1 .. mid
            BY <5>1
          <6>2. w[i] = a[i] /\ a[i] = r[i]
            BY <3>2, <4>3, <5>1, <6>1
          <6> QED BY <6>2
        <5>2. CASE ~(i <= mid)
          <6>1. i - mid \in 1 .. n - mid /\ (i - mid) + mid = i
            BY <3>3, <5>2
          <6>2. b[i - mid] = r[i]
            BY <3>5, <6>1
          <6> QED BY <4>3, <5>2, <6>2
        <5> QED BY <5>1, <5>2
      <4>5. w = r
        BY <2>1, <4>1, <4>3, <4>4, SameSequence
      <4> QED BY <4>5 DEF w
    <3> QED BY <3>9, <3>10, <3>11
  <2> QED BY <2>3, <2>4
<1>2. \A n \in Nat : n \in S
  <2>1. S \in SUBSET Nat
    OBVIOUS
  <2> HIDE DEF S
  <2> QED BY <1>1, <2>1, CourseOfValues
<1>3. Len(list) \in Nat /\ list \in Seq(Rids)
  BY DEF Ascending
<1> QED BY <1>2, <1>3

-----------------------------------------------------------------------------
(* What the station index finds. *)

ScanFrom(station, f, n) ==
  IF station_index[n][1] # station THEN <<>>
  ELSE <<station_index[n][2]>> \o (IF n = Len(station_index) THEN <<>> ELSE f[n + 1])

NotBelow(station) ==
  {n \in 1 .. Len(station_index) : ~KeyLess(station_index[n], <<station, RidMin>>)}

ScansWith(station, scan) ==
  /\ scan = [n \in 1 .. Len(station_index) |-> ScanFrom(station, scan, n)]
  /\ FetchTrainInfoStation(station) =
       IF NotBelow(station) = {} THEN <<>> ELSE Sort[scan[Min(NotBelow(station))]]

LEMMA ScanRuns ==
  ASSUME Sorted(station_index), NEW station
  PROVE  \E scan : ScansWith(station, scan)
<1> DEFINE last == Len(station_index)
           D == 1 .. last
           X == Seq(Rids)
           m == [n \in D |-> last - n]
           G == [p \in D \X [D -> X] |-> ScanFrom(station, p[2], p[1])]
<1>1. /\ last \in Nat
      /\ \A n \in D : station_index[n][2] \in Rids
  <2>1. station_index \in Seq(StationKeys)
    BY DEF Sorted
  <2>2. \A n \in D : station_index[n] \in StationKeys
    BY <2>1
  <2> QED BY <2>1, <2>2 DEF StationKeys
<1>2. ASSUME NEW n \in D PROVE m[n] \in Nat /\ m[n] = last - n
  <2>1. n \in Nat /\ n <= last
    BY <1>1
  <2>2. last - n \in Nat
    BY <1>1, <2>1
  <2>3. m[n] = last - n
    OBVIOUS
  <2> HIDE DEF m
  <2> QED BY <2>2, <2>3, Zenon
<1>3. ASSUME NEW n \in D, NEW f \in [D -> X], NEW g \in [D -> X],
             \A y \in D : m[y] < m[n] => f[y] = g[y]
      PROVE  ScanFrom(station, f, n) \in X /\ ScanFrom(station, f, n) = ScanFrom(station, g, n)
  <2>1. CASE station_index[n][1] # station
    BY <2>1 DEF ScanFrom
  <2>2. CASE station_index[n][1] = station /\ n = last
    <3>1. /\ ScanFrom(station, f, n) = <<station_index[n][2]>> \o <<>>
          /\ ScanFrom(station, g, n) = <<station_index[n][2]>> \o <<>>
      BY <2>2 DEF ScanFrom
    <3>2. station_index[n][2] \in Rids /\ <<>> \in Seq(Rids)
      BY <1>1
    <3> QED BY <3>1, <3>2, ConsTyped
  <2>3. CASE station_index[n][1] = station /\ n # last
    <3>1. n + 1 \in D /\ last - (n + 1) < last - n
      BY <1>1, <2>3
    <3>2. m[n + 1] < m[n]
      BY <1>2, <3>1
    <3>3. f[n + 1] = g[n + 1] /\ f[n + 1] \in Seq(Rids)
      BY <1>3, <3>1, <3>2
    <3>4. /\ ScanFrom(station, f, n) = <<station_index[n][2]>> \o f[n + 1]
          /\ ScanFrom(station, g, n) = <<station_index[n][2]>> \o g[n + 1]
      BY <2>3 DEF ScanFrom
    <3>5. station_index[n][2] \in Rids
      BY <1>1
    <3>6. <<station_index[n][2]>> \o f[n + 1] \in Seq(Rids)
      BY <3>3, <3>5, ConsTyped
    <3> QED BY <3>3, <3>4, <3>6
  <2> QED BY <2>1, <2>2, <2>3
<1>4. ASSUME NEW n \in D, NEW f \in [D -> X] PROVE ScanFrom(station, f, n) \in X
  BY <1>3
<1>5. /\ G \in [D \X [D -> X] -> X]
      /\ \A n \in D, f \in [D -> X] : G[<<n, f>>] = ScanFrom(station, f, n)
  BY <1>4
<1> HIDE DEF m, G
<1>6. LooksBelow(D, X, m, G)
  <2>1. ASSUME NEW n \in D, NEW f \in [D -> X], NEW g \in [D -> X],
               \A y \in D : m[y] < m[n] => f[y] = g[y]
        PROVE  G[<<n, f>>] = G[<<n, g>>]
    <3>1. ScanFrom(station, f, n) = ScanFrom(station, g, n)
      BY <1>3, <2>1
    <3> QED BY <1>5, <3>1
  <2> HIDE DEF X, D
  <2> QED BY <1>5, <2>1 DEF LooksBelow
<1>7. X # {}
  <2>1. <<>> \in X
    OBVIOUS
  <2> QED BY <2>1
<1>8. Solvable(D, X, G)
  <2>1. \A n \in D : m[n] \in Nat
    BY <1>2
  <2> HIDE DEF X, D
  <2> QED BY <2>1, <1>6, <1>7, Recursion
<1>9. PICK f \in [D -> X] : \A n \in D : f[n] = G[<<n, f>>]
  BY <1>8 DEF Solvable
<1>10. f = [n \in D |-> ScanFrom(station, f, n)]
  BY <1>5, <1>9
<1> DEFINE scan == CHOOSE g : g = [n \in D |-> ScanFrom(station, g, n)]
<1>11. scan = [n \in D |-> ScanFrom(station, scan, n)]
  BY <1>10
<1>12. FetchTrainInfoStation(station) =
         IF NotBelow(station) = {} THEN <<>> ELSE Sort[scan[Min(NotBelow(station))]]
  BY DEF FetchTrainInfoStation, ScanFrom, NotBelow
<1> QED BY <1>11, <1>12 DEF ScansWith

\* The list holds the trains the index has under the station from position n on.
FoundFrom(station, n, list) ==
  /\ Ascending(list)
  /\ \A r \in Rids : r \in Range(list)
                       <=> \E j \in n .. Len(station_index) : station_index[j] = <<station, r>>

LEMMA LaterStations ==
  ASSUME Sorted(station_index), NEW i \in 1 .. Len(station_index),
         NEW j \in 1 .. Len(station_index), i < j
  PROVE  /\ station_index[i] \in StationKeys /\ station_index[j] \in StationKeys
         /\ station_index[i][1] <= station_index[j][1]
         /\ station_index[i][1] = station_index[j][1]
              => RidLess(station_index[i][2], station_index[j][2])
<1>1. station_index[i] \in StationKeys /\ station_index[j] \in StationKeys
  BY DEF Sorted
<1>2. KeyLess(station_index[i], station_index[j])
  BY DEF Sorted
<1>3. station_index[i][1] \in Nat /\ station_index[j][1] \in Nat
  BY <1>1 DEF StationKeys
<1> QED BY <1>1, <1>2, <1>3 DEF KeyLess

LEMMA AscendingCons ==
  ASSUME NEW r \in Rids, NEW list, Ascending(list), \A q \in Range(list) : RidLess(r, q)
  PROVE  Ascending(<<r>> \o list) /\ Range(<<r>> \o list) = Range(list) \cup {r}
<1> DEFINE new == <<r>> \o list
<1>1. /\ new \in Seq(Rids) /\ Len(new) = Len(list) + 1 /\ Len(list) \in Nat /\ new[1] = r
      /\ \A i \in 2 .. Len(list) + 1 : new[i] = list[i - 1]
  BY Consing DEF Ascending
<1>2. list \in Seq(Rids) /\ DOMAIN list = 1 .. Len(list)
  BY DEF Ascending
<1>3. DOMAIN new = 1 .. Len(list) + 1
  BY <1>1
<1> HIDE DEF new
<1>4. ASSUME NEW i \in 1 .. Len(new), NEW j \in 1 .. Len(new), i < j PROVE RidLess(new[i], new[j])
  <2>1. j \in 2 .. Len(list) + 1 /\ j - 1 \in 1 .. Len(list) /\ new[j] = list[j - 1]
    BY <1>1, <1>4
  <2>2. CASE i = 1
    BY <1>1, <1>2, <2>1, <2>2 DEF Range
  <2>3. CASE i # 1
    <3>1. i \in 2 .. Len(list) + 1 /\ i - 1 \in 1 .. Len(list) /\ i - 1 < j - 1
      BY <1>1, <1>4, <2>3
    <3>2. new[i] = list[i - 1]
      BY <1>1, <3>1
    <3> QED BY <2>1, <3>1, <3>2 DEF Ascending
  <2> QED BY <2>2, <2>3
<1>5. ASSUME NEW x \in Range(new) PROVE x \in Range(list) \cup {r}
  <2>1. PICK i \in 1 .. Len(list) + 1 : x = new[i]
    BY <1>3, <1>5 DEF Range
  <2>2. CASE i = 1
    BY <1>1, <2>1, <2>2
  <2>3. CASE i # 1
    <3>1. i \in 2 .. Len(list) + 1 /\ i - 1 \in 1 .. Len(list)
      BY <1>1, <2>3
    <3>2. x = list[i - 1]
      BY <1>1, <2>1, <3>1
    <3> QED BY <1>2, <3>1, <3>2 DEF Range
  <2> QED BY <2>2, <2>3
<1>6. r \in Range(new)
  <2>1. 1 \in DOMAIN new
    BY <1>1, <1>3
  <2> QED BY <1>1, <2>1 DEF Range
<1>7. ASSUME NEW x \in Range(list) PROVE x \in Range(new)
  <2>1. PICK i \in 1 .. Len(list) : x = list[i]
    BY <1>2, <1>7 DEF Range
  <2>2. i + 1 \in 2 .. Len(list) + 1 /\ (i + 1) - 1 = i /\ i + 1 \in DOMAIN new
    BY <1>1, <1>3
  <2>3. new[i + 1] = list[(i + 1) - 1]
    BY <1>1, <2>2
  <2> QED BY <2>1, <2>2, <2>3 DEF Range
<1>8. Ascending(new)
  BY <1>1, <1>4 DEF Ascending
<1>9. Range(new) = Range(list) \cup {r}
  BY <1>5, <1>6, <1>7
<1> QED BY <1>8, <1>9 DEF new

LEMMA EmptyList == Ascending(<<>>) /\ Range(<<>>) = {}
BY DEF Ascending, Range

LEMMA ScanFinds ==
  ASSUME Sorted(station_index), NEW station \in Nat, NEW scan, ScansWith(station, scan),
         NEW n \in 1 .. Len(station_index), station_index[n][1] >= station
  PROVE  FoundFrom(station, n, scan[n])
<1> DEFINE last == Len(station_index)
           S == {d \in Nat : d < last /\ station_index[last - d][1] >= station
                               => FoundFrom(station, last - d, scan[last - d])}
<1>1. /\ last \in Nat /\ \A i \in 1 .. last : station_index[i] \in StationKeys
  BY DEF Sorted
<1>2. \A i \in 1 .. last : scan[i] = ScanFrom(station, scan, i)
  BY DEF ScansWith
<1>3. \A i \in 1 .. last : station_index[i][1] \in Nat /\ station_index[i][2] \in Rids
                            /\ station_index[i] = <<station_index[i][1], station_index[i][2]>>
  BY <1>1 DEF StationKeys
<1>4. ASSUME NEW i \in 1 .. last, station_index[i][1] >= station,
             i # last /\ station_index[i][1] = station => FoundFrom(station, i + 1, scan[i + 1])
      PROVE  FoundFrom(station, i, scan[i])
  <2>1. i \in Nat /\ i <= last /\ i \in i .. last
    BY <1>1
  <2>2. CASE station_index[i][1] # station
    <3>1. scan[i] = <<>>
      BY <1>2, <2>2 DEF ScanFrom
    <3>2. ASSUME NEW r \in Rids, NEW j \in i .. last, station_index[j] = <<station, r>> PROVE FALSE
      <4>1. station_index[j][1] = station /\ j \in 1 .. last
        BY <1>1, <3>2
      <4>2. CASE j = i
        BY <2>2, <4>1, <4>2
      <4>3. CASE j # i
        <5>1. i < j
          BY <1>1, <4>3
        <5>2. station_index[i][1] <= station_index[j][1]
          BY <4>1, <5>1, LaterStations
        <5> QED BY <1>3, <1>4, <2>2, <4>1, <5>2
      <4> QED BY <4>2, <4>3
    <3> QED BY <3>1, <3>2, EmptyList DEF FoundFrom
  <2>3. CASE station_index[i][1] = station /\ i = last
    <3>1. scan[i] = <<station_index[i][2]>> \o <<>>
      BY <1>2, <2>3 DEF ScanFrom
    <3>2. Ascending(scan[i]) /\ Range(scan[i]) = {station_index[i][2]}
      <4>1. PICK e : e = <<>>
        OBVIOUS
      <4>2. Ascending(e) /\ \A q \in Range(e) : RidLess(station_index[i][2], q)
        BY <4>1, EmptyList
      <4>3. /\ Ascending(<<station_index[i][2]>> \o e)
            /\ Range(<<station_index[i][2]>> \o e) = Range(e) \cup {station_index[i][2]}
        BY <1>3, <4>2, AscendingCons
      <4> QED BY <3>1, <4>1, <4>3, EmptyList
    <3>3. i .. last = {i}
      BY <1>1, <2>3
    <3>4. station_index[i] = <<station, station_index[i][2]>>
      BY <1>3, <2>3
    <3>5. ASSUME NEW r \in Rids
          PROVE  r \in Range(scan[i]) <=> \E j \in i .. last : station_index[j] = <<station, r>>
      BY <3>2, <3>3, <3>4
    <3> QED BY <3>2, <3>5 DEF FoundFrom
  <2>4. CASE station_index[i][1] = station /\ i # last
    <3>1. scan[i] = <<station_index[i][2]>> \o scan[i + 1]
      BY <1>2, <2>4 DEF ScanFrom
    <3>2. FoundFrom(station, i + 1, scan[i + 1])
      BY <1>4, <2>4
    <3>3. station_index[i] = <<station, station_index[i][2]>> /\ station_index[i][2] \in Rids
      BY <1>3, <2>4
    <3>4. i + 1 \in 1 .. last /\ i .. last = {i} \cup (i + 1 .. last)
      BY <1>1, <2>1, <2>4
    <3>5. ASSUME NEW q \in Range(scan[i + 1]) PROVE RidLess(station_index[i][2], q)
      <4>1. q \in Rids
        BY <3>2 DEF FoundFrom, Ascending, Range
      <4>2. PICK j \in i + 1 .. last : station_index[j] = <<station, q>>
        BY <3>2, <3>5, <4>1 DEF FoundFrom
      <4>3. j \in 1 .. last /\ i < j
        BY <1>1, <2>1
      <4> QED BY <2>4, <4>2, <4>3, LaterStations
    <3>6. /\ Ascending(scan[i])
          /\ Range(scan[i]) = Range(scan[i + 1]) \cup {station_index[i][2]}
      BY <3>1, <3>2, <3>3, <3>5, AscendingCons DEF FoundFrom
    <3>7. ASSUME NEW r \in Rids
          PROVE  r \in Range(scan[i]) <=> \E j \in i .. last : station_index[j] = <<station, r>>
      <4>1. r \in Range(scan[i + 1]) <=> \E j \in i + 1 .. last : station_index[j] = <<station, r>>
        BY <3>2 DEF FoundFrom
      <4>2. r = station_index[i][2] <=> station_index[i] = <<station, r>>
        BY <3>3
      <4> QED BY <3>4, <3>6, <4>1, <4>2
    <3> QED BY <3>6, <3>7 DEF FoundFrom
  <2> QED BY <2>2, <2>3, <2>4
<1>5. 0 \in S
  <2>1. ASSUME 0 < last, station_index[last - 0][1] >= station
        PROVE  FoundFrom(station, last - 0, scan[last - 0])
    <3>1. last - 0 = last /\ last \in 1 .. last
      BY <1>1, <2>1
    <3> QED BY <1>4, <2>1, <3>1
  <2> QED BY <2>1
<1>6. ASSUME NEW d \in S PROVE d + 1 \in S
  <2>1. d \in Nat
    OBVIOUS
  <2>2. ASSUME d + 1 < last, station_index[last - (d + 1)][1] >= station
        PROVE  FoundFrom(station, last - (d + 1), scan[last - (d + 1)])
    <3>1. PICK i \in 1 .. last : i = last - (d + 1)
      BY <1>1, <2>1, <2>2
    <3>2. i + 1 = last - d /\ i + 1 \in 1 .. last /\ i < i + 1 /\ d < last
      BY <1>1, <2>1, <2>2, <3>1
    <3>3. station_index[i][1] >= station
      BY <2>2, <3>1
    <3>4. station_index[i][1] <= station_index[i + 1][1]
      BY <3>2, LaterStations
    <3>5. station_index[i + 1][1] >= station
      BY <1>3, <3>2, <3>3, <3>4
    <3>6. FoundFrom(station, i + 1, scan[i + 1])
      BY <3>2, <3>5
    <3>7. FoundFrom(station, i, scan[i])
      BY <1>4, <3>3, <3>6
    <3> QED BY <3>1, <3>7
  <2> QED BY <2>1, <2>2
<1>7. \A d \in Nat : d \in S
  <2>1. S \in SUBSET Nat
    OBVIOUS
  <2> HIDE DEF S
  <2> QED BY <1>5, <1>6, <2>1, Counting
<1>8. PICK d \in Nat : d = last - n /\ d < last /\ last - d = n
  <2>1. n \in Nat /\ 1 <= n /\ n <= last
    BY <1>1
  <2>2. last - n \in Nat /\ last - n < last /\ last - (last - n) = n
    BY <1>1, <2>1
  <2> QED BY <2>2
<1>9. d \in S
  BY <1>7
<1> QED BY <1>8, <1>9

\* FetchTrainInfoStation lists the trains the index has under the station, in order.
Fetched(station, list) ==
  /\ Ascending(list)
  /\ \A r \in Rids : r \in Range(list) <=> <<station, r>> \in Range(station_index)

LEMMA FetchFinds ==
  ASSUME Sorted(station_index), NEW station \in Nat
  PROVE  Fetched(station, FetchTrainInfoStation(station))
<1> DEFINE last == Len(station_index)
           from == NotBelow(station)
<1>1. PICK scan : ScansWith(station, scan)
  BY ScanRuns
<1>2. /\ station_index \in Seq(StationKeys) /\ last \in Nat /\ DOMAIN station_index = 1 .. last
  BY DEF Sorted
<1>3. \A i \in 1 .. last : station_index[i][1] \in Nat /\ station_index[i][2] \in Rids
  BY <1>2 DEF StationKeys
<1>4. ASSUME NEW i \in 1 .. last PROVE i \in from <=> station_index[i][1] >= station
  <2>1. station_index[i][1] \in Nat /\ station_index[i][2][1] \in Nat
    BY <1>3 DEF Rids
  <2>2. ~RidLess(station_index[i][2], RidMin)
    BY <2>1 DEF RidLess, RidMin
  <2>3. KeyLess(station_index[i], <<station, RidMin>>) <=> station_index[i][1] < station
    BY <2>2 DEF KeyLess
  <2> QED BY <2>1, <2>3 DEF NotBelow
<1>5. ASSUME NEW r \in Rids
      PROVE  <<station, r>> \in Range(station_index)
               <=> \E j \in 1 .. last : station_index[j] = <<station, r>>
  BY <1>2 DEF Range
<1>6. CASE from = {}
  <2>1. FetchTrainInfoStation(station) = <<>>
    BY <1>1, <1>6 DEF ScansWith
  <2>2. ASSUME NEW r \in Rids, NEW j \in 1 .. last, station_index[j] = <<station, r>> PROVE FALSE
    <3>1. station_index[j][1] = station
      BY <2>2
    <3> QED BY <1>4, <1>6, <3>1
  <2> QED BY <1>5, <2>1, <2>2, EmptyList DEF Fetched
<1>7. CASE from # {}
  <2> DEFINE n == Min(from)
  <2>1. from \in SUBSET (1 .. last) /\ from \in SUBSET Nat
    BY DEF NotBelow
  <2>2. n \in from /\ \A i \in from : n <= i
    BY <1>7, <2>1, MinOfSome
  <2> HIDE DEF n
  <2>3. n \in 1 .. last /\ station_index[n][1] >= station
    BY <1>4, <2>1, <2>2
  <2>4. FoundFrom(station, n, scan[n])
    BY <1>1, <2>3, ScanFinds
  <2>5. FetchTrainInfoStation(station) = scan[n]
    <3>1. FetchTrainInfoStation(station) = Sort[scan[n]]
      BY <1>1, <1>7 DEF ScansWith, n
    <3> QED BY <2>4, <3>1, SortKeeps DEF FoundFrom
  <2>6. ASSUME NEW r \in Rids
        PROVE  r \in Range(scan[n]) <=> <<station, r>> \in Range(station_index)
    <3>1. ASSUME NEW j \in 1 .. last, station_index[j] = <<station, r>> PROVE j \in n .. last
      <4>1. station_index[j][1] = station
        BY <3>1
      <4>2. n <= j
        BY <1>4, <2>2, <4>1
      <4> QED BY <1>2, <2>3, <4>2
    <3>2. r \in Range(scan[n]) <=> \E j \in n .. last : station_index[j] = <<station, r>>
      BY <2>4 DEF FoundFrom
    <3>3. n .. last \subseteq 1 .. last
      BY <1>2, <2>3
    <3> QED BY <1>5, <3>1, <3>2, <3>3
  <2> QED BY <2>4, <2>5, <2>6 DEF Fetched, FoundFrom
<1> QED BY <1>6, <1>7

-----------------------------------------------------------------------------
(* The walk down two train lists. *)

Skipped(second, place, rid) ==
  Min({n \in place .. Len(second) + 1 : n > Len(second) \/ ~RidLess(second[n], rid)})

Walked(second, walk, rid) ==
  LET place == Skipped(second, walk.pos, rid)
  IN [pos |-> place,
      found |-> IF place <= Len(second) /\ second[place] = rid
                THEN Append(walk.found, rid) ELSE walk.found]

WalkStart == [pos |-> 1, found |-> <<>>]

WalkFrom(first, second, f, s) ==
  IF s = {} THEN WalkStart ELSE Walked(second, f[s \ {Max(s)}], first[Max(s)])

Walks(second) == [pos : 1 .. Len(second) + 1, found : Seq(Rids)]

\* Where the walk stops for a train: all before it are less than the train.
StopsFor(second, place, rid, stop) ==
  /\ stop \in place .. Len(second) + 1
  /\ stop <= Len(second) => ~RidLess(second[stop], rid)
  /\ \A j \in place .. stop - 1 : j <= Len(second) /\ RidLess(second[j], rid)

LEMMA SkippedStops ==
  ASSUME NEW second \in Seq(Rids), NEW place \in 1 .. Len(second) + 1, NEW rid
  PROVE  StopsFor(second, place, rid, Skipped(second, place, rid))
<1> DEFINE S == {n \in place .. Len(second) + 1 : n > Len(second) \/ ~RidLess(second[n], rid)}
           stop == Min(S)
<1>1. Len(second) \in Nat /\ place \in Nat /\ place <= Len(second) + 1
  OBVIOUS
<1>2. S \in SUBSET Nat /\ Len(second) + 1 \in S
  BY <1>1
<1>3. stop \in S /\ \A n \in S : stop <= n
  <2> HIDE DEF S
  <2> QED BY <1>2, MinOfSome
<1>4. Skipped(second, place, rid) = stop
  BY DEF Skipped
<1> HIDE DEF stop
<1>5. stop \in place .. Len(second) + 1 /\ (stop <= Len(second) => ~RidLess(second[stop], rid))
  BY <1>1, <1>3
<1>6. ASSUME NEW j \in place .. stop - 1 PROVE j <= Len(second) /\ RidLess(second[j], rid)
  <2>1. j \in place .. Len(second) + 1 /\ j <= Len(second) /\ ~(stop <= j)
    BY <1>1, <1>5
  <2>2. j \notin S
    BY <1>3, <2>1
  <2> QED BY <2>1, <2>2
<1> QED BY <1>4, <1>5, <1>6 DEF StopsFor

LEMMA WalkRuns ==
  ASSUME NEW first \in Seq(Rids), NEW second \in Seq(Rids),
         NEW op, op = [p \in Rids \X Walks(second) |-> Walked(second, p[2], p[1])]
  PROVE  \E walk : /\ FoldedBy(WalkStart, first, op, Walks(second), walk)
                   /\ Common(first, second) = walk.found
<1> DEFINE D == SUBSET DOMAIN first
           A == Walks(second)
<1>0. Len(first) \in Nat /\ DOMAIN first = 1 .. Len(first)
  OBVIOUS
<1>1. ASSUME NEW w \in A, NEW rid \in Rids PROVE Walked(second, w, rid) \in A
  <2>1. w.pos \in 1 .. Len(second) + 1 /\ w.found \in Seq(Rids)
    BY DEF Walks
  <2>2. PICK stop : stop = Skipped(second, w.pos, rid)
    OBVIOUS
  <2>3. stop \in w.pos .. Len(second) + 1
    BY <2>1, <2>2, SkippedStops DEF StopsFor
  <2>4. Len(second) \in Nat
    OBVIOUS
  <2>5. stop \in 1 .. Len(second) + 1
    BY <2>1, <2>3, <2>4
  <2>6. Append(w.found, rid) \in Seq(Rids)
    BY <2>1
  <2> QED BY <2>1, <2>2, <2>5, <2>6 DEF Walked, Walks
<1>2. op \in [Rids \X A -> A] /\ \A w \in A, rid \in Rids : op[<<rid, w>>] = Walked(second, w, rid)
  BY <1>1
<1>3. WalkStart \in A
  <2>1. Len(second) \in Nat
    OBVIOUS
  <2>2. 1 \in 1 .. Len(second) + 1
    BY <2>1
  <2> QED BY <2>2 DEF WalkStart, Walks
<1> HIDE DEF A
<1>4. PICK f \in [D -> A] : \A s \in D : f[s] = FoldStep(WalkStart, first, op, f, s)
  <2>1. Foldable(WalkStart, first, op, A)
    BY <1>2, <1>3, FoldExists
  <2> QED BY <2>1 DEF Foldable
<1>5. ASSUME NEW s \in D PROVE f[s] = WalkFrom(first, second, f, s)
  <2>1. CASE s = {}
    BY <1>4, <2>1 DEF FoldStep, WalkFrom
  <2>2. CASE s # {}
    <3>1. Max(s) \in s
      BY <1>0, <2>2, MaxOfIndices
    <3>2. first[Max(s)] \in Rids /\ f[s \ {Max(s)}] \in A
      BY <1>0, <3>1
    <3>3. f[s] = op[<<first[Max(s)], f[s \ {Max(s)}]>>]
      BY <1>4, <2>2 DEF FoldStep
    <3> QED BY <1>2, <2>2, <3>2, <3>3 DEF WalkFrom
  <2> QED BY <2>1, <2>2
<1>6. f = [s \in D |-> WalkFrom(first, second, f, s)]
  BY <1>5
<1>7. PICK g : g = [s \in D |-> WalkFrom(first, second, g, s)]
               /\ Common(first, second) = g[DOMAIN first].found
  <2> DEFINE g == CHOOSE g : g = [s \in D |-> WalkFrom(first, second, g, s)]
  <2>1. g = [s \in D |-> WalkFrom(first, second, g, s)]
    BY <1>6
  <2>2. Common(first, second) = g[DOMAIN first].found
    BY DEF Common, FoldLeft, MapThenFoldSet, WalkFrom, WalkStart, Walked, Skipped
  <2> QED BY <2>1, <2>2
<1>8. g[{}] = WalkStart
  <2>1. {} \in D
    OBVIOUS
  <2> QED BY <1>7, <2>1 DEF WalkFrom
<1>9. ASSUME NEW n \in 1 .. Len(first), g[1 .. n - 1] \in A
      PROVE  g[1 .. n] = op[<<first[n], g[1 .. n - 1]>>]
  <2>1. 1 .. n \in D /\ n \in Nat \ {0} /\ first[n] \in Rids
    BY <1>0
  <2>2. 1 .. n # {} /\ Max(1 .. n) = n /\ (1 .. n) \ {n} = 1 .. n - 1
    BY <2>1, MaxOfPrefix
  <2>3. g[1 .. n] = Walked(second, g[1 .. n - 1], first[n])
    <3>1. g[1 .. n] = WalkFrom(first, second, g, 1 .. n)
      BY <1>7, <2>1
    <3> QED BY <2>2, <3>1 DEF WalkFrom
  <2> QED BY <1>2, <1>9, <2>1, <2>3
<1>10. FoldedBy(WalkStart, first, op, A, g[1 .. Len(first)])
  BY <1>2, <1>3, <1>8, <1>9, FoldRuns
<1> QED BY <1>0, <1>7, <1>10 DEF A

LEMMA AscendingAppend ==
  ASSUME NEW r \in Rids, NEW list, Ascending(list), \A q \in Range(list) : RidLess(q, r)
  PROVE  Ascending(Append(list, r)) /\ Range(Append(list, r)) = Range(list) \cup {r}
<1> DEFINE new == Append(list, r)
<1>1. list \in Seq(Rids) /\ DOMAIN list = 1 .. Len(list) /\ Len(list) \in Nat
  BY DEF Ascending
<1>2. /\ new \in Seq(Rids) /\ Len(new) = Len(list) + 1 /\ DOMAIN new = 1 .. Len(list) + 1
      /\ new[Len(list) + 1] = r /\ \A i \in 1 .. Len(list) : new[i] = list[i]
  BY <1>1
<1> HIDE DEF new
<1>3. ASSUME NEW i \in 1 .. Len(new), NEW j \in 1 .. Len(new), i < j PROVE RidLess(new[i], new[j])
  <2>1. i \in 1 .. Len(list) /\ new[i] = list[i]
    BY <1>1, <1>2, <1>3
  <2>2. CASE j = Len(list) + 1
    BY <1>1, <1>2, <2>1, <2>2 DEF Range
  <2>3. CASE j # Len(list) + 1
    <3>1. j \in 1 .. Len(list) /\ new[j] = list[j]
      BY <1>1, <1>2, <2>3
    <3> QED BY <1>3, <2>1, <3>1 DEF Ascending
  <2> QED BY <2>2, <2>3
<1>4. ASSUME NEW x PROVE x \in Range(new) <=> x \in Range(list) \cup {r}
  <2>1. 1 .. Len(list) + 1 = (1 .. Len(list)) \cup {Len(list) + 1}
    BY <1>1
  <2> QED BY <1>1, <1>2, <2>1 DEF Range
<1>5. Range(new) = Range(list) \cup {r}
  BY <1>4
<1>6. Ascending(new)
  BY <1>2, <1>3 DEF Ascending
<1> QED BY <1>5, <1>6 DEF new

\* After the first n trains of the first list.
WalkedTo(first, second, n, walk) ==
  /\ walk \in Walks(second) /\ Ascending(walk.found)
  /\ Range(walk.found) = {first[i] : i \in 1 .. n} \cap Range(second)
  /\ \A i \in n + 1 .. Len(first), j \in 1 .. walk.pos - 1 : RidLess(second[j], first[i])

LEMMA WalkGoesOn ==
  ASSUME NEW first, Ascending(first), NEW second, Ascending(second),
         NEW n \in Nat, n + 1 <= Len(first), NEW walk, WalkedTo(first, second, n, walk)
  PROVE  WalkedTo(first, second, n + 1, Walked(second, walk, first[n + 1]))
<1> DEFINE rid  == first[n + 1]
           stop == Skipped(second, walk.pos, rid)
           next == Walked(second, walk, rid)
           last == Len(second)
<1>1. /\ first \in Seq(Rids) /\ second \in Seq(Rids) /\ last \in Nat /\ Len(first) \in Nat
      /\ DOMAIN second = 1 .. last
  BY DEF Ascending
<1>2. n + 1 \in 1 .. Len(first)
  BY <1>1
<1>3. rid \in Rids
  BY <1>1, <1>2
<1>4. walk.pos \in 1 .. last + 1 /\ walk.found \in Seq(Rids)
  BY DEF WalkedTo, Walks
<1>5. StopsFor(second, walk.pos, rid, stop)
  BY <1>1, <1>4, SkippedStops
<1>6. /\ next.pos = stop
      /\ next.found = IF stop <= last /\ second[stop] = rid THEN Append(walk.found, rid)
                      ELSE walk.found
      /\ next = [pos |-> next.pos, found |-> next.found]
  BY DEF Walked
<1> HIDE DEF stop, next
<1>7. stop \in 1 .. last + 1
  BY <1>1, <1>4, <1>5 DEF StopsFor
<1>8. ASSUME NEW j \in 1 .. stop - 1 PROVE j \in 1 .. last /\ RidLess(second[j], rid)
  <2>1. CASE j < walk.pos
    <3>1. j \in 1 .. walk.pos - 1 /\ j \in 1 .. last /\ n + 1 \in n + 1 .. Len(first)
      BY <1>1, <1>2, <1>4, <1>7, <2>1
    <3> QED BY <3>1 DEF WalkedTo
  <2>2. CASE ~(j < walk.pos)
    <3>1. j \in walk.pos .. stop - 1
      BY <1>1, <1>4, <1>7, <2>2
    <3>2. j <= last /\ RidLess(second[j], rid)
      BY <1>5, <3>1 DEF StopsFor
    <3> QED BY <1>1, <3>2
  <2> QED BY <2>1, <2>2
<1>9. rid \in Range(second) <=> stop <= last /\ second[stop] = rid
  <2>1. ASSUME stop <= last, second[stop] = rid PROVE rid \in Range(second)
    <3>1. stop \in DOMAIN second
      BY <1>1, <1>7, <2>1
    <3> QED BY <2>1, <3>1 DEF Range
  <2>2. ASSUME rid \in Range(second) PROVE stop <= last /\ second[stop] = rid
    <3>1. PICK k \in 1 .. last : second[k] = rid
      BY <1>1, <2>2 DEF Range
    <3>2. ~(k \in 1 .. stop - 1)
      <4>1. ~RidLess(rid, rid)
        BY <1>3, RidOrder
      <4> QED BY <1>8, <3>1, <4>1
    <3>3. stop <= k /\ stop <= last /\ stop \in 1 .. last
      BY <1>1, <1>7, <3>1, <3>2
    <3>4. ~RidLess(second[stop], rid)
      BY <1>5, <3>3 DEF StopsFor
    <3>5. ~(stop < k)
      BY <3>1, <3>3, <3>4 DEF Ascending
    <3>6. stop = k
      BY <1>7, <3>1, <3>3, <3>5
    <3> QED BY <3>1, <3>3, <3>6
  <2> QED BY <2>1, <2>2
<1>10. ASSUME NEW i \in n + 2 .. Len(first) PROVE RidLess(rid, first[i]) /\ first[i] \in Rids
  <2>1. i \in 1 .. Len(first) /\ n + 1 < i
    BY <1>1
  <2> QED BY <1>1, <1>2, <2>1 DEF Ascending
<1>11. ASSUME NEW i \in (n + 1) + 1 .. Len(first), NEW j \in 1 .. stop - 1
       PROVE  RidLess(second[j], first[i])
  <2>1. i \in n + 2 .. Len(first)
    OBVIOUS
  <2>2. second[j] \in Rids /\ RidLess(second[j], rid)
    BY <1>1, <1>8
  <2> QED BY <1>3, <1>10, <2>1, <2>2, RidOrder
<1>12. ASSUME NEW q \in Range(walk.found) PROVE RidLess(q, rid)
  <2>1. PICK i \in 1 .. n : q = first[i]
    BY <1>12 DEF WalkedTo
  <2>2. i \in 1 .. Len(first) /\ i < n + 1
    BY <1>1, <1>2
  <2> QED BY <1>2, <2>1, <2>2 DEF Ascending
<1>13. {first[i] : i \in 1 .. n + 1} = {first[i] : i \in 1 .. n} \cup {rid}
  <2>1. 1 .. n + 1 = (1 .. n) \cup {n + 1}
    OBVIOUS
  <2> QED BY <2>1, Zenon
<1>14. /\ next.found \in Seq(Rids) /\ Ascending(next.found)
       /\ Range(next.found) = {first[i] : i \in 1 .. n + 1} \cap Range(second)
  <2>1. Ascending(walk.found) /\ Range(walk.found) = {first[i] : i \in 1 .. n} \cap Range(second)
    BY DEF WalkedTo
  <2>2. CASE rid \in Range(second)
    <3>1. next.found = Append(walk.found, rid)
      BY <1>6, <1>9, <2>2
    <3>2. Ascending(next.found) /\ Range(next.found) = Range(walk.found) \cup {rid}
      BY <1>3, <1>12, <2>1, <3>1, AscendingAppend
    <3>3. Range(next.found) = {first[i] : i \in 1 .. n + 1} \cap Range(second)
      BY <1>13, <2>1, <2>2, <3>2
    <3> QED BY <3>2, <3>3 DEF Ascending
  <2>3. CASE rid \notin Range(second)
    <3>1. next.found = walk.found
      BY <1>6, <1>9, <2>3
    <3>2. Range(next.found) = {first[i] : i \in 1 .. n + 1} \cap Range(second)
      BY <1>13, <2>1, <2>3, <3>1
    <3> QED BY <1>4, <2>1, <3>1, <3>2
  <2> QED BY <2>2, <2>3
<1>15. next \in Walks(second)
  BY <1>6, <1>7, <1>14 DEF Walks
<1>16. WalkedTo(first, second, n + 1, next)
  BY <1>6, <1>11, <1>14, <1>15 DEF WalkedTo
<1> QED BY <1>16 DEF next

\* Common finds the trains on both lists, in order.
LEMMA CommonFinds ==
  ASSUME NEW first, Ascending(first), NEW second, Ascending(second)
  PROVE  /\ Ascending(Common(first, second))
         /\ Range(Common(first, second)) = Range(first) \cap Range(second)
<1> DEFINE op == [p \in Rids \X Walks(second) |-> Walked(second, p[2], p[1])]
           last == Len(first)
<1>1. /\ first \in Seq(Rids) /\ second \in Seq(Rids) /\ last \in Nat /\ DOMAIN first = 1 .. last
  BY DEF Ascending
<1>2. PICK walk : FoldedBy(WalkStart, first, op, Walks(second), walk)
                  /\ Common(first, second) = walk.found
  BY <1>1, WalkRuns
<1>3. PICK run \in [0 .. last -> Walks(second)] :
        /\ run[0] = WalkStart /\ run[last] = walk
        /\ \A n \in 1 .. last : run[n] = op[<<first[n], run[n - 1]>>]
  BY <1>2 DEF FoldedBy
<1>4. ASSUME NEW n \in 1 .. last PROVE run[n] = Walked(second, run[n - 1], first[n])
  <2>1. n - 1 \in 0 .. last /\ first[n] \in Rids
    BY <1>1
  <2>2. run[n - 1] \in Walks(second)
    BY <2>1
  <2> QED BY <1>3, <2>1, <2>2
<1> HIDE DEF op
<1> DEFINE S == {n \in Nat : n <= last => WalkedTo(first, second, n, run[n])}
<1>5. 0 \in S
  <2>1. WalkStart \in Walks(second)
    BY <1>1, <1>3
  <2>2. WalkStart.pos = 1 /\ WalkStart.found = <<>>
    BY DEF WalkStart
  <2>3. Range(WalkStart.found) = {} /\ Ascending(WalkStart.found)
    BY <2>2, EmptyList
  <2>4. {first[i] : i \in 1 .. 0} = {} /\ 1 .. 1 - 1 = {}
    OBVIOUS
  <2>5. WalkedTo(first, second, 0, WalkStart)
    BY <2>1, <2>2, <2>3, <2>4 DEF WalkedTo
  <2> QED BY <1>3, <2>5
<1>6. ASSUME NEW n \in S PROVE n + 1 \in S
  <2>1. n \in Nat /\ n + 1 \in Nat /\ (n + 1) - 1 = n
    OBVIOUS
  <2>2. ASSUME n + 1 <= last PROVE WalkedTo(first, second, n + 1, run[n + 1])
    <3>1. n + 1 \in 1 .. last /\ n <= last
      BY <1>1, <2>1, <2>2
    <3>2. WalkedTo(first, second, n, run[n])
      BY <3>1
    <3>3. run[n + 1] = Walked(second, run[n], first[n + 1])
      BY <1>4, <2>1, <3>1
    <3> QED BY <2>1, <2>2, <3>2, <3>3, WalkGoesOn
  <2> QED BY <2>1, <2>2
<1>7. \A n \in Nat : n \in S
  <2>1. S \in SUBSET Nat
    OBVIOUS
  <2> HIDE DEF S
  <2> QED BY <1>5, <1>6, <2>1, Counting
<1>8. WalkedTo(first, second, last, walk)
  <2>1. last <= last
    BY <1>1
  <2> QED BY <1>1, <1>3, <1>7, <2>1
<1>9. Range(first) = {first[i] : i \in 1 .. last}
  BY <1>1 DEF Range
<1> QED BY <1>2, <1>8, <1>9 DEF WalkedTo

-----------------------------------------------------------------------------
(* The answer to a ticket query. *)

Forward(rid, start, end) ==
  LastStop(StationsOf(rid), start) <= LastStop(StationsOf(rid), end)

OfferedWith(start, end, ids, rid) ==
  IF Forward(rid, start, end) THEN Append(ids, At(rid).train_id) ELSE ids

OfferFrom(list, start, end, f, s) ==
  IF s = {} THEN <<>> ELSE OfferedWith(start, end, f[s \ {Max(s)}], list[Max(s)])

\* The list a query goes down.
ListsBoth(list, start, end) ==
  list = Common(FetchTrainInfoStation(start), FetchTrainInfoStation(end))

IdsOf == {At(r).train_id : r \in Rids}

LEMMA OfferRuns ==
  ASSUME NEW start, NEW end, NEW list,
         ListsBoth(list, start, end), list \in Seq(Rids),
         NEW op, op = [p \in Rids \X Seq(IdsOf) |-> OfferedWith(start, end, p[2], p[1])]
  PROVE  FoldedBy(<<>>, list, op, Seq(IdsOf), QueryTicket(start, end))
<1> DEFINE D == SUBSET DOMAIN list
           A == Seq(IdsOf)
<1>0. Len(list) \in Nat /\ DOMAIN list = 1 .. Len(list)
  OBVIOUS
<1>1. ASSUME NEW ids \in A, NEW rid \in Rids PROVE OfferedWith(start, end, ids, rid) \in A
  <2>1. At(rid).train_id \in IdsOf
    BY DEF IdsOf
  <2> HIDE DEF IdsOf
  <2>2. PICK id \in IdsOf : id = At(rid).train_id
    BY <2>1
  <2>3. Append(ids, id) \in A
    OBVIOUS
  <2> QED BY <2>2, <2>3 DEF OfferedWith
<1>2. /\ op \in [Rids \X A -> A]
      /\ \A ids \in A, rid \in Rids : op[<<rid, ids>>] = OfferedWith(start, end, ids, rid)
  BY <1>1
<1>3. <<>> \in A
  OBVIOUS
<1> HIDE DEF A
<1>4. PICK f \in [D -> A] : \A s \in D : f[s] = FoldStep(<<>>, list, op, f, s)
  <2>1. Foldable(<<>>, list, op, A)
    BY <1>2, <1>3, FoldExists
  <2> QED BY <2>1 DEF Foldable
<1>5. ASSUME NEW s \in D PROVE f[s] = OfferFrom(list, start, end, f, s)
  <2>1. CASE s = {}
    BY <1>4, <2>1 DEF FoldStep, OfferFrom
  <2>2. CASE s # {}
    <3>1. Max(s) \in s
      BY <1>0, <2>2, MaxOfIndices
    <3>2. list[Max(s)] \in Rids /\ f[s \ {Max(s)}] \in A
      BY <1>0, <3>1
    <3>3. f[s] = op[<<list[Max(s)], f[s \ {Max(s)}]>>]
      BY <1>4, <2>2 DEF FoldStep
    <3> QED BY <1>2, <2>2, <3>2, <3>3 DEF OfferFrom
  <2> QED BY <2>1, <2>2
<1>6. f = [s \in D |-> OfferFrom(list, start, end, f, s)]
  BY <1>5
<1>7. PICK g : g = [s \in D |-> OfferFrom(list, start, end, g, s)]
               /\ QueryTicket(start, end) = g[DOMAIN list]
  <2> DEFINE g == CHOOSE g : g = [s \in D |-> OfferFrom(list, start, end, g, s)]
  <2>1. g = [s \in D |-> OfferFrom(list, start, end, g, s)]
    BY <1>6
  <2>2. QueryTicket(start, end) = g[DOMAIN list]
    BY DEF ListsBoth, QueryTicket, FoldLeft, MapThenFoldSet, OfferFrom, OfferedWith, Forward
  <2> QED BY <2>1, <2>2
<1>8. g[{}] = <<>>
  <2>1. {} \in D
    OBVIOUS
  <2> QED BY <1>7, <2>1 DEF OfferFrom
<1>9. ASSUME NEW n \in 1 .. Len(list), g[1 .. n - 1] \in A
      PROVE  g[1 .. n] = op[<<list[n], g[1 .. n - 1]>>]
  <2>1. 1 .. n \in D /\ n \in Nat \ {0} /\ list[n] \in Rids
    BY <1>0
  <2>2. 1 .. n # {} /\ Max(1 .. n) = n /\ (1 .. n) \ {n} = 1 .. n - 1
    BY <2>1, MaxOfPrefix
  <2>3. g[1 .. n] = OfferedWith(start, end, g[1 .. n - 1], list[n])
    <3>1. g[1 .. n] = OfferFrom(list, start, end, g, 1 .. n)
      BY <1>7, <2>1
    <3> QED BY <2>2, <3>1 DEF OfferFrom
  <2> QED BY <1>2, <1>9, <2>1, <2>3
<1>10. FoldedBy(<<>>, list, op, A, g[1 .. Len(list)])
  BY <1>2, <1>3, <1>8, <1>9, FoldRuns
<1> QED BY <1>0, <1>7, <1>10 DEF A

\* The trains of the first n RIDs of the list that go forward.
OffersOf(list, n, start, end) ==
  {At(list[i]).train_id : i \in {j \in 1 .. n : Forward(list[j], start, end)}}

LEMMA InjectiveAppend ==
  ASSUME NEW E, NEW ids \in Seq(E), IsInjective(ids), NEW id \in E, id \notin Range(ids)
  PROVE  IsInjective(Append(ids, id)) /\ Range(Append(ids, id)) = Range(ids) \cup {id}
<1> DEFINE new == Append(ids, id)
           last == Len(ids)
<1>1. /\ last \in Nat /\ DOMAIN ids = 1 .. last /\ DOMAIN new = 1 .. last + 1
      /\ new[last + 1] = id /\ \A i \in 1 .. last : new[i] = ids[i]
      /\ 1 .. last + 1 = (1 .. last) \cup {last + 1}
  OBVIOUS
<1> HIDE DEF new
<1>2. \A i \in 1 .. last : new[i] \in Range(ids) /\ new[i] # id
  BY <1>1 DEF Range
<1>3. IsInjective(new)
  BY <1>1, <1>2 DEF IsInjective
<1>4. Range(new) = Range(ids) \cup {id}
  BY <1>1 DEF Range
<1> QED BY <1>3, <1>4 DEF new

LEMMA OffersFound ==
  ASSUME NEW start, NEW end, NEW list,
         ListsBoth(list, start, end), list \in Seq(Rids),
         \A i, j \in 1 .. Len(list) : At(list[i]).train_id = At(list[j]).train_id => i = j
  PROVE  /\ IsInjective(QueryTicket(start, end))
         /\ Range(QueryTicket(start, end)) = OffersOf(list, Len(list), start, end)
<1> DEFINE op == [p \in Rids \X Seq(IdsOf) |-> OfferedWith(start, end, p[2], p[1])]
           last == Len(list)
<1>1. last \in Nat /\ \A n \in 1 .. last : list[n] \in Rids
  OBVIOUS
<1>2. FoldedBy(<<>>, list, op, Seq(IdsOf), QueryTicket(start, end))
  BY OfferRuns
<1>3. PICK run \in [0 .. last -> Seq(IdsOf)] :
        /\ run[0] = <<>> /\ run[last] = QueryTicket(start, end)
        /\ \A n \in 1 .. last : run[n] = op[<<list[n], run[n - 1]>>]
  BY <1>2 DEF FoldedBy
<1>4. ASSUME NEW n \in 1 .. last PROVE run[n] = OfferedWith(start, end, run[n - 1], list[n])
  <2>1. n - 1 \in 0 .. last /\ list[n] \in Rids
    BY <1>1
  <2>2. run[n - 1] \in Seq(IdsOf)
    BY <2>1
  <2> QED BY <1>3, <2>1, <2>2
<1> HIDE DEF op
<1> DEFINE S == {n \in Nat : n <= last => /\ IsInjective(run[n])
                                          /\ Range(run[n]) = OffersOf(list, n, start, end)}
<1>5. 0 \in S
  <2>1. IsInjective(<<>>) /\ Range(<<>>) = {}
    BY DEF IsInjective, Range
  <2>2. OffersOf(list, 0, start, end) = {}
    BY DEF OffersOf
  <2> QED BY <1>3, <2>1, <2>2
<1>6. ASSUME NEW n \in S PROVE n + 1 \in S
  <2>1. n \in Nat /\ n + 1 \in Nat /\ (n + 1) - 1 = n
    OBVIOUS
  <2>2. ASSUME n + 1 <= last
        PROVE  /\ IsInjective(run[n + 1])
               /\ Range(run[n + 1]) = OffersOf(list, n + 1, start, end)
    <3> DEFINE rid == list[n + 1]
               id  == At(rid).train_id
    <3>1. n + 1 \in 1 .. last /\ n \in 0 .. last /\ n <= last
      BY <1>1, <2>1, <2>2
    <3>2. IsInjective(run[n]) /\ Range(run[n]) = OffersOf(list, n, start, end)
      BY <3>1
    <3>3. run[n + 1] = OfferedWith(start, end, run[n], rid)
      BY <1>4, <2>1, <3>1
    <3>4. 1 .. n + 1 = (1 .. n) \cup {n + 1}
      BY <2>1
    <3>5. CASE Forward(rid, start, end)
      <4>1. run[n + 1] = Append(run[n], id)
        BY <3>3, <3>5 DEF OfferedWith
      <4>2. run[n] \in Seq(IdsOf) /\ id \in IdsOf
        BY <1>1, <3>1 DEF IdsOf
      <4>3. id \notin OffersOf(list, n, start, end)
        <5>1. \A i \in 1 .. n : i \in 1 .. last /\ i # n + 1
          BY <1>1, <2>1, <3>1
        <5>2. \A i \in 1 .. n : At(list[i]).train_id # id
          BY <3>1, <5>1
        <5> QED BY <5>2 DEF OffersOf
      <4>4. IsInjective(run[n + 1]) /\ Range(run[n + 1]) = Range(run[n]) \cup {id}
        BY <3>2, <4>1, <4>2, <4>3, InjectiveAppend
      <4>5. OffersOf(list, n + 1, start, end) = OffersOf(list, n, start, end) \cup {id}
        <5> DEFINE ahead(k) == {j \in 1 .. k : Forward(list[j], start, end)}
        <5>1. ahead(n + 1) = ahead(n) \cup {n + 1}
          BY <3>4, <3>5
        <5> DEFINE of(i) == At(list[i]).train_id
        <5> HIDE DEF ahead, of
        <5>2. {of(i) : i \in ahead(n + 1)} = {of(i) : i \in ahead(n)} \cup {of(n + 1)}
          BY <5>1, Zenon
        <5> QED BY <5>2, Zenon DEF OffersOf, ahead, of
      <4> QED BY <3>2, <4>4, <4>5
    <3>6. CASE ~Forward(rid, start, end)
      <4>1. run[n + 1] = run[n]
        BY <3>3, <3>6 DEF OfferedWith
      <4>2. OffersOf(list, n + 1, start, end) = OffersOf(list, n, start, end)
        BY <3>4, <3>6, Zenon DEF OffersOf
      <4> QED BY <3>2, <4>1, <4>2
    <3> QED BY <3>5, <3>6
  <2> QED BY <2>1, <2>2
<1>7. \A n \in Nat : n \in S
  <2>1. S \in SUBSET Nat
    OBVIOUS
  <2> HIDE DEF S
  <2> QED BY <1>5, <1>6, <2>1, Counting
<1>8. last <= last
  BY <1>1
<1> QED BY <1>1, <1>3, <1>7, <1>8

\* A released train that stops at both stations.
Calls(id, start, end) ==
  /\ id \in DOMAIN index /\ BoardTrains[id].released
  /\ start \in Range(BoardTrains[id].service.stations)
  /\ end \in Range(BoardTrains[id].service.stations)

LEMMA OnBothLists ==
  ASSUME OffersInv, NEW start \in Stations, NEW end \in Stations,
         NEW list, ListsBoth(list, start, end)
  PROVE  /\ Ascending(list)
         /\ \A r \in Range(list) : \E id \in DOMAIN index : r = index[id] /\ Calls(id, start, end)
         /\ \A id : Calls(id, start, end) => index[id] \in Range(list)
<1>1. start \in Nat /\ end \in Nat
  BY CatalogAssumption
<1>2. Listed(station_index, BoardTrains, index) /\ Sorted(station_index)
  BY DEF OffersInv, Listed
<1>3. /\ Fetched(start, FetchTrainInfoStation(start))
      /\ Fetched(end, FetchTrainInfoStation(end))
  BY <1>1, <1>2, FetchFinds
<1>4. /\ Ascending(list)
      /\ Range(list) = Range(FetchTrainInfoStation(start)) \cap Range(FetchTrainInfoStation(end))
  BY <1>3, CommonFinds DEF Fetched, ListsBoth
<1>5. ASSUME NEW r \in Rids, NEW station \in Nat
      PROVE  <<station, r>> \in Range(station_index)
               <=> \E id \in DOMAIN index :
                     /\ BoardTrains[id].released /\ r = index[id]
                     /\ station \in Range(BoardTrains[id].service.stations)
  <2>1. PICK key : key = <<station, r>>
    OBVIOUS
  <2>2. key \in StationKeys /\ key[1] = station /\ key[2] = r
    BY <2>1 DEF StationKeys
  <2>3. key \in Range(station_index) <=> StopsAt(BoardTrains, index, key)
    BY <1>2, <2>2 DEF Listed
  <2> QED BY <2>1, <2>2, <2>3 DEF StopsAt
<1>6. ASSUME NEW r \in Range(list)
      PROVE  \E id \in DOMAIN index : r = index[id] /\ Calls(id, start, end)
  <2>1. r \in Rids
    BY <1>4 DEF Ascending, Range
  <2>2. <<start, r>> \in Range(station_index) /\ <<end, r>> \in Range(station_index)
    BY <1>3, <1>4, <2>1 DEF Fetched
  <2>3. PICK i \in DOMAIN index : /\ BoardTrains[i].released /\ r = index[i]
                                  /\ start \in Range(BoardTrains[i].service.stations)
    BY <1>1, <1>5, <2>1, <2>2
  <2>4. PICK j \in DOMAIN index : /\ BoardTrains[j].released /\ r = index[j]
                                  /\ end \in Range(BoardTrains[j].service.stations)
    BY <1>1, <1>5, <2>1, <2>2
  <2>5. i = j
    BY <2>3, <2>4, RecordsDiffer DEF OffersInv
  <2> QED BY <2>3, <2>4, <2>5 DEF Calls
<1>7. ASSUME NEW id, Calls(id, start, end) PROVE index[id] \in Range(list)
  <2>1. index[id] \in Rids
    BY <1>7 DEF Calls, OffersInv, CatalogInv, Indexed, HasRecord, Rids
  <2>2. <<start, index[id]>> \in Range(station_index) /\ <<end, index[id]>> \in Range(station_index)
    BY <1>1, <1>5, <1>7, <2>1 DEF Calls
  <2> QED BY <1>3, <1>4, <2>1, <2>2 DEF Fetched
<1> QED BY <1>4, <1>6, <1>7

LEMMA QueryFinds ==
  ASSUME OffersInv, NEW start \in Stations, NEW end \in Stations
  PROVE  /\ IsInjective(QueryTicket(start, end))
         /\ \A id : id \in Range(QueryTicket(start, end))
                      <=> Calls(id, start, end) /\ Forward(index[id], start, end)
<1>1. PICK list : ListsBoth(list, start, end)
  BY DEF ListsBoth
<1>2. /\ Ascending(list)
      /\ \A r \in Range(list) : \E id \in DOMAIN index : r = index[id] /\ Calls(id, start, end)
      /\ \A id : Calls(id, start, end) => index[id] \in Range(list)
  BY <1>1, OnBothLists
<1>3. list \in Seq(Rids) /\ DOMAIN list = 1 .. Len(list)
  BY <1>2 DEF Ascending
<1>4. \A id \in DOMAIN index : At(index[id]).train_id = id
  BY DEF OffersInv, CatalogInv, Indexed, At, RecordOn
<1>5. ASSUME NEW i \in 1 .. Len(list)
      PROVE  /\ At(list[i]).train_id \in DOMAIN index
             /\ list[i] = index[At(list[i]).train_id]
             /\ Calls(At(list[i]).train_id, start, end)
  <2>1. list[i] \in Range(list)
    BY <1>3 DEF Range
  <2> QED BY <1>2, <1>4, <2>1
<1>6. ASSUME NEW i \in 1 .. Len(list), NEW j \in 1 .. Len(list),
             At(list[i]).train_id = At(list[j]).train_id
      PROVE  i = j
  <2>1. list[i] = list[j] /\ list[i] \in Rids
    BY <1>3, <1>5, <1>6
  <2>2. ~RidLess(list[i], list[j]) /\ ~RidLess(list[j], list[i])
    BY <2>1, RidOrder
  <2>3. ~(i < j) /\ ~(j < i)
    BY <1>2, <2>2 DEF Ascending
  <2> QED BY <2>3
<1>7. /\ IsInjective(QueryTicket(start, end))
      /\ Range(QueryTicket(start, end)) = OffersOf(list, Len(list), start, end)
  BY <1>1, <1>3, <1>6, OffersFound
<1>8. ASSUME NEW id, id \in OffersOf(list, Len(list), start, end)
      PROVE  Calls(id, start, end) /\ Forward(index[id], start, end)
  <2>1. PICK i \in 1 .. Len(list) : Forward(list[i], start, end) /\ id = At(list[i]).train_id
    BY <1>8 DEF OffersOf
  <2> QED BY <1>5, <2>1
<1>9. ASSUME NEW id, Calls(id, start, end), Forward(index[id], start, end)
      PROVE  id \in OffersOf(list, Len(list), start, end)
  <2>1. PICK i \in 1 .. Len(list) : index[id] = list[i]
    BY <1>2, <1>3, <1>9 DEF Range
  <2>2. id = At(list[i]).train_id
    BY <1>4, <1>9, <2>1 DEF Calls
  <2> QED BY <1>9, <2>1, <2>2 DEF OffersOf
<1> QED BY <1>7, <1>8, <1>9

LEMMA OnlyStop ==
  ASSUME NEW stops \in Seq(Nat), IsInjective(stops), NEW i \in DOMAIN stops
  PROVE  LastStop(stops, stops[i]) = i
<1>1. i \in Nat /\ i >= -1 /\ -1 >= -1 /\ i >= i
  OBVIOUS
<1>2. {n \in DOMAIN stops : stops[n] = stops[i]} = {i}
  BY DEF IsInjective
<1>3. LastStop(stops, stops[i]) = Max({-1} \cup {i})
  BY <1>2, Zenon DEF LastStop
<1>4. PICK k : k = LastStop(stops, stops[i])
  OBVIOUS
<1>5. k \in {-1, i} /\ \A y \in {-1, i} : k >= y
  <2>1. \E x \in {-1} \cup {i} : \A y \in {-1} \cup {i} : x >= y
    BY <1>1
  <2>2. Max({-1} \cup {i}) \in {-1} \cup {i} /\ \A y \in {-1} \cup {i} : Max({-1} \cup {i}) >= y
    BY <2>1 DEF Max
  <2> QED BY <1>3, <1>4, <2>2
<1>6. k = i
  BY <1>1, <1>5
<1> QED BY <1>4, <1>6

\* A released train that stops at both, the first one first.
LEMMA ThreeViews ==
  ASSUME OffersInv, NEW id \in DOMAIN index, NEW start, NEW end, start # end
  PROVE  /\ Sells(id, start, end) <=> Calls(id, start, end) /\ Forward(index[id], start, end)
         /\ id \in Board!Serving(start, end) <=> Sells(id, start, end)
<1>1. PICK stops : stops = BoardTrains[id].service.stations
  OBVIOUS
<1>2. DOMAIN BoardTrains = DOMAIN index
  BY DEF BoardTrains
<1>3. BoardTrains[id].service \in Services
  BY <1>2 DEF OffersInv, ServicesKept
<1>4. stops \in Seq(Nat) /\ IsInjective(stops) /\ DOMAIN stops \subseteq Nat \ {0}
  BY <1>1, <1>3, StationLists
<1>5. /\ StationsOf(index[id]) = stops /\ At(index[id]).released = BoardTrains[id].released
  BY <1>1, StationsOfEntry
<1>6. /\ id \in Board!Serving(start, end)
           <=> /\ BoardTrains[id].released
               /\ \E i, j \in DOMAIN stops : i < j /\ stops[i] = start /\ stops[j] = end
  BY <1>1 DEF Board!Serving, BoardTrains
<1>7. Sells(id, start, end)
        <=> /\ BoardTrains[id].released
            /\ {n \in DOMAIN stops : stops[n] = end /\ end # start} # {}
            /\ \E n \in 1 .. Min({n \in DOMAIN stops : stops[n] = end /\ end # start}) : stops[n] = start
  BY <1>5 DEF Sells
<1>8. CASE \E i, j \in DOMAIN stops : stops[i] = start /\ stops[j] = end
  <2>1. PICK i \in DOMAIN stops, j \in DOMAIN stops : stops[i] = start /\ stops[j] = end
    BY <1>8
  <2>2. i \in Nat \ {0} /\ j \in Nat \ {0} /\ i # j /\ 1 .. j \subseteq DOMAIN stops
    <3>1. DOMAIN stops = 1 .. Len(stops) /\ Len(stops) \in Nat
      BY <1>4
    <3> QED BY <2>1, <3>1
  <2>3. LastStop(stops, start) = i /\ LastStop(stops, end) = j
    BY <1>4, <2>1, OnlyStop
  <2>4. Forward(index[id], start, end) <=> i < j
    BY <1>5, <2>2, <2>3 DEF Forward
  <2>5. Calls(id, start, end) <=> BoardTrains[id].released
    BY <1>1, <2>1 DEF Calls, Range
  <2>6. {n \in DOMAIN stops : stops[n] = end /\ end # start} = {j}
    BY <1>4, <2>1 DEF IsInjective
  <2>7. Min({j}) = j
    BY <2>2 DEF Min
  <2>8. (\E n \in 1 .. j : stops[n] = start) <=> i < j
    <3>1. \A n \in DOMAIN stops : stops[n] = start <=> n = i
      BY <1>4, <2>1 DEF IsInjective
    <3>2. i \in 1 .. j <=> i < j
      BY <2>2
    <3> QED BY <2>1, <2>2, <3>1, <3>2
  <2>9. Sells(id, start, end) <=> BoardTrains[id].released /\ i < j
    BY <1>7, <2>6, <2>7, <2>8
  <2>10. (\E a, b \in DOMAIN stops : a < b /\ stops[a] = start /\ stops[b] = end) <=> i < j
    <3>1. \A a, b \in DOMAIN stops : stops[a] = start /\ stops[b] = end => a = i /\ b = j
      BY <1>4, <2>1 DEF IsInjective
    <3> QED BY <2>1, <3>1
  <2> QED BY <1>6, <2>4, <2>5, <2>9, <2>10
<1>9. CASE ~\E i, j \in DOMAIN stops : stops[i] = start /\ stops[j] = end
  <2>1. ~Calls(id, start, end)
    BY <1>1, <1>9 DEF Calls, Range
  <2>2. id \notin Board!Serving(start, end)
    BY <1>6, <1>9
  <2>3. ~Sells(id, start, end)
    <3>1. SUFFICES ASSUME Sells(id, start, end) PROVE FALSE
      OBVIOUS
    <3> DEFINE ends == {n \in DOMAIN stops : stops[n] = end /\ end # start}
    <3>2. ends # {} /\ \E n \in 1 .. Min(ends) : stops[n] = start
      BY <1>7, <3>1
    <3>3. ends \in SUBSET Nat
      BY <1>4
    <3>4. Min(ends) \in ends
      <4> HIDE DEF ends
      <4> QED BY <3>2, <3>3, MinOfSome
    <3>5. 1 .. Min(ends) \subseteq DOMAIN stops
      <4>1. DOMAIN stops = 1 .. Len(stops) /\ Len(stops) \in Nat
        BY <1>4
      <4>2. PICK k : k = Min(ends)
        OBVIOUS
      <4>3. k \in 1 .. Len(stops)
        BY <3>4, <4>1, <4>2
      <4>4. 1 .. k \subseteq 1 .. Len(stops)
        BY <4>1, <4>3
      <4> QED BY <4>1, <4>2, <4>4, Zenon
    <3> QED BY <1>9, <3>2, <3>4, <3>5
  <2> QED BY <2>1, <2>2, <2>3
<1> QED BY <1>8, <1>9

LEMMA InvGivesOffers == OffersInv => OffersMatchSales
<1> SUFFICES ASSUME OffersInv, NEW start \in Stations, NEW end \in Stations, start # end
             PROVE  /\ IsInjective(QueryTicket(start, end))
                    /\ Range(QueryTicket(start, end)) = {id \in TrainIds : Sells(id, start, end)}
                    /\ Range(QueryTicket(start, end)) = Board!Serving(start, end)
  BY DEF OffersMatchSales
<1>1. /\ IsInjective(QueryTicket(start, end))
      /\ \A id : id \in Range(QueryTicket(start, end))
                   <=> Calls(id, start, end) /\ Forward(index[id], start, end)
  BY QueryFinds
<1>2. DOMAIN index \subseteq TrainIds
  BY DEF OffersInv, CatalogInv, Indexed
<1>3. ASSUME NEW id
      PROVE  /\ id \in Range(QueryTicket(start, end)) => id \in DOMAIN index
             /\ Sells(id, start, end) => id \in DOMAIN index
             /\ id \in Board!Serving(start, end) => id \in DOMAIN index
  BY <1>1 DEF Calls, Sells, Board!Serving
<1>4. ASSUME NEW id \in DOMAIN index
      PROVE  /\ id \in Range(QueryTicket(start, end)) <=> Sells(id, start, end)
             /\ id \in Board!Serving(start, end) <=> Sells(id, start, end)
  BY <1>1, ThreeViews
<1>5. Range(QueryTicket(start, end)) = {id \in TrainIds : Sells(id, start, end)}
  BY <1>2, <1>3, <1>4
<1>6. Range(QueryTicket(start, end)) = Board!Serving(start, end)
  BY <1>3, <1>4
<1> QED BY <1>1, <1>5, <1>6

\* A ticket query lists each train that runs between the two stations once, and these are
\* the trains that can be bought: the index of the stations, the walk down the two train
\* lists and the records agree, for any trains, services and page sizes
\* (TrainSystem::QueryTicket, FetchTrainInfoStation, BuyTicket).
THEOREM OffersMatchSalesHolds == Spec => []OffersMatchSales
<1>1. Spec => []OffersInv
  BY OffersInvInit, OffersInvNext, PTL DEF Spec
<1> QED BY <1>1, InvGivesOffers, PTL

-----------------------------------------------------------------------------
(***************************************************************************)
(* Dates and times.  First the calendar of the code.                       *)
(***************************************************************************)

CodeDates == {d \in [month : Int, day : 1 .. 31] : d.month = 6 => d.day <= 30}

ClockTimes == [date : CodeDates, moment : Moments]

\* Days since the first of June.
Serial(d) == 31 * (d.month - 6) + d.day - (IF d.month >= 7 THEN 2 ELSE 1)

Minutes(t) == Serial(t.date) * 1440 + t.moment.hour * 60 + t.moment.minute

Far(d) == Date(d.month + (d.day - 1) \div 31, ((d.day - 1) % 31) + 1)

CarriedTo == [d \in Dates |-> IF d.day >= 32 THEN Far(d) ELSE d]

LEMMA CarriedToUnfolds ==
  CarriedTo = [d \in Dates |->
               IF d.day >= 32 THEN CarriedTo[Date(d.month + 1, d.day - 31)] ELSE d]
<1>1. ASSUME NEW d \in Dates, d.day >= 32
      PROVE  Far(d) = CarriedTo[Date(d.month + 1, d.day - 31)]
  <2>1. PICK m \in Int, n \in Int : d = [month |-> m, day |-> n]
    BY DEF Dates
  <2>2. Date(m + 1, n - 31) \in Dates
    BY DEF Dates, Date
  <2>3. CASE n - 31 >= 32
    BY <2>1, <2>2, <2>3 DEF CarriedTo, Far, Date
  <2>4. CASE ~(n - 31 >= 32)
    BY <1>1, <2>1, <2>2, <2>4 DEF CarriedTo, Far, Date
  <2> QED BY <2>3, <2>4
<1> QED BY <1>1 DEF CarriedTo

LEMMA CarriedUnfolds ==
  Carried = [d \in Dates |->
               IF d.day >= 32 THEN Carried[Date(d.month + 1, d.day - 31)] ELSE d]
BY CarriedToUnfolds DEF Carried

LEMMA CarriedIs ==
  \A d \in Dates : Carried[d] = CarriedTo[d]
<1> DEFINE S == {n \in Nat : \A d \in Dates : d.day = n => Carried[d] = CarriedTo[d]}
<1>1. ASSUME NEW d \in Dates, ~(d.day >= 32) PROVE Carried[d] = CarriedTo[d]
  BY <1>1, CarriedUnfolds, CarriedToUnfolds
<1>2. ASSUME NEW n \in Nat, \A m \in Nat : m < n => m \in S PROVE n \in S
  <2>1. SUFFICES ASSUME NEW d \in Dates, d.day = n, n >= 32 PROVE Carried[d] = CarriedTo[d]
    BY <1>1
  <2> DEFINE e == Date(d.month + 1, d.day - 31)
  <2>2. e \in Dates /\ e.day = n - 31
    BY <2>1 DEF Dates, Date
  <2>3. Carried[e] = CarriedTo[e]
    <3>1. n - 31 \in Nat /\ n - 31 < n
      BY <2>1
    <3> QED BY <1>2, <2>2, <3>1
  <2>4. Carried[d] = Carried[e] /\ CarriedTo[d] = CarriedTo[e]
    BY <2>1, CarriedUnfolds, CarriedToUnfolds
  <2> QED BY <2>3, <2>4
<1>3. \A n \in Nat : n \in S
  <2>1. S \in SUBSET Nat
    OBVIOUS
  <2> HIDE DEF S
  <2> QED BY <1>2, <2>1, CourseOfValues
<1>4. ASSUME NEW d \in Dates, d.day >= 32 PROVE Carried[d] = CarriedTo[d]
  <2>1. d.day \in Nat
    BY <1>4 DEF Dates
  <2> QED BY <1>3, <2>1
<1> QED BY <1>1, <1>4

DateOf(n) ==
  IF n >= 30 THEN Date(6 + (n + 1) \div 31, ((n + 1) % 31) + 1)
  ELSE Date(6 + n \div 31, (n % 31) + 1)

BorrowedTo == [d \in Dates |-> IF d.day <= 0 THEN DateOf(Serial(d)) ELSE d]

Earlier(d) == Date(d.month - 1, d.day + (IF d.month = 7 THEN 30 ELSE 31))

LEMMA EarlierIsDate ==
  ASSUME NEW d \in Dates
  PROVE  Earlier(d) \in Dates
BY DEF Dates, Date, Earlier

LEMMA DateParts ==
  ASSUME NEW d \in CodeDates
  PROVE  \E m \in Int, n \in 1 .. 31 : d = [month |-> m, day |-> n] /\ (m = 6 => n <= 30)
BY DEF CodeDates

LEMMA MomentParts ==
  ASSUME NEW moment \in Moments
  PROVE  \E h \in 0 .. 23, k \in 0 .. 59 : moment = [hour |-> h, minute |-> k]
BY DEF Moments

LEMMA DateOfSerial ==
  ASSUME NEW d \in CodeDates
  PROVE  DateOf(Serial(d)) = d
<1>1. PICK m \in Int, n \in 1 .. 31 : d = [month |-> m, day |-> n]
  BY DEF CodeDates
<1>2. CASE m >= 7
  BY <1>1, <1>2 DEF DateOf, Serial, Date
<1>3. CASE ~(m >= 7)
  <2>1. m = 6 => n <= 30
    BY <1>1 DEF CodeDates
  <2> QED BY <1>1, <1>3, <2>1 DEF DateOf, Serial, Date
<1> QED BY <1>2, <1>3

LEMMA BorrowedToUnfolds ==
  BorrowedTo = [d \in Dates |-> IF d.day <= 0 THEN BorrowedTo[Earlier(d)] ELSE d]
<1>1. ASSUME NEW d \in Dates, d.day <= 0
      PROVE  DateOf(Serial(d)) = BorrowedTo[Earlier(d)]
  <2>1. PICK m \in Int, n \in Int : d = [month |-> m, day |-> n]
    BY DEF Dates
  <2>2. Earlier(d) \in Dates
    BY <2>1 DEF Dates, Date, Earlier
  <2>3. Serial(Earlier(d)) = Serial(d)
    BY <2>1 DEF Serial, Earlier, Date
  <2>4. CASE Earlier(d).day <= 0
    BY <2>2, <2>3, <2>4 DEF BorrowedTo
  <2>5. CASE ~(Earlier(d).day <= 0)
    <3>1. Earlier(d) \in CodeDates
      BY <1>1, <2>1, <2>5 DEF Earlier, Date, CodeDates
    <3> QED BY <2>2, <2>3, <2>5, <3>1, DateOfSerial DEF BorrowedTo
  <2> QED BY <2>4, <2>5
<1> QED BY <1>1 DEF BorrowedTo

LEMMA BorrowedUnfolds ==
  Borrowed = [d \in Dates |-> IF d.day <= 0 THEN Borrowed[Earlier(d)] ELSE d]
BY BorrowedToUnfolds DEF Borrowed, Earlier

LEMMA BorrowedIs ==
  \A d \in Dates : Borrowed[d] = BorrowedTo[d]
<1> DEFINE S == {n \in Nat : \A d \in Dates : 0 - d.day = n => Borrowed[d] = BorrowedTo[d]}
<1>1. ASSUME NEW d \in Dates, ~(d.day <= 0) PROVE Borrowed[d] = BorrowedTo[d]
  BY <1>1, BorrowedUnfolds, BorrowedToUnfolds
<1>2. ASSUME NEW n \in Nat, \A m \in Nat : m < n => m \in S PROVE n \in S
  <2>1. SUFFICES ASSUME NEW d \in Dates, 0 - d.day = n PROVE Borrowed[d] = BorrowedTo[d]
    OBVIOUS
  <2>2. PICK e \in Dates : e = Earlier(d)
    BY EarlierIsDate
  <2>3. e.day \in Int /\ d.day \in Int /\ e.day >= d.day + 30
    BY <2>2 DEF Dates, Date, Earlier
  <2>4. Borrowed[e] = BorrowedTo[e]
    <3>1. CASE ~(e.day <= 0)
      BY <1>1, <3>1
    <3>2. CASE e.day <= 0
      <4>1. 0 - e.day \in Nat /\ 0 - e.day < n
        BY <2>1, <2>3, <3>2
      <4> QED BY <1>2, <4>1
    <3> QED BY <3>1, <3>2
  <2>5. d.day <= 0
    BY <2>1, <2>3
  <2>6. Borrowed[d] = Borrowed[e] /\ BorrowedTo[d] = BorrowedTo[e]
    BY <2>2, <2>5, BorrowedUnfolds, BorrowedToUnfolds
  <2> QED BY <2>4, <2>6
<1>3. \A n \in Nat : n \in S
  <2>1. S \in SUBSET Nat
    OBVIOUS
  <2> HIDE DEF S
  <2> QED BY <1>2, <2>1, CourseOfValues
<1>4. ASSUME NEW d \in Dates, d.day <= 0 PROVE Borrowed[d] = BorrowedTo[d]
  <2>1. 0 - d.day \in Nat
    BY <1>4 DEF Dates
  <2> QED BY <1>3, <2>1
<1> QED BY <1>1, <1>4

LEMMA DateOfIsDate ==
  ASSUME NEW n \in Int
  PROVE  DateOf(n) \in CodeDates /\ Serial(DateOf(n)) = n
<1>1. CASE n >= 30
  BY <1>1 DEF DateOf, Serial, Date, CodeDates
<1>2. CASE ~(n >= 30)
  BY <1>2 DEF DateOf, Serial, Date, CodeDates
<1> QED BY <1>1, <1>2

LEMMA CarriedSerial ==
  ASSUME NEW d \in Dates, d.month >= 7, d.day >= 1
  PROVE  /\ Carried[d] \in CodeDates /\ Carried[d].month >= 7
         /\ Serial(Carried[d]) = Serial(d)
<1>1. PICK m \in Int, n \in Int : d = [month |-> m, day |-> n]
  BY DEF Dates
<1>2. Carried[d] = CarriedTo[d]
  BY CarriedIs
<1>3. CASE n >= 32
  BY <1>1, <1>2, <1>3 DEF CarriedTo, Far, Date, Serial, CodeDates
<1>4. CASE ~(n >= 32)
  BY <1>1, <1>2, <1>4 DEF CarriedTo, Serial, CodeDates
<1> QED BY <1>3, <1>4

LEMMA BorrowedSerial ==
  ASSUME NEW d \in Dates, d.day >= 1 => d \in CodeDates
  PROVE  Borrowed[d] \in CodeDates /\ Serial(Borrowed[d]) = Serial(d)
<1>1. PICK m \in Int, n \in Int : d = [month |-> m, day |-> n]
  BY DEF Dates
<1>2. Borrowed[d] = BorrowedTo[d]
  BY BorrowedIs
<1>3. CASE n <= 0
  <2>1. Serial(d) \in Int
    BY <1>1 DEF Serial
  <2> QED BY <1>1, <1>2, <1>3, <2>1, DateOfIsDate DEF BorrowedTo
<1>4. CASE ~(n <= 0)
  BY <1>1, <1>2, <1>4 DEF BorrowedTo
<1> QED BY <1>3, <1>4

\* Hours and minutes: what is carried into days, and what is left.
Days(moment, n) == (moment.hour + (moment.minute + n) \div 60) \div 24

Rest(moment, n) ==
  [hour |-> (moment.hour + (moment.minute + n) \div 60) % 24, minute |-> (moment.minute + n) % 60]

MomentMinutes(moment) == moment.hour * 60 + moment.minute

LEMMA DaysAndRest ==
  ASSUME NEW moment \in Moments, NEW n \in Int
  PROVE  /\ Days(moment, n) \in Int /\ Rest(moment, n) \in Moments
         /\ Days(moment, n) * 1440 + MomentMinutes(Rest(moment, n))
              = MomentMinutes(moment) + n
         /\ n >= 0 => Days(moment, n) >= 0
         /\ n <= 0 => Days(moment, n) <= 0
<1>1. PICK h \in 0 .. 23, m \in 0 .. 59 : moment = [hour |-> h, minute |-> m]
  BY DEF Moments
<1>2. PICK k \in Int : k = m + n
  OBVIOUS
<1>3. PICK q \in Int : q = k \div 60
  OBVIOUS
<1>4. k % 60 \in 0 .. 59 /\ 60 * q + (k % 60) = k
  BY <1>3
<1>5. PICK l \in Int : l = h + q
  OBVIOUS
<1>6. PICK p \in Int : p = l \div 24
  OBVIOUS
<1>7. l % 24 \in 0 .. 23 /\ 24 * p + (l % 24) = l
  BY <1>6
<1>8. Days(moment, n) = p /\ Rest(moment, n) = [hour |-> l % 24, minute |-> k % 60]
  BY <1>1, <1>2, <1>3, <1>5, <1>6 DEF Days, Rest
<1> QED BY <1>1, <1>2, <1>4, <1>5, <1>7, <1>8 DEF Moments, MomentMinutes

LEMMA TimeParts ==
  ASSUME NEW t \in ClockTimes
  PROVE  /\ \E m \in Int, d \in 1 .. 31 : t.date = [month |-> m, day |-> d] /\ (m = 6 => d <= 30)
         /\ \E h \in 0 .. 23, k \in 0 .. 59 : t.moment = [hour |-> h, minute |-> k]
<1>1. t.date \in CodeDates /\ t.moment \in Moments
  BY DEF ClockTimes
<1>2. \E m \in Int, d \in 1 .. 31 : t.date = [month |-> m, day |-> d] /\ (m = 6 => d <= 30)
  BY <1>1, DateParts
<1> QED BY <1>1, <1>2, MomentParts

LEMMA MomentCount ==
  ASSUME NEW moment \in Moments
  PROVE  MomentMinutes(moment) \in Int /\ MomentMinutes(moment) \in 0 .. 1439
<1>1. PICK h \in 0 .. 23, k \in 0 .. 59 : moment = [hour |-> h, minute |-> k]
  BY MomentParts
<1> QED BY <1>1 DEF MomentMinutes

IsMinute(m) == m \in 0 .. 1439

LEMMA MomentIsMinute ==
  ASSUME NEW moment \in Moments
  PROVE  IsMinute(MomentMinutes(moment))
BY MomentCount DEF IsMinute

LEMMA MinutesAre ==
  ASSUME NEW t \in ClockTimes
  PROVE  /\ t = [date |-> t.date, moment |-> t.moment]
         /\ t.date \in CodeDates /\ t.moment \in Moments
         /\ Minutes(t) = Serial(t.date) * 1440 + MomentMinutes(t.moment)
         /\ Minutes(t) \in Int /\ Serial(t.date) \in Int
         /\ MomentMinutes(t.moment) \in 0 .. 1439
<1>1. t = [date |-> t.date, moment |-> t.moment] /\ t.date \in CodeDates /\ t.moment \in Moments
  BY DEF ClockTimes
<1>2. PICK m \in Int, n \in 1 .. 31 : t.date = [month |-> m, day |-> n]
  BY <1>1 DEF CodeDates
<1>3. PICK h \in 0 .. 23, k \in 0 .. 59 : t.moment = [hour |-> h, minute |-> k]
  BY <1>1, MomentParts
<1>4. Serial(t.date) \in Int
  BY <1>2 DEF Serial
<1> QED BY <1>1, <1>3, <1>4 DEF MomentMinutes, Minutes

LEMMA TimeTyped ==
  ASSUME NEW t \in ClockTimes
  PROVE  t.date \in CodeDates /\ t.moment \in Moments
BY DEF ClockTimes

LEMMA PlusIs ==
  ASSUME NEW t, NEW n
  PROVE  Plus(t, n) =
           LET day == t.date.day + Days(t.moment, n)
           IN Time(Carried[IF day >= 31 /\ t.date.month = 6 THEN Date(7, day - 30)
                           ELSE Date(t.date.month, day)], Rest(t.moment, n))
BY DEF Plus, Days, Rest

LEMMA MinusIs ==
  ASSUME NEW t \in ClockTimes, NEW n \in Int
  PROVE  Minus(t, n) =
           Time(Borrowed[Date(t.date.month, t.date.day + Days(t.moment, 0 - n))],
                Rest(t.moment, 0 - n))
<1>1. t.moment.minute - n = t.moment.minute + (0 - n)
  BY DEF ClockTimes, Moments
<1> QED BY <1>1 DEF Minus, Days, Rest

LEMMA PlusCounts ==
  ASSUME NEW t \in ClockTimes, NEW n \in Nat, t.date.month >= 6
  PROVE  /\ Plus(t, n) \in ClockTimes /\ Plus(t, n).date.month >= 6
         /\ Minutes(Plus(t, n)) = Minutes(t) + n
<1>1. PICK m \in Int, d \in 1 .. 31 : t.date = [month |-> m, day |-> d] /\ (m = 6 => d <= 30)
  BY TimeParts
<1>2. PICK q \in Nat : q = Days(t.moment, n)
  BY DaysAndRest, MinutesAre
<1>3. PICK c \in Moments : c = Rest(t.moment, n)
  BY DaysAndRest, MinutesAre
<1>4. q * 1440 + MomentMinutes(c) = MomentMinutes(t.moment) + n
  BY <1>2, <1>3, DaysAndRest, MinutesAre
<1>5. PICK e : e = (IF d + q >= 31 /\ m = 6 THEN Date(7, d + q - 30) ELSE Date(m, d + q))
  OBVIOUS
<1>6. Plus(t, n) = Time(Carried[e], c)
  BY <1>1, <1>2, <1>3, <1>5, PlusIs
<1>7. Carried[e] \in CodeDates /\ Carried[e].month >= 6 /\ Serial(Carried[e]) = Serial(t.date) + q
  <2>1. CASE m = 6 /\ d + q <= 30
    <3>1. e = [month |-> 6, day |-> d + q] /\ e \in Dates /\ e \in CodeDates /\ ~(e.day >= 32)
      BY <1>5, <2>1 DEF Date, Dates, CodeDates
    <3>2. Carried[e] = e
      BY <3>1, CarriedUnfolds
    <3> QED BY <1>1, <2>1, <3>1, <3>2 DEF Serial
  <2>2. CASE ~(m = 6 /\ d + q <= 30)
    <3>1. /\ e \in Dates /\ e.month >= 7 /\ e.day >= 1
          /\ Serial(e) = Serial(t.date) + q
      BY <1>1, <1>5, <2>2 DEF Date, Dates, Serial
    <3>2. /\ Carried[e] \in CodeDates /\ Carried[e].month >= 7
          /\ Serial(Carried[e]) = Serial(e)
      BY <3>1, CarriedSerial
    <3>3. Carried[e].month \in Int
      BY <3>2 DEF CodeDates
    <3> QED BY <3>1, <3>2, <3>3
  <2> QED BY <2>1, <2>2
<1>8. Plus(t, n) \in ClockTimes /\ Plus(t, n).date = Carried[e] /\ Plus(t, n).moment = c
  BY <1>6, <1>7 DEF Time, ClockTimes
<1>9. Minutes(Plus(t, n)) = (Serial(t.date) + q) * 1440 + MomentMinutes(c)
  BY <1>7, <1>8, MinutesAre
<1>10. MomentMinutes(c) \in Int /\ MomentMinutes(t.moment) \in Int /\ Serial(t.date) \in Int
  BY MomentCount, MinutesAre
<1>11. Minutes(t) = Serial(t.date) * 1440 + MomentMinutes(t.moment)
  BY MinutesAre
<1>12. PICK x \in Int, y \in Int, z \in Int :
         x = MomentMinutes(c) /\ y = MomentMinutes(t.moment) /\ z = Serial(t.date)
  BY <1>10
<1>13. q * 1440 + x = y + n
  BY <1>4, <1>12
<1>14. (z + q) * 1440 + x = z * 1440 + y + n
  BY <1>13
<1>15. Minutes(Plus(t, n)) = (z + q) * 1440 + x /\ Minutes(t) = z * 1440 + y
  BY <1>9, <1>11, <1>12
<1> QED BY <1>7, <1>8, <1>14, <1>15

LEMMA MinusCounts ==
  ASSUME NEW t \in ClockTimes, NEW n \in Nat
  PROVE  Minus(t, n) \in ClockTimes /\ Minutes(Minus(t, n)) = Minutes(t) - n
<1>1. PICK m \in Int, d \in 1 .. 31 : t.date = [month |-> m, day |-> d] /\ (m = 6 => d <= 30)
  BY TimeParts
<1>2. PICK q \in Int : q = Days(t.moment, 0 - n) /\ q <= 0
  BY DaysAndRest, MinutesAre
<1>3. PICK c \in Moments : c = Rest(t.moment, 0 - n)
  BY DaysAndRest, MinutesAre
<1>4. q * 1440 + MomentMinutes(c) = MomentMinutes(t.moment) - n
  <2>1. q * 1440 + MomentMinutes(c) = MomentMinutes(t.moment) + (0 - n)
    BY <1>2, <1>3, DaysAndRest, MinutesAre
  <2>2. MomentMinutes(t.moment) \in Int
    BY MinutesAre
  <2> QED BY <2>1, <2>2
<1>5. PICK e : e = Date(m, d + q)
  OBVIOUS
<1>6. Minus(t, n) = Time(Borrowed[e], c)
  BY <1>1, <1>2, <1>3, <1>5, MinusIs
<1>7. Borrowed[e] \in CodeDates /\ Serial(Borrowed[e]) = Serial(t.date) + q
  <2>1. /\ e = [month |-> m, day |-> d + q] /\ d + q \in Int /\ d + q <= d
    BY <1>2, <1>5 DEF Date
  <2>2. e \in Dates /\ Serial(e) = Serial(t.date) + q
    BY <1>1, <2>1 DEF Dates, Serial
  <2>3. ASSUME e.day >= 1 PROVE e \in CodeDates
    BY <1>1, <2>1, <2>3 DEF CodeDates
  <2> QED BY <2>2, <2>3, BorrowedSerial
<1>8. Minus(t, n) \in ClockTimes /\ Minus(t, n).date = Borrowed[e] /\ Minus(t, n).moment = c
  BY <1>6, <1>7 DEF Time, ClockTimes
<1>9. Minutes(Minus(t, n)) = (Serial(t.date) + q) * 1440 + MomentMinutes(c)
  BY <1>7, <1>8, MinutesAre
<1>10. MomentMinutes(c) \in Int /\ MomentMinutes(t.moment) \in Int /\ Serial(t.date) \in Int
  BY MomentCount, MinutesAre
<1>11. Minutes(t) = Serial(t.date) * 1440 + MomentMinutes(t.moment)
  BY MinutesAre
<1>12. PICK x \in Int, y \in Int, z \in Int :
         x = MomentMinutes(c) /\ y = MomentMinutes(t.moment) /\ z = Serial(t.date)
  BY <1>10
<1>13. q * 1440 + x = y - n
  BY <1>4, <1>12
<1>14. (z + q) * 1440 + x = z * 1440 + y - n
  BY <1>13
<1>15. Minutes(Minus(t, n)) = (z + q) * 1440 + x /\ Minutes(t) = z * 1440 + y
  BY <1>9, <1>11, <1>12
<1> QED BY <1>7, <1>8, <1>14, <1>15

LEMMA DayCounts ==
  ASSUME NEW t \in ClockTimes
  PROVE  /\ Plus(t, 1440) \in ClockTimes /\ Plus(t, 1440).moment = t.moment
         /\ Minutes(Plus(t, 1440)) = Minutes(t) + 1440
<1>1. PICK m \in Int, d \in 1 .. 31 : t.date = [month |-> m, day |-> d] /\ (m = 6 => d <= 30)
  BY TimeParts
<1>2. Days(t.moment, 1440) = 1 /\ Rest(t.moment, 1440) = t.moment
  <2>1. PICK h \in 0 .. 23, k \in 0 .. 59 : t.moment = [hour |-> h, minute |-> k]
    BY TimeParts
  <2>2. (k + 1440) \div 60 = 24 /\ (k + 1440) % 60 = k
    OBVIOUS
  <2>3. (h + 24) \div 24 = 1 /\ (h + 24) % 24 = h
    OBVIOUS
  <2> QED BY <2>1, <2>2, <2>3 DEF Days, Rest
<1>3. PICK e : e = (IF d + 1 >= 31 /\ m = 6 THEN Date(7, d + 1 - 30) ELSE Date(m, d + 1))
  OBVIOUS
<1>4. Plus(t, 1440) = Time(Carried[e], t.moment)
  BY <1>1, <1>2, <1>3, PlusIs
<1>5. Carried[e] \in CodeDates /\ Serial(Carried[e]) = Serial(t.date) + 1
  <2>1. e \in Dates /\ Carried[e] = CarriedTo[e]
    BY <1>1, <1>3, CarriedIs DEF Date, Dates
  <2>2. CASE d + 1 = 32
    BY <1>1, <1>3, <2>1, <2>2 DEF Date, Dates, CarriedTo, Far, CodeDates, Serial
  <2>3. CASE d + 1 <= 31
    BY <1>1, <1>3, <2>1, <2>3 DEF Date, Dates, CarriedTo, CodeDates, Serial
  <2> QED BY <2>2, <2>3
<1>6. Plus(t, 1440) \in ClockTimes /\ Plus(t, 1440).date = Carried[e] /\ Plus(t, 1440).moment = t.moment
  BY <1>4, <1>5, MinutesAre DEF Time, ClockTimes
<1>7. Minutes(Plus(t, 1440)) = (Serial(t.date) + 1) * 1440 + MomentMinutes(t.moment)
  BY <1>5, <1>6, MinutesAre
<1>8. PICK x \in Int, y \in Int : x = Serial(t.date) /\ y = MomentMinutes(t.moment)
  BY MinutesAre
<1>9. Minutes(Plus(t, 1440)) = (x + 1) * 1440 + y /\ Minutes(t) = x * 1440 + y
  BY <1>7, <1>8, MinutesAre
<1>10. (x + 1) * 1440 + y = x * 1440 + y + 1440
  OBVIOUS
<1> QED BY <1>6, <1>9, <1>10

-----------------------------------------------------------------------------
(* Earlier and later. *)

LEMMA DatesInOrder ==
  ASSUME NEW d \in CodeDates, NEW e \in CodeDates
  PROVE  /\ DateLess(d, e) <=> Serial(d) < Serial(e)
         /\ d = e <=> Serial(d) = Serial(e)
         /\ DateLeq(d, e) <=> Serial(d) <= Serial(e)
<1>1. PICK m \in Int, n \in 1 .. 31 : d = [month |-> m, day |-> n] /\ (m = 6 => n <= 30)
  BY DateParts
<1>2. PICK k \in Int, l \in 1 .. 31 : e = [month |-> k, day |-> l] /\ (k = 6 => l <= 30)
  BY DateParts
<1>3. DateLess(d, e) <=> Serial(d) < Serial(e)
  BY <1>1, <1>2 DEF DateLess, Serial
<1>4. d = e <=> Serial(d) = Serial(e)
  BY <1>1, <1>2 DEF Serial
<1>5. Serial(d) \in Int /\ Serial(e) \in Int
  BY <1>1, <1>2 DEF Serial
<1> QED BY <1>3, <1>4, <1>5 DEF DateLeq

LEMMA MomentsInOrder ==
  ASSUME NEW m \in Moments, NEW n \in Moments
  PROVE  /\ MomentLeq(m, n) <=> MomentMinutes(m) <= MomentMinutes(n)
         /\ m = n <=> MomentMinutes(m) = MomentMinutes(n)
<1>1. PICK h \in 0 .. 23, k \in 0 .. 59 : m = [hour |-> h, minute |-> k]
  BY MomentParts
<1>2. PICK i \in 0 .. 23, l \in 0 .. 59 : n = [hour |-> i, minute |-> l]
  BY MomentParts
<1> QED BY <1>1, <1>2 DEF MomentLeq, MomentMinutes

\* When a clock shows day a and minute m of it.
Reads(t, a, m) ==
  /\ a \in Int /\ m \in 0 .. 1439
  /\ a = Serial(t.date) /\ m = MomentMinutes(t.moment) /\ Minutes(t) = a * 1440 + m

LEMMA ClockReads ==
  ASSUME NEW t \in ClockTimes
  PROVE  \E a, m : Reads(t, a, m)
<1>1. /\ Serial(t.date) \in Int /\ MomentMinutes(t.moment) \in 0 .. 1439
      /\ Minutes(t) = Serial(t.date) * 1440 + MomentMinutes(t.moment)
  BY MinutesAre
<1>2. Reads(t, Serial(t.date), MomentMinutes(t.moment))
  BY <1>1 DEF Reads
<1> QED BY <1>2

LEMMA TimesInOrder ==
  ASSUME NEW s \in ClockTimes, NEW t \in ClockTimes
  PROVE  /\ TimeLess(s, t) <=> Minutes(s) < Minutes(t)
         /\ s = t <=> Minutes(s) = Minutes(t)
<1>1. PICK a, m : Reads(s, a, m)
  BY ClockReads, Zenon
<1>2. PICK b, n : Reads(t, b, n)
  BY ClockReads, Zenon
<1>4. s.date \in CodeDates /\ t.date \in CodeDates /\ s.moment \in Moments /\ t.moment \in Moments
  BY TimeTyped
<1>3. /\ a = Serial(s.date) /\ m = MomentMinutes(s.moment)
      /\ b = Serial(t.date) /\ n = MomentMinutes(t.moment)
  BY <1>1, <1>2 DEF Reads
<1>5. DateLess(s.date, t.date) <=> a < b
  BY <1>3, <1>4, DatesInOrder
<1>6. s.date = t.date <=> a = b
  BY <1>3, <1>4, DatesInOrder
<1>7. MomentLeq(t.moment, s.moment) <=> n <= m
  BY <1>3, <1>4, MomentsInOrder
<1>8. s.moment = t.moment <=> m = n
  BY <1>3, <1>4, MomentsInOrder
<1>9. s = t <=> s.date = t.date /\ s.moment = t.moment
  BY DEF ClockTimes
<1>10. TimeLess(s, t) <=> a < b \/ (a = b /\ ~(n <= m))
  BY <1>5, <1>6, <1>7 DEF TimeLess
<1>11. s = t <=> a = b /\ m = n
  BY <1>6, <1>8, <1>9
<1>14. a \in Int /\ b \in Int /\ m \in 0 .. 1439 /\ n \in 0 .. 1439
  BY <1>1, <1>2 DEF Reads
<1>15. Minutes(s) = a * 1440 + m /\ Minutes(t) = b * 1440 + n
  BY <1>1, <1>2 DEF Reads
<1>13. /\ a * 1440 + m < b * 1440 + n <=> a < b \/ (a = b /\ ~(n <= m))
       /\ a * 1440 + m = b * 1440 + n <=> a = b /\ m = n
  BY <1>14
<1> QED BY <1>10, <1>11, <1>13, <1>15

\* Another moment of the same day.
LEMMA MomentSet ==
  ASSUME NEW u \in ClockTimes, NEW moment \in Moments, NEW b, NEW k, Reads(u, b, k)
  PROVE  /\ SetMoment(u, moment) \in ClockTimes /\ SetMoment(u, moment).moment = moment
         /\ Reads(SetMoment(u, moment), b, MomentMinutes(moment))
<1>1. PICK v : v = SetMoment(u, moment)
  OBVIOUS
<1>2. v \in ClockTimes /\ v.moment = moment /\ v.date = u.date
  BY <1>1 DEF SetMoment, ClockTimes
<1>3. PICK c, l : Reads(v, c, l)
  BY <1>2, ClockReads, Zenon
<1>4. Reads(v, b, MomentMinutes(moment))
  BY <1>2, <1>3 DEF Reads
<1> QED BY <1>1, <1>2, <1>4

\* The first time of day of a start at t or after it.
LEMMA FirstStartIs ==
  ASSUME NEW t \in ClockTimes, NEW tr, tr.start_time \in Moments
  PROVE  /\ FirstStart(t, tr) \in ClockTimes /\ FirstStart(t, tr).moment = tr.start_time
         /\ Minutes(FirstStart(t, tr)) \in Minutes(t) .. Minutes(t) + 1439
<1>1. PICK a, m : Reads(t, a, m)
  BY ClockReads, Zenon
<1>2. PICK n : n = MomentMinutes(tr.start_time) /\ IsMinute(n)
  BY MomentIsMinute, Zenon
<1>3. MomentLeq(t.moment, tr.start_time) <=> m <= n
  BY <1>1, <1>2, TimeTyped, MomentsInOrder DEF Reads
<1>6. a \in Int /\ m \in 0 .. 1439
  BY <1>1 DEF Reads
<1>4. CASE m <= n
  <2>1. FirstStart(t, tr) = SetMoment(t, tr.start_time)
    BY <1>3, <1>4 DEF FirstStart
  <2>2. /\ SetMoment(t, tr.start_time) \in ClockTimes
        /\ SetMoment(t, tr.start_time).moment = tr.start_time
        /\ Reads(SetMoment(t, tr.start_time), a, n)
    BY <1>1, <1>2, MomentSet
  <2>4. a * 1440 + n \in a * 1440 + m .. a * 1440 + m + 1439
    <3>1. n \in 0 .. 1439
      BY <1>2 DEF IsMinute
    <3> QED BY <3>1, <1>4, <1>6
  <2>3. PICK w : w = SetMoment(t, tr.start_time) /\ Reads(w, a, n)
    BY <2>2
  <2>5. Minutes(w) = a * 1440 + n
    BY <2>3 DEF Reads
  <2>6. Minutes(t) = a * 1440 + m
    BY <1>1 DEF Reads
  <2> QED BY <2>1, <2>2, <2>3, <2>4, <2>5, <2>6
<1>5. CASE ~(m <= n)
  <2>1. FirstStart(t, tr) = SetMoment(Plus(t, 1440), tr.start_time)
    BY <1>3, <1>5 DEF FirstStart
  <2>2. PICK u : u = Plus(t, 1440)
    OBVIOUS
  <2>3. Minutes(u) = Minutes(t) + 1440 /\ u.moment = t.moment
    BY <2>2, DayCounts
  <2>10. u \in ClockTimes
    BY <2>2, DayCounts
  <2>4. PICK b, k : Reads(u, b, k)
    BY <2>10, ClockReads, Zenon
  <2>5. b = a + 1
    <3>1. m \in Int /\ a \in Int /\ Minutes(t) = a * 1440 + m /\ m = MomentMinutes(t.moment)
      BY <1>1 DEF Reads
    <3>2. b \in Int /\ Minutes(u) = b * 1440 + k /\ k = MomentMinutes(u.moment)
      BY <2>4 DEF Reads
    <3>3. k = m
      BY <2>3, <3>1, <3>2
    <3>4. b * 1440 + m = a * 1440 + m + 1440
      BY <2>3, <3>1, <3>2, <3>3
    <3> QED BY <3>1, <3>2, <3>4
  <2>6. /\ SetMoment(u, tr.start_time) \in ClockTimes
        /\ SetMoment(u, tr.start_time).moment = tr.start_time
        /\ Reads(SetMoment(u, tr.start_time), b, n)
    BY <1>2, <2>4, <2>10, MomentSet
  <2>8. (a + 1) * 1440 + n \in a * 1440 + m .. a * 1440 + m + 1439
    <3>1. n \in 0 .. 1439
      BY <1>2 DEF IsMinute
    <3> QED BY <3>1, <1>5, <1>6
  <2>7. PICK w : w = SetMoment(u, tr.start_time) /\ Reads(w, b, n)
    BY <2>6
  <2>12. Minutes(w) = b * 1440 + n
    BY <2>7 DEF Reads
  <2>9. Minutes(w) = (a + 1) * 1440 + n
    BY <2>5, <2>12
  <2>11. Minutes(t) = a * 1440 + m
    BY <1>1 DEF Reads
  <2> QED BY <2>1, <2>2, <2>6, <2>7, <2>8, <2>9, <2>11
<1> QED BY <1>4, <1>5
-----------------------------------------------------------------------------
(* Sums.  A sum of naturals is the size of a set with that many elements   *)
(* for each of them, so that the order of adding up does not matter.       *)

Some(s) == CHOOSE x \in s : TRUE

\* What the fold over S computes for a subset.
Sums(seq, S, f) ==
  f = [s \in SUBSET S |-> IF s = {} THEN 0 ELSE seq[Some(s)] + f[s \ {Some(s)}]]

Units(seq, s) == {u \in s \X Nat : u[2] \in 1 .. seq[u[1]]}

NatsAt(seq, S) == \A i \in S : seq[i] \in Nat

LEMMA SumUnfolds ==
  ASSUME NEW seq, NEW a, NEW b
  PROVE  SumFrom(seq, a, b) = (CHOOSE f : Sums(seq, a .. b, f))[a .. b]
BY DEF SumFrom, MapThenSumSet, MapThenFoldSet, Sums, Some

LEMMA UnitsOfOne ==
  ASSUME NEW seq, NEW x, seq[x] \in Nat
  PROVE  IsFiniteSet(Units(seq, {x})) /\ Cardinality(Units(seq, {x})) = seq[x]
<1>1. PICK n \in Nat : n = seq[x]
  OBVIOUS
<1> DEFINE f == [k \in 1 .. n |-> <<x, k>>]
<1>2. f \in Bijection(1 .. n, Units(seq, {x}))
  <2>1. \A k \in 1 .. n : f[k] \in Units(seq, {x})
    BY <1>1 DEF Units
  <2>2. \A u \in Units(seq, {x}) : u[2] \in 1 .. n /\ f[u[2]] = u
    BY <1>1 DEF Units
  <2>3. \A k, l \in 1 .. n : f[k] = f[l] => k = l
    OBVIOUS
  <2> QED BY <2>1, <2>2, <2>3 DEF Bijection, Injection, Surjection, IsInjective
<1>3. ExistsBijection(1 .. n, Units(seq, {x}))
  BY <1>2 DEF ExistsBijection
<1>4. IsFiniteSet(1 .. n) /\ Cardinality(1 .. n) = n
  BY FS_Interval
<1> QED BY <1>1, <1>3, <1>4, FS_Bijection

LEMMA UnitsOfBoth ==
  ASSUME NEW seq, NEW s, NEW t, s \cap t = {},
         IsFiniteSet(Units(seq, s)), IsFiniteSet(Units(seq, t))
  PROVE  /\ IsFiniteSet(Units(seq, s \cup t))
         /\ Cardinality(Units(seq, s \cup t))
              = Cardinality(Units(seq, s)) + Cardinality(Units(seq, t))
<1>1. /\ Units(seq, s \cup t) = Units(seq, s) \cup Units(seq, t)
      /\ Units(seq, s) \cap Units(seq, t) = {}
  BY DEF Units
<1>2. /\ Cardinality(Units(seq, s)) \in Nat /\ Cardinality(Units(seq, t)) \in Nat
  BY FS_CardinalityType
<1>3. PICK A, B : A = Units(seq, s) /\ B = Units(seq, t)
  OBVIOUS
<1>4. IsFiniteSet(A) /\ IsFiniteSet(B)
  BY <1>3
<1>5. Cardinality(A \cap B) = 0
  BY <1>1, <1>3, FS_EmptySet
<1>6. /\ IsFiniteSet(A \cup B)
      /\ Cardinality(A \cup B) = Cardinality(A) + Cardinality(B) - Cardinality(A \cap B)
  BY <1>4, FS_Union
<1>7. Cardinality(A) \in Nat /\ Cardinality(B) \in Nat
  BY <1>2, <1>3
<1>8. Cardinality(A \cup B) = Cardinality(A) + Cardinality(B)
  BY <1>5, <1>6, <1>7
<1> QED BY <1>1, <1>3, <1>6, <1>8

LEMMA UnitsFinite ==
  ASSUME NEW seq, NEW S, IsFiniteSet(S), NatsAt(seq, S)
  PROVE  \A s \in SUBSET S : IsFiniteSet(Units(seq, s))
<1> DEFINE N == {n \in Nat : \A s \in SUBSET S : Cardinality(s) = n => IsFiniteSet(Units(seq, s))}
<1>1. \A s \in SUBSET S : IsFiniteSet(s) /\ Cardinality(s) \in Nat
  BY FS_Subset, FS_CardinalityType
<1>2. ASSUME NEW n \in Nat, \A m \in Nat : m < n => m \in N PROVE n \in N
  <2>1. SUFFICES ASSUME NEW s \in SUBSET S, Cardinality(s) = n PROVE IsFiniteSet(Units(seq, s))
    OBVIOUS
  <2>2. CASE s = {}
    BY <2>2, FS_EmptySet DEF Units
  <2>3. CASE s # {}
    <3>1. PICK x : x \in s
      BY <2>3
    <3>2. PICK r \in SUBSET S : r = s \ {x}
      OBVIOUS
    <3>3. Cardinality(r) = n - 1 /\ Cardinality(r) \in Nat
      BY <1>1, <2>1, <3>1, <3>2, FS_RemoveElement
    <3>4. IsFiniteSet(Units(seq, r))
      <4>1. n - 1 \in Nat /\ n - 1 < n
        BY <3>3
      <4> QED BY <1>2, <3>3, <4>1
    <3>5. IsFiniteSet(Units(seq, {x}))
      BY <3>1, UnitsOfOne DEF NatsAt
    <3>6. s = r \cup {x} /\ r \cap {x} = {}
      BY <3>1, <3>2
    <3> QED BY <3>4, <3>5, <3>6, UnitsOfBoth
  <2> QED BY <2>2, <2>3
<1>3. \A n \in Nat : n \in N
  <2>1. N \in SUBSET Nat
    OBVIOUS
  <2> HIDE DEF N
  <2> QED BY <1>2, <2>1, CourseOfValues
<1> QED BY <1>1, <1>3

\* Taking one element out.
LEMMA UnitsLess ==
  ASSUME NEW seq, NEW S, IsFiniteSet(S), NatsAt(seq, S), NEW s \in SUBSET S, NEW x \in s
  PROVE  Cardinality(Units(seq, s)) = seq[x] + Cardinality(Units(seq, s \ {x}))
<1>1. PICK r \in SUBSET S : r = s \ {x}
  OBVIOUS
<1>2. IsFiniteSet(Units(seq, r)) /\ IsFiniteSet(Units(seq, {x}))
  BY UnitsFinite
<1>3. Cardinality(Units(seq, {x})) = seq[x]
  BY UnitsOfOne DEF NatsAt
<1>4. s = r \cup {x} /\ r \cap {x} = {}
  BY <1>1
<1>5. Cardinality(Units(seq, s)) = Cardinality(Units(seq, r)) + Cardinality(Units(seq, {x}))
  BY <1>2, <1>4, UnitsOfBoth
<1>6. Cardinality(Units(seq, r)) \in Nat /\ seq[x] \in Nat
  BY <1>2, FS_CardinalityType DEF NatsAt
<1> QED BY <1>1, <1>3, <1>5, <1>6

LEMMA SumsAreUnits ==
  ASSUME NEW seq, NEW S, IsFiniteSet(S), NatsAt(seq, S)
  PROVE  (CHOOSE f : Sums(seq, S, f))[S] = Cardinality(Units(seq, S))
<1> DEFINE W == [s \in SUBSET S |-> Cardinality(Units(seq, s))]
<1>1. \A s \in SUBSET S : s # {} => Some(s) \in s
  BY DEF Some
<1>2. Sums(seq, S, W)
  <2>1. ASSUME NEW s \in SUBSET S, s # {}
        PROVE  W[s] = seq[Some(s)] + W[s \ {Some(s)}]
    BY <1>1, <2>1, UnitsLess
  <2>2. W[{}] = 0
    BY FS_EmptySet DEF Units
  <2> QED BY <2>1, <2>2 DEF Sums
<1>3. ASSUME NEW f, Sums(seq, S, f)
      PROVE  f[S] = W[S]
  <2> DEFINE N == {n \in Nat : \A s \in SUBSET S : Cardinality(s) = n => f[s] = W[s]}
  <2>1. \A s \in SUBSET S : IsFiniteSet(s) /\ Cardinality(s) \in Nat
    BY FS_Subset, FS_CardinalityType
  <2>2. ASSUME NEW n \in Nat, \A m \in Nat : m < n => m \in N PROVE n \in N
    <3>1. SUFFICES ASSUME NEW s \in SUBSET S, Cardinality(s) = n PROVE f[s] = W[s]
      OBVIOUS
    <3>2. CASE s = {}
      BY <1>2, <1>3, <3>2 DEF Sums
    <3>3. CASE s # {}
      <4>1. PICK r \in SUBSET S : r = s \ {Some(s)}
        OBVIOUS
      <4>2. Cardinality(r) = n - 1 /\ Cardinality(r) \in Nat
        BY <1>1, <2>1, <3>1, <3>3, <4>1, FS_RemoveElement
      <4>3. f[r] = W[r]
        <5>1. n - 1 \in Nat /\ n - 1 < n
          BY <4>2
        <5> QED BY <2>2, <4>2, <5>1
      <4>4. f[s] = seq[Some(s)] + f[r] /\ W[s] = seq[Some(s)] + W[r]
        BY <1>2, <1>3, <3>3, <4>1 DEF Sums
      <4> QED BY <4>3, <4>4
    <3> QED BY <3>2, <3>3
  <2>3. \A n \in Nat : n \in N
    <3>1. N \in SUBSET Nat
      OBVIOUS
    <3> HIDE DEF N
    <3> QED BY <2>2, <3>1, CourseOfValues
  <2> QED BY <2>1, <2>3
<1>4. Sums(seq, S, CHOOSE f : Sums(seq, S, f))
  BY <1>2
<1>5. (CHOOSE f : Sums(seq, S, f))[S] = W[S]
  BY <1>3, <1>4
<1> QED BY <1>5

LEMMA SumIs ==
  ASSUME NEW seq, NEW a \in Int, NEW b \in Int, NatsAt(seq, a .. b)
  PROVE  /\ SumFrom(seq, a, b) = Cardinality(Units(seq, a .. b))
         /\ SumFrom(seq, a, b) \in Nat
         /\ IsFiniteSet(Units(seq, a .. b))
<1>1. IsFiniteSet(a .. b)
  BY FS_Interval
<1>2. SumFrom(seq, a, b) = Cardinality(Units(seq, a .. b))
  BY <1>1, SumUnfolds, SumsAreUnits
<1>3. IsFiniteSet(Units(seq, a .. b))
  BY <1>1, UnitsFinite
<1> QED BY <1>2, <1>3, FS_CardinalityType

LEMMA SumSplits ==
  ASSUME NEW seq, NEW a \in Int, NEW b \in Int, NEW c \in Int, a <= b + 1, b <= c,
         NatsAt(seq, a .. c)
  PROVE  SumFrom(seq, a, c) = SumFrom(seq, a, b) + SumFrom(seq, b + 1, c)
<1>1. a .. c = (a .. b) \cup (b + 1 .. c) /\ (a .. b) \cap (b + 1 .. c) = {}
  OBVIOUS
<1>2. NatsAt(seq, a .. b) /\ NatsAt(seq, b + 1 .. c) /\ b + 1 \in Int
  BY <1>1 DEF NatsAt
<1>3. PICK d \in Int : d = b + 1
  OBVIOUS
<1>4. /\ SumFrom(seq, a, b) = Cardinality(Units(seq, a .. b))
      /\ SumFrom(seq, d, c) = Cardinality(Units(seq, d .. c))
      /\ SumFrom(seq, a, c) = Cardinality(Units(seq, a .. c))
      /\ IsFiniteSet(Units(seq, a .. b)) /\ IsFiniteSet(Units(seq, d .. c))
  BY <1>2, <1>3, SumIs
<1>5. Cardinality(Units(seq, a .. c)) = Cardinality(Units(seq, a .. b)) + Cardinality(Units(seq, d .. c))
  BY <1>1, <1>3, <1>4, UnitsOfBoth
<1> QED BY <1>3, <1>4, <1>5

LEMMA SumOfOne ==
  ASSUME NEW seq, NEW a \in Int, seq[a] \in Nat
  PROVE  SumFrom(seq, a, a) = seq[a]
<1>1. a .. a = {a} /\ NatsAt(seq, a .. a)
  BY DEF NatsAt
<1>2. SumFrom(seq, a, a) = Cardinality(Units(seq, a .. a))
  BY <1>1, SumIs
<1> QED BY <1>1, <1>2, UnitsOfOne

LEMMA SumOfNone ==
  ASSUME NEW seq, NEW a \in Int, NEW b \in Int, b < a
  PROVE  SumFrom(seq, a, b) = 0
<1>1. a .. b = {} /\ NatsAt(seq, a .. b)
  BY DEF NatsAt
<1>2. Units(seq, a .. b) = {}
  BY <1>1 DEF Units
<1> QED BY <1>1, <1>2, SumIs, FS_EmptySet

-----------------------------------------------------------------------------
(* Days that are in the calendar. *)

LEMMA DateIsDate ==
  ASSUME NEW d, IsDate(d)
  PROVE  d \in CodeDates /\ DayNumber(d) = Serial(d) /\ Serial(d) \in -31 .. 121
<1>1. PICK m \in 5 .. 9, n \in 1 .. 31 : d = [month |-> m, day |-> n] /\ (m \in {6, 9} => n <= 30)
  BY DEF IsDate, Dates, MonthLength
<1> QED BY <1>1 DEF CodeDates, DayNumber, DaysBefore, Serial

LEMMA CodeIsDate ==
  ASSUME NEW d \in CodeDates, Serial(d) \in -31 .. 121
  PROVE  IsDate(d) /\ DayNumber(d) = Serial(d)
<1>1. PICK m \in Int, n \in 1 .. 31 : d = [month |-> m, day |-> n] /\ (m = 6 => n <= 30)
  BY DateParts
<1>2. m \in 5 .. 9 /\ (m = 9 => n <= 30)
  BY <1>1 DEF Serial
<1>3. IsDate(d)
  BY <1>1, <1>2 DEF IsDate, Dates, MonthLength
<1> QED BY <1>3, DateIsDate

LEMMA InstantIsMinutes ==
  ASSUME NEW t, IsDate(t.date)
  PROVE  Instant(t) = Minutes(t)
BY DateIsDate DEF Instant, Minutes

\* The loop that counts the days from one date to another.
CountedDays == [month : 1 .. 13, day : 1 .. 31]

Counted(last, f) ==
  f = [d \in CountedDays |-> IF DateLess(d, last) THEN 1440 + f[NextDate(d)] ELSE 0]

LEMMA DifferenceUnfolds ==
  ASSUME NEW s, NEW t
  PROVE  Difference(t, s) =
           (t.moment.minute - s.moment.minute) + (t.moment.hour - s.moment.hour) * 60
             + (CHOOSE f : Counted(t.date, f))[s.date]
BY DEF Difference, Counted, CountedDays

\* The thirty-first of June is the first of July, but one step before it.
CountedTo(last) ==
  [d \in CountedDays |->
     IF DateLess(d, last)
     THEN 1440 * (Serial(last) - Serial(d) + (IF d = Date(6, 31) THEN 1 ELSE 0)) ELSE 0]

LEMMA NextDateIs ==
  ASSUME NEW d \in CodeDates
  PROVE  NextDate(d) \in CodeDates /\ Serial(NextDate(d)) = Serial(d) + 1
<1>1. PICK m \in Int, n \in 1 .. 31 : d = [month |-> m, day |-> n] /\ (m = 6 => n <= 30)
  BY DateParts
<1> QED BY <1>1 DEF NextDate, Date, CodeDates, Serial

LEMMA NextDateCounts ==
  ASSUME NEW d \in CountedDays, NEW last \in CountedDays, DateLess(d, last)
  PROVE  NextDate(d) \in CountedDays
<1>1. PICK m \in 1 .. 13, n \in 1 .. 31 : d = [month |-> m, day |-> n]
  BY DEF CountedDays
<1>2. PICK k \in 1 .. 13, l \in 1 .. 31 : last = [month |-> k, day |-> l]
  BY DEF CountedDays
<1>3. m < k \/ (m = k /\ n < l)
  BY <1>1, <1>2 DEF DateLess
<1> QED BY <1>1, <1>2, <1>3 DEF NextDate, Date, CountedDays

LEMMA CountedExists ==
  ASSUME NEW last \in CountedDays \cap CodeDates
  PROVE  Counted(last, CountedTo(last))
<1>1. ASSUME NEW d \in CountedDays, DateLess(d, last)
      PROVE  CountedTo(last)[d] = 1440 + CountedTo(last)[NextDate(d)]
  <2>1. PICK m \in 1 .. 13, n \in 1 .. 31 : d = [month |-> m, day |-> n]
    BY DEF CountedDays
  <2>2. NextDate(d) \in CountedDays
    BY <1>1, NextDateCounts
  <2>3. PICK w \in Int : w = Serial(last)
    BY DateParts DEF Serial
  <2>4. PICK e \in CountedDays : e = NextDate(d)
    BY <2>2
  <2>5. e \in CodeDates /\ e # Date(6, 31)
    BY <2>1, <2>4 DEF NextDate, Date, CodeDates
  <2>7. PICK v \in Int : v = Serial(e)
    BY <2>5, DateParts DEF Serial
  <2>6. CountedTo(last)[e] = IF DateLess(e, last) THEN 1440 * (w - v) ELSE 0
    BY <2>3, <2>5, <2>7 DEF CountedTo
  <2>8. DateLess(e, last) <=> v < w
    BY <2>3, <2>5, <2>7, DatesInOrder
  <2>9. CASE d = Date(6, 31)
    <3>1. e = Date(7, 1) /\ Serial(d) = 30 /\ v = 30
      BY <2>1, <2>4, <2>7, <2>9 DEF NextDate, Date, Serial
    <3>2. w >= 30
      <4>1. last.month >= 7
        BY <1>1, <2>9, DateParts DEF DateLess, Date
      <4> QED BY <2>3, <4>1, DateParts DEF Serial
    <3>3. CountedTo(last)[d] = 1440 * (w - 30 + 1)
      BY <1>1, <2>3, <2>9, <3>1 DEF CountedTo
    <3>4. CountedTo(last)[e] = 1440 * (w - 30)
      BY <2>6, <2>7, <2>8, <3>1, <3>2
    <3> QED BY <2>4, <3>3, <3>4
  <2>10. CASE d # Date(6, 31)
    <3>1. d \in CodeDates
      BY <2>1, <2>10 DEF CodeDates, Date
    <3>2. PICK u \in Int : u = Serial(d)
      BY <2>1 DEF Serial
    <3>3. v = u + 1
      BY <2>4, <2>7, <3>1, <3>2, NextDateIs
    <3>4. u < w
      BY <1>1, <2>3, <3>1, <3>2, DatesInOrder
    <3>5. CountedTo(last)[d] = 1440 * (w - u)
      BY <1>1, <2>3, <2>10, <3>2 DEF CountedTo
    <3>6. CountedTo(last)[e] = 1440 * (w - v)
      BY <2>6, <2>7, <2>8, <3>3, <3>4
    <3> QED BY <2>4, <3>3, <3>5, <3>6
  <2> QED BY <2>9, <2>10
<1> QED BY <1>1 DEF Counted, CountedTo

LEMMA CountedIs ==
  ASSUME NEW last \in CountedDays \cap CodeDates, NEW f, Counted(last, f)
  PROVE  \A d \in CountedDays \cap CodeDates :
           Serial(d) <= Serial(last) => f[d] = 1440 * (Serial(last) - Serial(d))
<1>1. \A d \in CodeDates : Serial(d) \in Int
  BY DateParts DEF Serial
<1> DEFINE S == {n \in Nat : \A d \in CountedDays \cap CodeDates :
                   Serial(last) - Serial(d) = n => f[d] = 1440 * n}
<1>2. ASSUME NEW n \in Nat, \A m \in Nat : m < n => m \in S PROVE n \in S
  <2>1. SUFFICES ASSUME NEW d \in CountedDays \cap CodeDates, Serial(last) - Serial(d) = n
                 PROVE  f[d] = 1440 * n
    OBVIOUS
  <2>2. DateLess(d, last) <=> n > 0
    BY <1>1, <2>1, DatesInOrder
  <2>3. CASE n = 0
    BY <2>2, <2>3 DEF Counted
  <2>4. CASE n > 0
    <3>1. NextDate(d) \in CountedDays
      BY <2>2, <2>4, NextDateCounts
    <3>2. PICK e \in CountedDays : e = NextDate(d)
      BY <3>1
    <3>3. e \in CodeDates /\ Serial(e) = Serial(d) + 1
      BY <3>2, NextDateIs
    <3>4. n - 1 \in Nat /\ n - 1 < n /\ Serial(last) - Serial(e) = n - 1
      BY <1>1, <2>1, <2>4, <3>3
    <3>5. f[e] = 1440 * (n - 1)
      BY <1>2, <3>3, <3>4
    <3>6. f[d] = 1440 + f[e]
      BY <2>2, <2>4, <3>2 DEF Counted
    <3> QED BY <3>5, <3>6
  <2> QED BY <2>3, <2>4
<1>3. \A n \in Nat : n \in S
  <2>1. S \in SUBSET Nat
    OBVIOUS
  <2> HIDE DEF S
  <2> QED BY <1>2, <2>1, CourseOfValues
<1>4. ASSUME NEW d \in CountedDays \cap CodeDates, Serial(d) <= Serial(last)
      PROVE  f[d] = 1440 * (Serial(last) - Serial(d))
  <2>1. Serial(last) - Serial(d) \in Nat
    BY <1>1, <1>4
  <2> QED BY <1>3, <2>1
<1> QED BY <1>4

LEMMA DifferenceIs ==
  ASSUME NEW s, NEW t, s \in ClockTimes, t \in ClockTimes, IsDate(s.date), IsDate(t.date),
         Serial(s.date) <= Serial(t.date)
  PROVE  Difference(t, s) = Minutes(t) - Minutes(s)
<1>1. \A d : IsDate(d) => d \in CountedDays \cap CodeDates
  BY DateIsDate DEF IsDate, Dates, MonthLength, CountedDays, CodeDates
<1>2. PICK f : f = CHOOSE g : Counted(t.date, g)
  OBVIOUS
<1>3. Counted(t.date, f)
  BY <1>1, <1>2, CountedExists
<1>4. f[s.date] = 1440 * (Serial(t.date) - Serial(s.date))
  BY <1>1, <1>3, CountedIs
<1>5. Difference(t, s) = (t.moment.minute - s.moment.minute) + (t.moment.hour - s.moment.hour) * 60
                         + 1440 * (Serial(t.date) - Serial(s.date))
  BY <1>2, <1>4, DifferenceUnfolds
<1>6. Serial(s.date) \in Int /\ Serial(t.date) \in Int
  BY DateIsDate
<1>7. /\ s.moment.minute \in Int /\ s.moment.hour \in Int
      /\ t.moment.minute \in Int /\ t.moment.hour \in Int
  BY DEF ClockTimes, Moments
<1> QED BY <1>5, <1>6, <1>7 DEF Minutes

-----------------------------------------------------------------------------
(* Trains. *)

Season == 122

\* What is assumed of a train, in the calendar of the code.
SummerTrain(tr) ==
  /\ Len(tr.stopover) \in Nat /\ Len(tr.stopover) >= 2 /\ Len(tr.travel) = Len(tr.stopover) - 1
  /\ NatsAt(tr.travel, 1 .. Len(tr.travel)) /\ NatsAt(tr.stopover, 1 .. Len(tr.stopover))
  /\ tr.stopover[1] = 0
  /\ tr.start_time \in Moments
  /\ tr.start_sale \in CodeDates /\ tr.end_sale \in CodeDates
  /\ tr.start_sale.month \in 6 .. 8 /\ tr.end_sale.month \in 6 .. 8
  /\ Serial(tr.start_sale) \in 0 .. 91 /\ Serial(tr.end_sale) \in 0 .. 91
  /\ Serial(tr.start_sale) <= Serial(tr.end_sale)

LastRunEnds(tr) ==
  Minutes(Time(tr.end_sale, tr.start_time)) + Elapsed(tr, Len(tr.stopover)) < 1440 * Season

LEMMA SaleDateIs ==
  ASSUME NEW d, IsDate(d), d.month \in 6 .. 8
  PROVE  d \in CodeDates /\ Serial(d) \in 0 .. 91
<1>1. PICK m \in 6 .. 8, n \in 1 .. 31 : d = [month |-> m, day |-> n] /\ (m = 6 => n <= 30)
  BY DEF IsDate, Dates, MonthLength
<1> QED BY <1>1 DEF CodeDates, Serial

LEMMA TrainIs ==
  ASSUME NEW tr \in Trains
  PROVE  SummerTrain(tr)
<1>1. /\ tr.travel \in Seq(Nat) /\ tr.stopover \in Seq(Nat) /\ Len(tr.travel) >= 1
      /\ Len(tr.stopover) = Len(tr.travel) + 1
      /\ tr.stopover[1] = 0 /\ tr.start_time \in Moments
  BY TrainAssumption
<1>2. /\ IsDate(tr.start_sale) /\ tr.start_sale.month \in 6 .. 8
      /\ IsDate(tr.end_sale) /\ tr.end_sale.month \in 6 .. 8
  BY TrainAssumption
<1>3. DateLeq(tr.start_sale, tr.end_sale)
  BY TrainAssumption
<1>4. /\ tr.start_sale \in CodeDates /\ Serial(tr.start_sale) \in 0 .. 91
      /\ tr.end_sale \in CodeDates /\ Serial(tr.end_sale) \in 0 .. 91
  BY <1>2, SaleDateIs
<1>5. Serial(tr.start_sale) <= Serial(tr.end_sale)
  BY <1>3, <1>4, DatesInOrder
<1>6. NatsAt(tr.travel, 1 .. Len(tr.travel)) /\ NatsAt(tr.stopover, 1 .. Len(tr.stopover))
  <2>1. ASSUME NEW seq \in Seq(Nat) PROVE NatsAt(seq, 1 .. Len(seq))
    BY DEF NatsAt
  <2>2. tr.travel \in Seq(Nat) /\ tr.stopover \in Seq(Nat)
    BY <1>1
  <2> QED BY <2>1, <2>2
<1>7. /\ Len(tr.stopover) \in Nat /\ Len(tr.stopover) >= 2 /\ Len(tr.travel) = Len(tr.stopover) - 1
  BY <1>1
<1> QED BY <1>1, <1>2, <1>4, <1>5, <1>6, <1>7 DEF SummerTrain

LEMMA LastRunIs ==
  ASSUME NEW tr \in Trains
  PROVE  LastRunEnds(tr)
<1>1. /\ Instant(Time(tr.end_sale, tr.start_time)) + Elapsed(tr, Len(tr.stopover))
           < 1440 * DayNumber(Date(9, 31))
      /\ IsDate(tr.end_sale)
  BY TrainAssumption
<1>2. DayNumber(Date(9, 31)) = 122
  BY DEF DayNumber, Date, DaysBefore
<1>3. Time(tr.end_sale, tr.start_time).date = tr.end_sale
  BY DEF Time
<1>4. Instant(Time(tr.end_sale, tr.start_time)) = Minutes(Time(tr.end_sale, tr.start_time))
  BY <1>1, <1>3, InstantIsMinutes
<1> QED BY <1>1, <1>2, <1>4 DEF LastRunEnds, Season

\* The way from one station to a later one.
LEMMA DurationIs ==
  ASSUME NEW tr, SummerTrain(tr), NEW i, NEW j, i \in 1 .. Len(tr.stopover),
         j \in 1 .. Len(tr.stopover), i < j
  PROVE  /\ Duration(tr, i, j) \in Nat /\ tr.stopover[j] \in Nat
         /\ Elapsed(tr, i) \in Nat /\ Elapsed(tr, j) \in Nat
         /\ Elapsed(tr, j) = Elapsed(tr, i) + Duration(tr, i, j) + tr.stopover[j]
<1>1. PICK n \in Nat : n = Len(tr.stopover) /\ Len(tr.travel) = n - 1
  BY DEF SummerTrain
<1>2. PICK p, q : p = tr.travel /\ q = tr.stopover
  OBVIOUS
<1>3. NatsAt(p, 1 .. n - 1) /\ NatsAt(q, 1 .. n)
  BY <1>1, <1>2 DEF SummerTrain
<1>4. i \in Int /\ j \in Int /\ 1 <= i /\ i < j /\ j <= n
  BY <1>1
<1>5. PICK a \in Int, b \in Int, c \in Int : a = i - 1 /\ b = j - 1 /\ c = i + 1
  BY <1>4
<1>6. /\ NatsAt(p, 1 .. b) /\ NatsAt(p, 1 .. a) /\ NatsAt(p, i .. b)
      /\ NatsAt(q, 1 .. j) /\ NatsAt(q, 1 .. i) /\ NatsAt(q, c .. j) /\ NatsAt(q, c .. b)
      /\ q[j] \in Nat
  BY <1>3, <1>4, <1>5 DEF NatsAt
<1>7. SumFrom(p, 1, b) = SumFrom(p, 1, a) + SumFrom(p, i, b)
  <2>1. a + 1 = i /\ 1 <= a + 1 /\ a <= b
    BY <1>4, <1>5
  <2>2. SumFrom(p, 1, b) = SumFrom(p, 1, a) + SumFrom(p, a + 1, b)
    BY <1>6, <2>1, SumSplits
  <2> QED BY <2>1, <2>2
<1>8. SumFrom(q, 1, j) = SumFrom(q, 1, i) + SumFrom(q, c, j)
  <2>1. i + 1 = c /\ 1 <= i + 1 /\ i <= j
    BY <1>4, <1>5
  <2>2. SumFrom(q, 1, j) = SumFrom(q, 1, i) + SumFrom(q, i + 1, j)
    BY <1>4, <1>6, <2>1, SumSplits
  <2> QED BY <2>1, <2>2
<1>9. SumFrom(q, c, j) = SumFrom(q, c, b) + SumFrom(q, j, j)
  <2>1. b + 1 = j /\ c <= b + 1 /\ b <= j
    BY <1>4, <1>5
  <2>2. SumFrom(q, c, j) = SumFrom(q, c, b) + SumFrom(q, b + 1, j)
    BY <1>4, <1>6, <2>1, SumSplits
  <2> QED BY <2>1, <2>2
<1>10. SumFrom(q, j, j) = q[j]
  BY <1>4, <1>6, SumOfOne
<1>11. /\ SumFrom(p, 1, b) \in Nat /\ SumFrom(p, 1, a) \in Nat /\ SumFrom(p, i, b) \in Nat
       /\ SumFrom(q, 1, j) \in Nat /\ SumFrom(q, 1, i) \in Nat /\ SumFrom(q, c, j) \in Nat
       /\ SumFrom(q, c, b) \in Nat
  BY <1>4, <1>6, SumIs
<1>12. /\ Elapsed(tr, j) = SumFrom(p, 1, b) + SumFrom(q, 1, j)
       /\ Elapsed(tr, i) = SumFrom(p, 1, a) + SumFrom(q, 1, i)
       /\ Duration(tr, i, j) = SumFrom(p, i, b) + SumFrom(q, c, b)
  BY <1>2, <1>5 DEF Elapsed, Duration
<1>13. PICK u \in Nat : u = SumFrom(p, 1, a)
  BY <1>11
<1>14. PICK v \in Nat : v = SumFrom(p, i, b)
  BY <1>11
<1>15. PICK w \in Nat : w = SumFrom(q, 1, i)
  BY <1>11
<1>16. PICK x \in Nat : x = SumFrom(q, c, b)
  BY <1>11
<1>17. PICK y \in Nat : y = q[j]
  BY <1>6
<1>18. SumFrom(p, 1, b) = u + v /\ SumFrom(q, 1, j) = w + (x + y)
  BY <1>7, <1>8, <1>9, <1>10, <1>13, <1>14, <1>15, <1>16, <1>17
<1>19. /\ Elapsed(tr, j) = (u + v) + (w + (x + y)) /\ Elapsed(tr, i) = u + w
       /\ Duration(tr, i, j) = v + x
  BY <1>12, <1>13, <1>14, <1>15, <1>16, <1>18
<1>20. tr.stopover[j] = y /\ y \in Nat
  BY <1>2, <1>17
<1>22. u \in Nat /\ v \in Nat /\ w \in Nat /\ x \in Nat /\ y \in Nat
  BY <1>13, <1>14, <1>15, <1>16, <1>17
<1>21. /\ (u + v) + (w + (x + y)) = (u + w) + (v + x) + y
       /\ (u + v) + (w + (x + y)) \in Nat /\ u + w \in Nat /\ v + x \in Nat
  BY <1>22
<1> QED BY <1>19, <1>20, <1>21, Zenon

LEMMA DurationOfOne ==
  ASSUME NEW tr, SummerTrain(tr), NEW i, i \in 1 .. Len(tr.travel)
  PROVE  Duration(tr, i, i + 1) = tr.travel[i] /\ tr.travel[i] \in Nat
<1>1. i \in Int /\ tr.travel[i] \in Nat
  BY DEF SummerTrain, NatsAt
<1>2. i + 1 - 1 = i /\ i + 1 \in Int /\ i < i + 1
  BY <1>1
<1>3. SumFrom(tr.travel, i, i) = tr.travel[i] /\ SumFrom(tr.stopover, i + 1, i) = 0
  BY <1>1, <1>2, SumOfOne, SumOfNone
<1> QED BY <1>1, <1>2, <1>3 DEF Duration

\* No station is later than the last.
LEMMA ElapsedIs ==
  ASSUME NEW tr, SummerTrain(tr), NEW i, i \in 1 .. Len(tr.stopover)
  PROVE  /\ Elapsed(tr, i) \in Nat /\ Elapsed(tr, Len(tr.stopover)) \in Nat
         /\ Elapsed(tr, i) <= Elapsed(tr, Len(tr.stopover))
         /\ tr.stopover[i] \in Nat /\ tr.stopover[i] <= Elapsed(tr, i)
         /\ Elapsed(tr, 1) = 0
<1>1. PICK n \in Nat : n = Len(tr.stopover) /\ n >= 2
  BY DEF SummerTrain
<1>2. 1 \in 1 .. n /\ n \in 1 .. n /\ i \in 1 .. n
  BY <1>1
<1>3. Elapsed(tr, 1) = 0
  <2>1. SumFrom(tr.travel, 1, 0) = 0
    BY SumOfNone
  <2>2. tr.stopover[1] = 0
    BY DEF SummerTrain
  <2>3. SumFrom(tr.stopover, 1, 1) = 0
    BY <2>2, SumOfOne
  <2> QED BY <2>1, <2>3 DEF Elapsed
<1>4. ASSUME NEW a \in 1 .. n, NEW b \in 1 .. n, a < b
      PROVE  /\ Duration(tr, a, b) \in Nat /\ tr.stopover[b] \in Nat
             /\ Elapsed(tr, a) \in Nat /\ Elapsed(tr, b) \in Nat
             /\ Elapsed(tr, b) = Elapsed(tr, a) + Duration(tr, a, b) + tr.stopover[b]
  BY <1>1, <1>4, DurationIs
<1>5. Elapsed(tr, n) \in Nat
  BY <1>1, <1>2, <1>4
<1>6. CASE i = 1
  <2>1. tr.stopover[i] = 0
    BY <1>6 DEF SummerTrain
  <2> QED BY <1>1, <1>3, <1>5, <1>6, <2>1
<1>7. CASE i # 1
  <2>1. /\ tr.stopover[i] \in Nat /\ Elapsed(tr, i) \in Nat /\ Duration(tr, 1, i) \in Nat
        /\ Elapsed(tr, i) = 0 + Duration(tr, 1, i) + tr.stopover[i]
    BY <1>2, <1>3, <1>4, <1>7
  <2>2. CASE i = n
    BY <1>1, <1>3, <1>5, <2>1, <2>2
  <2>3. CASE i # n
    <3>1. /\ Duration(tr, i, n) \in Nat /\ tr.stopover[n] \in Nat
          /\ Elapsed(tr, n) = Elapsed(tr, i) + Duration(tr, i, n) + tr.stopover[n]
      BY <1>2, <1>4, <2>3
    <3>2. Elapsed(tr, i) <= Elapsed(tr, n)
      BY <2>1, <3>1
    <3>3. tr.stopover[i] <= Elapsed(tr, i)
      BY <2>1
    <3> QED BY <1>1, <1>3, <1>5, <2>1, <3>2, <3>3
  <2> QED BY <2>2, <2>3
<1> QED BY <1>6, <1>7

-----------------------------------------------------------------------------
(* Runs. *)

RunStart(tr, d) == Time(d, tr.start_time)

\* Time t is one of the train's starts, a minutes into the season.
StartsAt(tr, t, a) == t \in ClockTimes /\ t.moment = tr.start_time /\ a = Minutes(t) /\ a \in Int

LEMMA RunStartIs ==
  ASSUME NEW tr, SummerTrain(tr), NEW d \in CodeDates
  PROVE  /\ StartsAt(tr, RunStart(tr, d), 1440 * Serial(d) + MomentMinutes(tr.start_time))
         /\ RunStart(tr, d).date = d
<1>1. tr.start_time \in Moments
  BY DEF SummerTrain
<1>2. PICK t : t = RunStart(tr, d)
  OBVIOUS
<1>3. t \in ClockTimes /\ t.date = d /\ t.moment = tr.start_time
  BY <1>1, <1>2 DEF RunStart, Time, ClockTimes
<1>4. PICK a, m : Reads(t, a, m)
  BY <1>3, ClockReads, Zenon
<1>5. Minutes(t) = 1440 * Serial(d) + MomentMinutes(tr.start_time) /\ Minutes(t) \in Int
  BY <1>3, <1>4 DEF Reads
<1> QED BY <1>2, <1>3, <1>5 DEF StartsAt

LessThanADay(a, b) == a - b \in -1439 .. 1439

LEMMA WithinADay ==
  ASSUME NEW a \in Int, NEW b \in Int, b <= a, a <= b + 1439
  PROVE  LessThanADay(a, b)
<1>1. PICK z : z = a - b
  OBVIOUS
<1>2. z \in Int /\ 0 <= z /\ z <= 1439
  BY <1>1
<1>3. z \in -1439 .. 1439
  BY <1>2
<1> QED BY <1>1, <1>3 DEF LessThanADay

\* Two starts of a train less than a day apart are one.
LEMMA OneStart ==
  ASSUME NEW tr, NEW s, NEW t, NEW a, NEW b, StartsAt(tr, s, a), StartsAt(tr, t, b),
         LessThanADay(a, b)
  PROVE  s = t
<1>1. s \in ClockTimes /\ t \in ClockTimes /\ s.moment = t.moment
  BY DEF StartsAt
<1>2. PICK c, m : Reads(s, c, m)
  BY <1>1, ClockReads, Zenon
<1>3. PICK e, n : Reads(t, e, n)
  BY <1>1, ClockReads, Zenon
<1>7. /\ c \in Int /\ m \in 0 .. 1439 /\ m = MomentMinutes(s.moment)
      /\ Minutes(s) = c * 1440 + m
  BY <1>2 DEF Reads
<1>8. e \in Int /\ n = MomentMinutes(t.moment) /\ Minutes(t) = e * 1440 + n
  BY <1>3 DEF Reads
<1>9. m = n
  BY <1>1, <1>7, <1>8
<1>10. a = Minutes(s) /\ b = Minutes(t)
  BY DEF StartsAt
<1>4. /\ c \in Int /\ e \in Int /\ m \in 0 .. 1439 /\ m = n
      /\ a = c * 1440 + m /\ b = e * 1440 + m
  <2>1. a = c * 1440 + m
    BY <1>7, <1>10
  <2>2. b = e * 1440 + m
    BY <1>8, <1>9, <1>10
  <2>3. c \in Int /\ m \in 0 .. 1439
    BY <1>7
  <2>4. e \in Int
    BY <1>8
  <2> QED BY <1>9, <2>1, <2>2, <2>3, <2>4
<1>5. c = e
  <2>1. PICK z : z = a - b
    OBVIOUS
  <2>2. z \in -1439 .. 1439
    BY <2>1 DEF LessThanADay
  <2>3. z = c * 1440 - e * 1440
    BY <1>4, <2>1
  <2> QED BY <1>4, <2>2, <2>3
<1>6. Minutes(s) = Minutes(t)
  BY <1>4, <1>5 DEF StartsAt
<1> QED BY <1>1, <1>6, TimesInOrder

\* The day of a time.
LEMMA DayOf ==
  ASSUME NEW t \in ClockTimes
  PROVE  /\ Serial(t.date) \in Int /\ t.date \in CodeDates
         /\ Minutes(t) \in 1440 * Serial(t.date) .. 1440 * Serial(t.date) + 1439
<1>1. PICK a, m : Reads(t, a, m)
  BY ClockReads, Zenon
<1>2. a \in Int /\ m \in 0 .. 1439 /\ Minutes(t) = a * 1440 + m /\ a = Serial(t.date)
  BY <1>1 DEF Reads
<1>3. Minutes(t) \in 1440 * a .. 1440 * a + 1439
  BY <1>2
<1> QED BY <1>2, <1>3, TimeTyped

\* The run found for a day starts in minute a and leaves station i on that day.
StartsOn(tr, i, d, a) ==
  /\ a \in Int /\ StartsAt(tr, StartTime(tr, i, d), a)
  /\ a + Elapsed(tr, i) \in 1440 * Serial(d) .. 1440 * Serial(d) + 1439

LEMMA StartTimeIs ==
  ASSUME NEW tr, SummerTrain(tr), NEW i, i \in 1 .. Len(tr.stopover), NEW d \in CodeDates
  PROVE  \E a : StartsOn(tr, i, d, a)
<1>1. PICK e \in Nat : e = Elapsed(tr, i)
  BY ElapsedIs
<1>2. PICK t : t = Time(d, Midnight)
  OBVIOUS
<1>3. t \in ClockTimes /\ t.date = d /\ MomentMinutes(t.moment) = 0
  BY <1>2 DEF Time, Midnight, ClockTimes, Moments, MomentMinutes
<1>4. PICK b \in Int : b = Serial(d)
  BY <1>3, DayOf
<1>5. PICK c, m : Reads(t, c, m)
  BY <1>3, ClockReads, Zenon
<1>6. Minutes(t) = 1440 * b
  BY <1>3, <1>4, <1>5 DEF Reads
<1>7. PICK u : u = Minus(t, e)
  OBVIOUS
<1>8. u \in ClockTimes /\ Minutes(u) = 1440 * b - e
  BY <1>3, <1>6, <1>7, MinusCounts
<1>9. PICK v : v = FirstStart(u, tr)
  OBVIOUS
<1>10. tr.start_time \in Moments
  BY DEF SummerTrain
<1>11. v \in ClockTimes /\ v.moment = tr.start_time /\ Minutes(v) \in Minutes(u) .. Minutes(u) + 1439
  BY <1>8, <1>9, <1>10, FirstStartIs
<1>12. PICK a \in Int : a = Minutes(v)
  BY <1>8, <1>11
<1>13. a + e \in 1440 * b .. 1440 * b + 1439
  BY <1>8, <1>11, <1>12
<1>14. v = StartTime(tr, i, d)
  BY <1>1, <1>2, <1>7, <1>9 DEF StartTime
<1>15. StartsAt(tr, v, a)
  BY <1>11, <1>12 DEF StartsAt
<1>16. StartsOn(tr, i, d, a)
  BY <1>1, <1>4, <1>12, <1>13, <1>14, <1>15 DEF StartsOn
<1> QED BY <1>16

\* Time t is when the run of day d leaves station i.
LeavesAt(tr, d, i, t) ==
  t \in ClockTimes /\ Minutes(t) = Minutes(RunStart(tr, d)) + Elapsed(tr, i)

\* The day on which a run leaves a station leads back to the run.
LEMMA RunFound ==
  ASSUME NEW tr, SummerTrain(tr), NEW i, i \in 1 .. Len(tr.stopover), NEW d \in CodeDates,
         NEW t, LeavesAt(tr, d, i, t)
  PROVE  StartTime(tr, i, t.date) = RunStart(tr, d)
<1>1. PICK e \in Nat : e = Elapsed(tr, i)
  BY ElapsedIs
<1>0. t \in ClockTimes
  BY DEF LeavesAt
<1>2. PICK b \in Int : b = Serial(t.date)
  BY <1>0, DayOf
<1>3. Minutes(t) \in 1440 * b .. 1440 * b + 1439 /\ t.date \in CodeDates
  BY <1>0, <1>2, DayOf
<1>11. t.date \in CodeDates
  BY <1>3
<1>10. PICK a : StartsOn(tr, i, t.date, a)
  BY <1>11, StartTimeIs, Zenon
<1>4. /\ a \in Int /\ StartsAt(tr, StartTime(tr, i, t.date), a)
      /\ a + e \in 1440 * b .. 1440 * b + 1439
  BY <1>1, <1>2, <1>10 DEF StartsOn
<1>5. PICK c \in Int : c = Minutes(RunStart(tr, d)) /\ StartsAt(tr, RunStart(tr, d), c)
  BY RunStartIs DEF StartsAt
<1>7. Minutes(t) = c + e
  BY <1>1, <1>5 DEF LeavesAt
<1>8. c + e \in 1440 * b .. 1440 * b + 1439
  BY <1>3, <1>7
<1>9. a \in Int /\ b \in Int /\ c \in Int /\ e \in Nat /\ a + e \in 1440 * b .. 1440 * b + 1439
  BY <1>1, <1>2, <1>4, <1>5
<1>6. LessThanADay(a, c)
  BY <1>8, <1>9 DEF LessThanADay
<1> QED BY <1>4, <1>5, <1>6, OneStart

WithinSeason(t) == Minutes(t) >= 0 /\ Minutes(t) < 1440 * Season

\* A time in the season is on a day of the calendar.
LEMMA InSeason ==
  ASSUME NEW t \in ClockTimes, WithinSeason(t)
  PROVE  IsDate(t.date) /\ Serial(t.date) \in 0 .. 121 /\ t.date.month >= 6
<1>1. PICK b \in Int : b = Serial(t.date)
  BY DayOf
<1>2. Minutes(t) \in 1440 * b .. 1440 * b + 1439 /\ t.date \in CodeDates
  BY <1>1, DayOf
<1>3. b \in 0 .. 121
  BY <1>1, <1>2 DEF WithinSeason, Season
<1>6. Serial(t.date) \in -31 .. 121
  BY <1>1, <1>3
<1>4. IsDate(t.date)
  BY <1>6, <1>1, <1>2, <1>3, CodeIsDate
<1>5. t.date.month >= 6
  <2>1. PICK m \in Int, n \in 1 .. 31 : t.date = [month |-> m, day |-> n] /\ (m = 6 => n <= 30)
    BY TimeParts
  <2> QED BY <1>1, <1>3, <2>1 DEF Serial
<1> QED BY <1>1, <1>3, <1>4, <1>5

OnSaleSerial(tr, d) ==
  Serial(tr.start_sale) <= Serial(d) /\ Serial(d) <= Serial(tr.end_sale)

LEMMA OnSaleIs ==
  ASSUME NEW tr, SummerTrain(tr), NEW d \in CodeDates
  PROVE  /\ OnSale(tr, d) <=> OnSaleSerial(tr, d)
         /\ d \in SaleDays(tr) <=> OnSaleSerial(tr, d)
<1>1. tr.start_sale \in CodeDates /\ tr.end_sale \in CodeDates
  BY DEF SummerTrain
<1>2. OnSale(tr, d) <=> OnSaleSerial(tr, d)
  BY <1>1, DatesInOrder DEF OnSale, OnSaleSerial
<1>3. ASSUME OnSaleSerial(tr, d) PROVE d \in [month : 6 .. 8, day : 1 .. 31] /\ d # Date(6, 31)
  <2>1. PICK m \in Int, n \in 1 .. 31 : d = [month |-> m, day |-> n] /\ (m = 6 => n <= 30)
    BY DateParts
  <2>2. PICK k \in Int : k = Serial(d)
    BY <2>1 DEF Serial
  <2>3. Serial(tr.start_sale) \in 0 .. 91 /\ Serial(tr.end_sale) \in 0 .. 91
    BY DEF SummerTrain
  <2>4. k \in 0 .. 91
    BY <1>3, <2>2, <2>3 DEF OnSaleSerial
  <2>5. m \in 6 .. 8
    BY <2>1, <2>2, <2>4 DEF Serial
  <2> QED BY <2>1, <2>5 DEF Date
<1> QED BY <1>2, <1>3 DEF SaleDays

LEMMA SaleDayIs ==
  ASSUME NEW tr, SummerTrain(tr), NEW d \in SaleDays(tr)
  PROVE  d \in CodeDates /\ d.month >= 6 /\ Serial(d) \in 0 .. 91 /\ OnSaleSerial(tr, d)
<1>1. PICK m \in 6 .. 8, n \in 1 .. 31 : d = [month |-> m, day |-> n]
  BY DEF SaleDays
<1>2. m = 6 => n <= 30
  BY <1>1 DEF SaleDays, Date
<1>3. d \in CodeDates
  BY <1>1, <1>2 DEF CodeDates
<1> QED BY <1>1, <1>2, <1>3, OnSaleIs DEF Serial

-----------------------------------------------------------------------------
(* The run printed. *)

\* When the run of day d leaves station i.
DepartureOf(tr, d, i) == Minutes(RunStart(tr, d)) + Elapsed(tr, i)

\* The wait at the station is still to come.
WaitToCome(tr, i, w) == IF w THEN tr.stopover[i] ELSE 0

\* Time t is what the loop shows of the run of day d at station i.
RunAt(tr, d, i, w, t) ==
  /\ tr \in Trains /\ d \in SaleDays(tr)
  /\ i \in 1 .. Len(tr.stopover) /\ w \in BOOLEAN
  /\ ~w => i \in 1 .. Len(tr.travel)
  /\ t \in ClockTimes /\ t.date.month >= 6
  /\ Minutes(t) = DepartureOf(tr, d, i) - WaitToCome(tr, i, w)

RunInv == RunAt(train, date, pos, waiting, cur_time)

LEMMA StartMinute ==
  ASSUME NEW tr, SummerTrain(tr)
  PROVE  IsMinute(MomentMinutes(tr.start_time))
<1>1. tr.start_time \in Moments
  BY DEF SummerTrain
<1>2. PICK m \in Moments : m = tr.start_time
  BY <1>1
<1>3. MomentMinutes(m) \in 0 .. 1439
  BY MomentCount
<1> QED BY <1>2, <1>3 DEF IsMinute

\* A run on sale keeps within the season.
LEMMA DepartureIs ==
  ASSUME NEW tr \in Trains, NEW d \in SaleDays(tr), NEW i, i \in 1 .. Len(tr.stopover)
  PROVE  /\ DepartureOf(tr, d, i) \in Int /\ tr.stopover[i] \in Nat
         /\ DepartureOf(tr, d, i) - tr.stopover[i] >= 0
         /\ DepartureOf(tr, d, i) < 1440 * Season
<1>1. SummerTrain(tr) /\ LastRunEnds(tr)
  BY TrainIs, LastRunIs
<1>2. d \in CodeDates /\ Serial(d) \in 0 .. 91 /\ OnSaleSerial(tr, d)
  BY <1>1, SaleDayIs
<1>3. tr.end_sale \in CodeDates /\ Serial(tr.end_sale) \in 0 .. 91 /\ tr.start_time \in Moments
  BY <1>1 DEF SummerTrain
<1>16. PICK m : m = MomentMinutes(tr.start_time) /\ IsMinute(m)
  BY <1>1, StartMinute, Zenon
<1>4. m = MomentMinutes(tr.start_time) /\ m \in 0 .. 1439
  BY <1>16 DEF IsMinute
<1>5. PICK a \in 0 .. 91, b \in 0 .. 91 : a = Serial(d) /\ b = Serial(tr.end_sale)
  BY <1>2, <1>3
<1>6. a <= b
  BY <1>2, <1>5 DEF OnSaleSerial
<1>7. Minutes(RunStart(tr, d)) = 1440 * a + m
  BY <1>1, <1>2, <1>4, <1>5, RunStartIs DEF StartsAt
<1>8. Minutes(RunStart(tr, tr.end_sale)) = 1440 * b + m
  BY <1>1, <1>3, <1>4, <1>5, RunStartIs DEF StartsAt
<1>9. PICK e \in Nat : e = Elapsed(tr, i)
  BY <1>1, ElapsedIs
<1>10. PICK f \in Nat : f = Elapsed(tr, Len(tr.stopover))
  BY <1>1, ElapsedIs
<1>11. e <= f /\ tr.stopover[i] \in Nat /\ tr.stopover[i] <= e
  BY <1>1, <1>9, <1>10, ElapsedIs
<1>12. 1440 * b + m + f < 1440 * Season
  BY <1>1, <1>8, <1>10 DEF LastRunEnds, RunStart
<1>13. PICK g : g = DepartureOf(tr, d, i)
  OBVIOUS
<1>14. g = 1440 * a + m + e
  BY <1>7, <1>9, <1>13 DEF DepartureOf
<1>15. g \in Int /\ g < 1440 * Season /\ g - tr.stopover[i] >= 0
  <2>4. a \in 0 .. 91 /\ b \in 0 .. 91 /\ m \in 0 .. 1439 /\ e \in Nat /\ f \in Nat
    BY <1>4, <1>5, <1>9, <1>10
  <2>1. g \in Int /\ g >= e
    BY <1>14, <2>4
  <2>2. g <= 1440 * b + m + f
    BY <1>6, <1>11, <1>14, <2>4
  <2>3. 1440 * b + m + f \in Int
    BY <2>4
  <2> QED BY <1>9, <1>11, <1>12, <2>1, <2>2, <2>3 DEF Season
<1> QED BY <1>11, <1>13, <1>15

LEMMA RunBegins ==
  ASSUME NEW tr \in Trains, NEW d \in SaleDays(tr)
  PROVE  RunAt(tr, d, 1, TRUE, RunStart(tr, d))
<1>1. SummerTrain(tr)
  BY TrainIs
<1>2. d \in CodeDates /\ d.month >= 6
  BY <1>1, SaleDayIs
<1>3. PICK t : t = RunStart(tr, d)
  OBVIOUS
<1>4. t \in ClockTimes /\ t.date = d /\ Minutes(t) \in Int
  BY <1>1, <1>2, <1>3, RunStartIs DEF StartsAt
<1>5. 1 \in 1 .. Len(tr.stopover) /\ tr.stopover[1] = 0
  BY <1>1 DEF SummerTrain
<1>6. Elapsed(tr, 1) = 0
  BY <1>1, <1>5, ElapsedIs
<1>7. Minutes(t) = DepartureOf(tr, d, 1) - WaitToCome(tr, 1, TRUE)
  BY <1>3, <1>4, <1>5, <1>6 DEF DepartureOf, WaitToCome
<1> QED BY <1>2, <1>3, <1>4, <1>5, <1>7 DEF RunAt

LEMMA RunWaits ==
  ASSUME NEW tr, NEW d, NEW i, NEW t, RunAt(tr, d, i, TRUE, t), i <= Len(tr.travel)
  PROVE  RunAt(tr, d, i, FALSE, Plus(t, tr.stopover[i]))
<1>1. /\ tr \in Trains /\ d \in SaleDays(tr) /\ i \in 1 .. Len(tr.stopover)
      /\ t \in ClockTimes /\ t.date.month >= 6
      /\ Minutes(t) = DepartureOf(tr, d, i) - tr.stopover[i]
  BY DEF RunAt, WaitToCome
<1>2. PICK n : n = DepartureOf(tr, d, i)
  OBVIOUS
<1>3. n \in Int /\ tr.stopover[i] \in Nat
  BY <1>1, <1>2, DepartureIs
<1>4. PICK u : u = Plus(t, tr.stopover[i])
  OBVIOUS
<1>5. u \in ClockTimes /\ u.date.month >= 6 /\ Minutes(u) = Minutes(t) + tr.stopover[i]
  BY <1>1, <1>3, <1>4, PlusCounts
<1>6. Minutes(u) = n - 0
  BY <1>1, <1>2, <1>3, <1>5
<1>7. i \in 1 .. Len(tr.travel)
  <2>1. Len(tr.travel) \in Int /\ Len(tr.stopover) \in Int
    BY <1>1, TrainIs DEF SummerTrain
  <2> QED BY <1>1, <2>1
<1> QED BY <1>1, <1>2, <1>4, <1>5, <1>6, <1>7 DEF RunAt, WaitToCome

LEMMA RunTravels ==
  ASSUME NEW tr, NEW d, NEW i, NEW t, RunAt(tr, d, i, FALSE, t)
  PROVE  RunAt(tr, d, i + 1, TRUE, Plus(t, tr.travel[i]))
<1>1. /\ tr \in Trains /\ d \in SaleDays(tr) /\ i \in 1 .. Len(tr.stopover)
      /\ i \in 1 .. Len(tr.travel)
      /\ t \in ClockTimes /\ t.date.month >= 6
      /\ Minutes(t) = DepartureOf(tr, d, i) - 0
  BY DEF RunAt, WaitToCome
<1>2. SummerTrain(tr)
  BY <1>1, TrainIs
<1>3. PICK j : j = i + 1
  OBVIOUS
<1>4. j \in 1 .. Len(tr.stopover) /\ i < j
  BY <1>1, <1>2, <1>3 DEF SummerTrain
<1>5. PICK w \in Nat : w = tr.travel[i] /\ Duration(tr, i, j) = w
  BY <1>1, <1>2, <1>3, DurationOfOne
<1>6. PICK x \in Nat : x = tr.stopover[j]
  BY <1>2, <1>4, ElapsedIs
<1>7. Elapsed(tr, i) \in Nat /\ Elapsed(tr, j) = Elapsed(tr, i) + w + x
  BY <1>1, <1>2, <1>4, <1>5, <1>6, DurationIs
<1>8. PICK a \in Int : a = Minutes(RunStart(tr, d))
  BY <1>1, <1>2, SaleDayIs, RunStartIs DEF StartsAt
<1>9. PICK u : u = Plus(t, w)
  OBVIOUS
<1>10. u \in ClockTimes /\ u.date.month >= 6 /\ Minutes(u) = Minutes(t) + w
  BY <1>1, <1>9, PlusCounts
<1>11. PICK e \in Nat : e = Elapsed(tr, i)
  BY <1>7
<1>12. Minutes(t) = a + e /\ DepartureOf(tr, d, j) = a + (e + w + x)
  BY <1>1, <1>7, <1>8, <1>11 DEF DepartureOf
<1>13. Minutes(u) = DepartureOf(tr, d, j) - x
  BY <1>5, <1>6, <1>8, <1>10, <1>11, <1>12
<1> QED BY <1>1, <1>3, <1>4, <1>5, <1>6, <1>9, <1>10, <1>13 DEF RunAt, WaitToCome

\* Whatever QueryTrain prints is where the run it prints is at that time.
LEMMA RunInvHolds ==
  RunSpec => []RunInv
<1>1. RunInit => RunInv
  BY RunBegins DEF RunInit, RunInv, RunStart
<1>2. RunInv /\ [RunNext]_timeVars => RunInv'
  <2> SUFFICES ASSUME RunInv, [RunNext]_timeVars PROVE RunInv'
    OBVIOUS
  <2>1. CASE Wait
    <3>1. RunAt(train, date, pos, TRUE, cur_time) /\ pos <= Len(train.travel)
      BY <2>1 DEF Wait, RunInv, RunAt
    <3>2. RunAt(train, date, pos, FALSE, Plus(cur_time, train.stopover[pos]))
      BY <3>1, RunWaits
    <3>3. RunAt(train', date', pos', waiting', cur_time')
      BY <2>1, <3>2 DEF Wait
    <3> QED BY <3>3 DEF RunInv
  <2>2. CASE Travel
    <3>1. RunAt(train, date, pos, FALSE, cur_time)
      BY <2>2 DEF Travel, RunInv, RunAt
    <3>2. RunAt(train, date, pos + 1, TRUE, Plus(cur_time, train.travel[pos]))
      BY <3>1, RunTravels
    <3>3. RunAt(train', date', pos', waiting', cur_time')
      BY <2>2, <3>2 DEF Travel
    <3> QED BY <3>3 DEF RunInv
  <2>3. CASE UNCHANGED timeVars
    <3>1. RunAt(train', date', pos', waiting', cur_time')
      BY <2>3 DEF timeVars, RunInv
    <3> QED BY <3>1 DEF RunInv
  <2> QED BY <2>1, <2>2, <2>3 DEF RunNext
<1> QED BY <1>1, <1>2, PTL DEF RunSpec

\* The clock of a run: a the start, e the way there, x the wait at the station and y what
\* of it is still to come.
Clock(tr, d, i, w, t, a, e, x, y) ==
  /\ a \in Int /\ e \in Nat /\ x \in Nat /\ y \in Nat
  /\ a = Minutes(RunStart(tr, d)) /\ e = Elapsed(tr, i)
  /\ x = tr.stopover[i] /\ y = WaitToCome(tr, i, w) /\ (w => y = x) /\ (~w => y = 0)
  /\ x <= e /\ y <= x
  /\ Minutes(t) = a + e - y
  /\ WithinSeason(t) /\ SummerTrain(tr) /\ d \in CodeDates /\ IsDate(d)
  /\ RunStart(tr, d) \in ClockTimes /\ RunStart(tr, d).date = d

\* The clock of a run keeps within the season.
LEMMA ClockIs ==
  ASSUME NEW tr, NEW d, NEW i, NEW w, NEW t, RunAt(tr, d, i, w, t)
  PROVE  \E a, e, x, y : Clock(tr, d, i, w, t, a, e, x, y)
<1>1. tr \in Trains /\ d \in SaleDays(tr) /\ i \in 1 .. Len(tr.stopover) /\ w \in BOOLEAN
  BY DEF RunAt
<1>2. SummerTrain(tr)
  BY <1>1, TrainIs
<1>3. d \in CodeDates /\ Serial(d) \in 0 .. 91
  BY <1>1, <1>2, SaleDayIs
<1>4. IsDate(d)
  <2>1. Serial(d) \in -31 .. 121
    BY <1>3
  <2> QED BY <1>3, <2>1, CodeIsDate
<1>5. PICK a \in Int : a = Minutes(RunStart(tr, d))
  BY <1>2, <1>3, RunStartIs DEF StartsAt
<1>6. RunStart(tr, d) \in ClockTimes /\ RunStart(tr, d).date = d
  BY <1>2, <1>3, RunStartIs DEF StartsAt
<1>7. PICK e \in Nat : e = Elapsed(tr, i)
  BY <1>1, <1>2, ElapsedIs
<1>8. PICK x \in Nat : x = tr.stopover[i] /\ x <= e
  BY <1>1, <1>2, <1>7, ElapsedIs
<1>9. PICK y \in Nat : y = WaitToCome(tr, i, w) /\ (w => y = x) /\ (~w => y = 0) /\ y <= x
  BY <1>1, <1>8 DEF WaitToCome
<1>10. DepartureOf(tr, d, i) = a + e
  BY <1>5, <1>7 DEF DepartureOf
<1>11. Minutes(t) = a + e - y
  BY <1>9, <1>10 DEF RunAt
<1>12. a + e \in Int /\ a + e - x >= 0 /\ a + e < 1440 * Season
  BY <1>1, <1>8, <1>10, DepartureIs
<1>13. WithinSeason(t)
  <2>1. Season \in Int
    BY DEF Season
  <2>2. PICK s \in Int : s = 1440 * Season
    BY <2>1
  <2>3. a + e - y >= 0 /\ a + e - y < s
    BY <1>5, <1>7, <1>8, <1>9, <1>12, <2>2
  <2> QED BY <1>11, <2>2, <2>3 DEF WithinSeason
<1>14. Clock(tr, d, i, w, t, a, e, x, y)
  BY <1>2, <1>3, <1>4, <1>5, <1>6, <1>7, <1>8, <1>9, <1>11, <1>13 DEF Clock
<1> QED BY <1>14

\* The difference of two times of the season, in minutes.
LEMMA DifferenceCounts ==
  ASSUME NEW s \in ClockTimes, NEW t \in ClockTimes, IsDate(s.date), IsDate(t.date),
         Minutes(s) <= Minutes(t)
  PROVE  Difference(t, s) = Minutes(t) - Minutes(s)
<1>1. PICK a \in Int : a = Serial(s.date)
  BY DayOf
<1>2. PICK b \in Int : b = Serial(t.date)
  BY DayOf
<1>3. Minutes(s) \in 1440 * a .. 1440 * a + 1439 /\ Minutes(t) \in 1440 * b .. 1440 * b + 1439
  BY <1>1, <1>2, DayOf
<1>4. a <= b
  BY <1>1, <1>2, <1>3
<1> QED BY <1>1, <1>2, <1>4, DifferenceIs

TimeKept(tr, d, i, w, t) ==
  LET start == Time(d, tr.start_time)
      all   == Elapsed(tr, i) - (IF w THEN tr.stopover[i] ELSE 0)
  IN  /\ i \in 1 .. Len(tr.stopover) /\ IsDate(t.date) /\ t.moment \in Moments
      /\ Instant(t) = Instant(start) + all
      /\ Difference(t, start) = all

LEMMA RunKeepsTime ==
  ASSUME NEW tr, NEW d, NEW i, NEW w, NEW t, RunAt(tr, d, i, w, t)
  PROVE  TimeKept(tr, d, i, w, t)
<1>0. PICK a, e, x, y : Clock(tr, d, i, w, t, a, e, x, y)
  BY ClockIs, Zenon
<1>1. /\ a \in Int /\ e \in Nat /\ x \in Nat /\ y \in Nat
      /\ a = Minutes(RunStart(tr, d)) /\ e = Elapsed(tr, i)
      /\ x = tr.stopover[i] /\ y = WaitToCome(tr, i, w) /\ (w => y = x) /\ (~w => y = 0)
      /\ x <= e /\ y <= x
      /\ Minutes(t) = a + e - y
      /\ WithinSeason(t) /\ SummerTrain(tr) /\ d \in CodeDates /\ IsDate(d)
      /\ RunStart(tr, d) \in ClockTimes /\ RunStart(tr, d).date = d
  BY <1>0 DEF Clock
<1>2. t \in ClockTimes /\ i \in 1 .. Len(tr.stopover)
  BY DEF RunAt
<1>3. IsDate(t.date) /\ t.moment \in Moments
  BY <1>1, <1>2, InSeason, TimeTyped
<1>4. PICK s : s = RunStart(tr, d)
  OBVIOUS
<1>5. Instant(t) = a + e - y /\ Instant(s) = a
  BY <1>1, <1>3, <1>4, InstantIsMinutes
<1>6. Difference(t, s) = Minutes(t) - Minutes(s)
  <2>1. s \in ClockTimes /\ IsDate(s.date) /\ Minutes(s) = a
    BY <1>1, <1>4
  <2>2. a <= a + e - y
    BY <1>1
  <2> QED BY <1>1, <1>2, <1>3, <2>1, <2>2, DifferenceCounts
<1>7. Difference(t, s) = e - y /\ Instant(t) = Instant(s) + (e - y)
  BY <1>1, <1>4, <1>5, <1>6
<1>8. s = Time(d, tr.start_time) /\ y = (IF w THEN tr.stopover[i] ELSE 0)
  BY <1>1, <1>4 DEF RunStart, WaitToCome
<1> QED BY <1>1, <1>2, <1>3, <1>7, <1>8 DEF TimeKept

\* The clock of a run, whatever midnights and ends of months it passes, shows a day of the
\* calendar and has advanced by the sum of the legs and waits added to it; the difference
\* of two times is that number of minutes (Time::operator+, operator- and the loop of
\* TrainSystem::QueryTrain).
THEOREM KeepsTimeHolds ==
  RunSpec => []KeepsTime
<1>1. RunInv => KeepsTime
  BY RunKeepsTime DEF RunInv, KeepsTime, TypeOK, TimeKept
<1> QED BY <1>1, RunInvHolds, PTL

-----------------------------------------------------------------------------
(* Tickets. *)

\* A ticket bought for the day on which a run leaves is a ticket for it.
TicketMeets(tr, d, i, t) ==
  /\ StartTime(tr, i, t.date).date = d
  /\ Leave(tr, i, t.date) = t
  /\ DaySoldUnder(tr, i, t) = d

LEMMA TicketMeetsRun ==
  ASSUME NEW tr, NEW d, NEW i, NEW t, RunAt(tr, d, i, FALSE, t)
  PROVE  TicketMeets(tr, d, i, t)
<1>0. PICK a, e, x, y : Clock(tr, d, i, FALSE, t, a, e, x, y)
  BY ClockIs, Zenon
<1>8. /\ a \in Int /\ e \in Nat /\ y = 0
      /\ a = Minutes(RunStart(tr, d)) /\ e = Elapsed(tr, i)
      /\ Minutes(t) = a + e - y /\ SummerTrain(tr) /\ d \in CodeDates
      /\ RunStart(tr, d) \in ClockTimes /\ RunStart(tr, d).date = d
  BY <1>0 DEF Clock
<1>1. /\ a \in Int /\ e \in Nat
      /\ a = Minutes(RunStart(tr, d)) /\ e = Elapsed(tr, i)
      /\ Minutes(t) = a + e /\ SummerTrain(tr) /\ d \in CodeDates
      /\ RunStart(tr, d) \in ClockTimes /\ RunStart(tr, d).date = d
  BY <1>8
<1>2. t \in ClockTimes /\ i \in 1 .. Len(tr.stopover)
  BY DEF RunAt
<1>3. PICK s : s = RunStart(tr, d)
  OBVIOUS
<1>4. StartTime(tr, i, t.date) = s
  <2>1. LeavesAt(tr, d, i, t)
    BY <1>1, <1>2 DEF LeavesAt
  <2> QED BY <1>1, <1>2, <1>3, <2>1, RunFound
<1>5. s.date.month >= 6
  BY <1>1, <1>3, SaleDayIs DEF RunAt
<1>6. Plus(s, e) = t
  BY <1>1, <1>2, <1>3, <1>5, PlusCounts, TimesInOrder
<1>7. Minus(t, e) = s
  <2>1. PICK u : u = Minus(t, e)
    OBVIOUS
  <2>4. e \in Nat
    BY <1>1
  <2>2. u \in ClockTimes /\ Minutes(u) = Minutes(t) - e
    BY <1>2, <2>1, <2>4, MinusCounts
  <2>3. Minutes(u) = Minutes(s)
    BY <1>1, <1>3, <2>2
  <2> QED BY <1>1, <1>3, <2>1, <2>2, <2>3, TimesInOrder
<1> QED BY <1>1, <1>3, <1>4, <1>6, <1>7 DEF Leave, DaySoldUnder, TicketMeets

\* From the day on which a run leaves a station BuyTicket finds the day on which the run
\* began, the time it writes on the ticket is when the run leaves, and RefundTicket finds
\* the same day from that time.
THEOREM TicketsMeetTheirRunHolds ==
  RunSpec => []TicketsMeetTheirRun
<1>1. RunInv => TicketsMeetTheirRun
  <2>1. ASSUME RunInv, ~waiting PROVE RunAt(train, date, pos, FALSE, cur_time)
    BY <2>1 DEF RunInv, RunAt
  <2>2. ASSUME RunInv, ~waiting PROVE TicketMeets(train, date, pos, cur_time)
    BY <2>1, <2>2, TicketMeetsRun
  <2> QED BY <2>2 DEF TicketsMeetTheirRun, TicketMeets
<1> QED BY <1>1, RunInvHolds, PTL

LEMMA ArrivalMeetsRun ==
  ASSUME NEW tr, NEW d, NEW j, NEW t, RunAt(tr, d, j, TRUE, t), NEW i \in 1 .. j - 1
  PROVE  LET leave == Plus(RunStart(tr, d), Elapsed(tr, i))
         IN Arrive(tr, i, j, leave.date) = t
<1>0. PICK a, e, x, y : Clock(tr, d, j, TRUE, t, a, e, x, y)
  BY ClockIs, Zenon
<1>1. /\ a \in Int /\ e \in Nat /\ x \in Nat
      /\ a = Minutes(RunStart(tr, d)) /\ e = Elapsed(tr, j) /\ x = tr.stopover[j]
      /\ Minutes(t) = a + e - x /\ SummerTrain(tr) /\ d \in CodeDates
      /\ RunStart(tr, d) \in ClockTimes /\ RunStart(tr, d).date = d
  BY <1>0 DEF Clock
<1>2. t \in ClockTimes /\ j \in 1 .. Len(tr.stopover) /\ Len(tr.stopover) \in Nat
  BY <1>1 DEF RunAt, SummerTrain
<1>3. i \in 1 .. Len(tr.stopover) /\ i < j
  BY <1>2
<1>4. PICK s : s = RunStart(tr, d)
  OBVIOUS
<1>5. s \in ClockTimes /\ s.date.month >= 6 /\ Minutes(s) = a
  BY <1>1, <1>4, SaleDayIs DEF RunAt
<1>6. PICK f \in Nat : f = Elapsed(tr, i)
  BY <1>1, <1>3, ElapsedIs
<1>7. PICK k \in Nat : k = Duration(tr, i, j)
  BY <1>1, <1>2, <1>3, DurationIs
<1>8. e = f + k + x
  BY <1>1, <1>2, <1>3, <1>6, <1>7, DurationIs
<1>9. PICK u : u = Plus(s, f)
  OBVIOUS
<1>10. u \in ClockTimes /\ u.date.month >= 6 /\ Minutes(u) = a + f
  BY <1>5, <1>6, <1>9, PlusCounts
<1>11. StartTime(tr, i, u.date) = s
  <2>1. LeavesAt(tr, d, i, u)
    BY <1>1, <1>6, <1>10 DEF LeavesAt
  <2> QED BY <1>1, <1>3, <1>4, <2>1, RunFound
<1>12. Leave(tr, i, u.date) = u
  BY <1>6, <1>9, <1>11 DEF Leave
<1>13. PICK v : v = Plus(u, k)
  OBVIOUS
<1>14. v \in ClockTimes /\ Minutes(v) = a + f + k
  BY <1>7, <1>10, <1>13, PlusCounts
<1>15. Minutes(v) = Minutes(t)
  BY <1>1, <1>6, <1>7, <1>8, <1>14
<1>16. v = t
  BY <1>2, <1>14, <1>15, TimesInOrder
<1> QED BY <1>4, <1>6, <1>7, <1>9, <1>12, <1>13, <1>16 DEF Arrive

\* The arrival BuyTicket writes on a ticket, from any station before, is when the run
\* printed by QueryTrain arrives.
THEOREM ArrivalsMeetTheRunHolds ==
  RunSpec => []ArrivalsMeetTheRun
<1>1. RunInv => ArrivalsMeetTheRun
  <2> SUFFICES ASSUME RunInv, waiting, NEW i \in 1 .. pos - 1 PROVE
        LET leave == Plus(Time(date, train.start_time), Elapsed(train, i))
        IN Arrive(train, i, pos, leave.date) = cur_time
    BY DEF ArrivalsMeetTheRun
  <2>1. RunAt(train, date, pos, TRUE, cur_time)
    BY DEF RunInv, RunAt
  <2> QED BY <2>1, ArrivalMeetsRun DEF RunStart
<1> QED BY <1>1, RunInvHolds, PTL

-----------------------------------------------------------------------------
(* Offers. *)

\* The run of a day leaves station i on a day.
RunDay(tr, i, run, day) ==
  /\ run \in Int /\ day \in Int
  /\ 1440 * run + MomentMinutes(tr.start_time) + Elapsed(tr, i) \in 1440 * day .. 1440 * day + 1439

\* Runs leave a station on days in the order of their own.
LEMMA RunDaysInOrder ==
  ASSUME NEW tr, SummerTrain(tr), NEW i, i \in 1 .. Len(tr.stopover),
         NEW r, NEW s, NEW d, NEW e, RunDay(tr, i, r, d), RunDay(tr, i, s, e)
  PROVE  r <= s <=> d <= e
<1>1. PICK k \in Nat : k = Elapsed(tr, i)
  BY ElapsedIs
<1>2. PICK m : m = MomentMinutes(tr.start_time) /\ IsMinute(m)
  BY StartMinute, Zenon
<1>3. m \in Int
  BY <1>2 DEF IsMinute
<1>4. PICK x \in Int : x = m + k
  BY <1>1, <1>3
<1>5. /\ r \in Int /\ d \in Int /\ 1440 * r + m + k \in 1440 * d .. 1440 * d + 1439
      /\ s \in Int /\ e \in Int /\ 1440 * s + m + k \in 1440 * e .. 1440 * e + 1439
  BY <1>1, <1>2 DEF RunDay
<1>6. /\ 1440 * r + x >= 1440 * d /\ 1440 * r + x <= 1440 * d + 1439
      /\ 1440 * s + x >= 1440 * e /\ 1440 * s + x <= 1440 * e + 1439
  <2>1. PICK a \in Int, b \in Int : a = 1440 * r /\ b = 1440 * s
    BY <1>5
  <2>2. a + m + k = a + x /\ b + m + k = b + x
    BY <1>1, <1>3, <1>4
  <2>3. a + x \in 1440 * d .. 1440 * d + 1439 /\ b + x \in 1440 * e .. 1440 * e + 1439
    BY <1>5, <2>1, <2>2
  <2>4. a + x \in Int /\ b + x \in Int /\ 1440 * d \in Int /\ 1440 * e \in Int
    <3>1. d \in Int /\ e \in Int
      BY <1>5
    <3> QED BY <3>1
  <2> QED BY <2>1, <2>3, <2>4
<1>9. r \in Int /\ s \in Int /\ d \in Int /\ e \in Int
  BY <1>5
<1>7. ASSUME r <= s PROVE d <= e
  BY <1>6, <1>7, <1>9
<1>8. ASSUME d <= e PROVE r <= s
  BY <1>6, <1>8, <1>9
<1> QED BY <1>7, <1>8

\* The day on which the run of a day leaves a station.
LEMMA DayAtStation ==
  ASSUME NEW tr, SummerTrain(tr), NEW i, i \in 1 .. Len(tr.stopover),
         NEW d \in CodeDates, d.month >= 6
  PROVE  /\ Plus(RunStart(tr, d), Elapsed(tr, i)).date \in CodeDates
         /\ RunDay(tr, i, Serial(d), Serial(Plus(RunStart(tr, d), Elapsed(tr, i)).date))
<1>1. PICK k \in Nat : k = Elapsed(tr, i)
  BY ElapsedIs
<1>2. PICK s : s = RunStart(tr, d)
  OBVIOUS
<1>3. s \in ClockTimes /\ s.date = d /\ Minutes(s) = 1440 * Serial(d) + MomentMinutes(tr.start_time)
  BY <1>2, RunStartIs DEF StartsAt
<1>4. PICK u : u = Plus(s, k)
  OBVIOUS
<1>5. u \in ClockTimes /\ Minutes(u) = Minutes(s) + k
  BY <1>1, <1>3, <1>4, PlusCounts
<1>6. PICK b \in Int : b = Serial(u.date)
  BY <1>5, DayOf
<1>7. u.date \in CodeDates /\ Minutes(u) \in 1440 * b .. 1440 * b + 1439
  BY <1>5, <1>6, DayOf
<1>8. Serial(d) \in Int
  BY <1>3, DayOf
<1> QED BY <1>1, <1>2, <1>3, <1>4, <1>5, <1>6, <1>7, <1>8 DEF RunDay

\* What the first and the last run decide is what the run itself decides.
LEMMA OfferIs ==
  ASSUME NEW tr, SummerTrain(tr), NEW i, i \in 1 .. Len(tr.stopover), NEW d \in CodeDates
  PROVE  Offered(tr, i, d) <=> OnSale(tr, StartTime(tr, i, d).date)
<1>1. /\ tr.start_sale \in CodeDates /\ tr.end_sale \in CodeDates
      /\ tr.start_sale.month >= 6 /\ tr.end_sale.month >= 6
  BY DEF SummerTrain
<1>2. PICK u : u = Plus(RunStart(tr, tr.start_sale), Elapsed(tr, i)).date
  OBVIOUS
<1>3. PICK v : v = Plus(RunStart(tr, tr.end_sale), Elapsed(tr, i)).date
  OBVIOUS
<1>4. u \in CodeDates /\ RunDay(tr, i, Serial(tr.start_sale), Serial(u))
  BY <1>1, <1>2, DayAtStation
<1>5. v \in CodeDates /\ RunDay(tr, i, Serial(tr.end_sale), Serial(v))
  BY <1>1, <1>3, DayAtStation
<1>6. PICK s : s = StartTime(tr, i, d)
  OBVIOUS
<1>7. s.date \in CodeDates /\ RunDay(tr, i, Serial(s.date), Serial(d))
  <2>9. PICK a : StartsOn(tr, i, d, a)
    BY StartTimeIs, Zenon
  <2>1. /\ a \in Int /\ StartsAt(tr, s, a)
        /\ a + Elapsed(tr, i) \in 1440 * Serial(d) .. 1440 * Serial(d) + 1439
    BY <1>6, <2>9 DEF StartsOn
  <2>2. s \in ClockTimes /\ s.moment = tr.start_time /\ a = Minutes(s)
    BY <2>1 DEF StartsAt
  <2>3. Minutes(s) = Serial(s.date) * 1440 + MomentMinutes(tr.start_time)
    BY <2>2, MinutesAre
  <2>4. s.date \in CodeDates /\ Serial(s.date) \in Int
    BY <2>2, MinutesAre
  <2>5. PICK x \in Int : x = Serial(s.date)
    BY <2>4
  <2>6. a = 1440 * x + MomentMinutes(tr.start_time)
    <3>1. PICK m : m = MomentMinutes(tr.start_time) /\ IsMinute(m)
      BY StartMinute, Zenon
    <3>2. m \in Int
      BY <3>1 DEF IsMinute
    <3> QED BY <2>2, <2>3, <2>5, <3>1, <3>2
  <2>7. PICK y : y = Serial(d)
    OBVIOUS
  <2>8. y \in Int
    BY <2>7, DateParts DEF Serial
  <2> QED BY <2>1, <2>4, <2>5, <2>6, <2>7, <2>8 DEF RunDay
<1>8. /\ DateLeq(u, d) <=> Serial(u) <= Serial(d)
      /\ DateLeq(d, v) <=> Serial(d) <= Serial(v)
  BY <1>4, <1>5, DatesInOrder
<1>9. /\ Serial(tr.start_sale) <= Serial(s.date) <=> Serial(u) <= Serial(d)
      /\ Serial(s.date) <= Serial(tr.end_sale) <=> Serial(d) <= Serial(v)
  BY <1>4, <1>5, <1>7, RunDaysInOrder
<1>10. OnSale(tr, s.date) <=> OnSaleSerial(tr, s.date)
  BY <1>7, OnSaleIs
<1>11. Offered(tr, i, d) <=> DateLeq(u, d) /\ DateLeq(d, v)
  BY <1>2, <1>3 DEF Offered, RunStart
<1>12. Offered(tr, i, d) <=> OnSaleSerial(tr, s.date)
  BY <1>8, <1>9, <1>11 DEF OnSaleSerial
<1> QED BY <1>6, <1>10, <1>12

LEMMA MonthDayIs ==
  ASSUME NEW month \in 6 .. 9, NEW d \in DaysOfMonth(month)
  PROVE  d \in CodeDates
<1>1. PICK day \in 1 .. MonthLength[month] : d = Date(month, day)
  BY DEF DaysOfMonth
<1>2. MonthLength[month] = IF month \in {6, 9} THEN 30 ELSE 31
  BY DEF MonthLength
<1>3. d = [month |-> month, day |-> day] /\ day \in 1 .. 31 /\ (month = 6 => day <= 30)
  BY <1>1, <1>2 DEF Date
<1> QED BY <1>3 DEF CodeDates

\* On any day of the month QueryTicket offers a train at a station exactly if the run that
\* BuyTicket would sell for that day is on sale.
THEOREM OffersAreSoldHolds ==
  RunSpec => []OffersAreSold
<1>1. RunInv => OffersAreSold
  <2> SUFFICES ASSUME RunInv, NEW d \in DaysOfMonth(cur_time.date.month)
               PROVE  Offered(train, pos, d) <=> OnSale(train, StartTime(train, pos, d).date)
    BY DEF OffersAreSold
  <2>1. /\ train \in Trains /\ pos \in 1 .. Len(train.stopover)
        /\ RunAt(train, date, pos, waiting, cur_time)
        /\ cur_time \in ClockTimes /\ cur_time.date.month >= 6
    BY DEF RunInv, RunAt
  <2>2. WithinSeason(cur_time)
    <3>1. PICK a, e, x, y : Clock(train, date, pos, waiting, cur_time, a, e, x, y)
      BY <2>1, ClockIs, Zenon
    <3> QED BY <3>1 DEF Clock
  <2>3. IsDate(cur_time.date)
    BY <2>1, <2>2, InSeason
  <2>4. PICK month \in 6 .. 9 : month = cur_time.date.month
    BY <2>1, <2>3 DEF IsDate
  <2>5. d \in CodeDates
    BY <2>4, MonthDayIs
  <2> QED BY <2>1, <2>5, TrainIs, OfferIs
<1> QED BY <1>1, RunInvHolds, PTL

-----------------------------------------------------------------------------
(* Connections. *)

\* The run of day b of the season starts m minutes into it and leaves station j k minutes
\* later.
Departs(tr, j, d, b, m, k) ==
  /\ b \in Int /\ m \in Int /\ k \in Nat
  /\ b = Serial(d) /\ m = MomentMinutes(tr.start_time) /\ k = Elapsed(tr, j)
  /\ Minutes(RunStart(tr, d)) = 1440 * b + m
  /\ DepartureOf(tr, d, j) = 1440 * b + m + k

LEMMA DepartureCounts ==
  ASSUME NEW tr, SummerTrain(tr), NEW j, j \in 1 .. Len(tr.stopover), NEW d \in CodeDates
  PROVE  \E b, m, k : Departs(tr, j, d, b, m, k)
<1>1. PICK k \in Nat : k = Elapsed(tr, j)
  BY ElapsedIs
<1>2. PICK m : m = MomentMinutes(tr.start_time) /\ IsMinute(m)
  BY StartMinute, Zenon
<1>3. m \in Int
  BY <1>2 DEF IsMinute
<1>4. Minutes(RunStart(tr, d)) = 1440 * Serial(d) + m
  BY <1>2, RunStartIs DEF StartsAt
<1>5. PICK b \in Int : b = Serial(d)
  <2>1. PICK n \in Int, c \in 1 .. 31 : d = [month |-> n, day |-> c] /\ (n = 6 => c <= 30)
    BY DateParts
  <2> QED BY <2>1 DEF Serial
<1>6. Departs(tr, j, d, b, m, k)
  BY <1>1, <1>2, <1>3, <1>4, <1>5 DEF DepartureOf, Departs
<1> QED BY <1>6

\* Departs gives the same start and the same way for every run.
LEMMA DepartsAlike ==
  ASSUME NEW tr, NEW j, NEW d, NEW e, NEW b, NEW m, NEW k, NEW c, NEW n, NEW l,
         Departs(tr, j, d, b, m, k), Departs(tr, j, e, c, n, l)
  PROVE  n = m /\ l = k
BY DEF Departs

\* A time x minutes into day a.
DayAt(p, a, x) == p \in Int /\ a \in Int /\ x \in Int /\ p = 1440 * a + x

LEMMA DaysApart ==
  ASSUME NEW p, NEW q, NEW a, NEW b, NEW x, DayAt(p, a, x), DayAt(q, b, x)
  PROVE  /\ a <= b <=> p <= q
         /\ LessThanADay(p, q) => a <= b
<1>1. /\ p \in Int /\ a \in Int /\ x \in Int /\ p = 1440 * a + x
      /\ q \in Int /\ b \in Int /\ q = 1440 * b + x
  BY DEF DayAt
<1>2. a <= b <=> p <= q
  BY <1>1
<1>3. p - q \in -1439 .. 1439 => a <= b
  <2>1. SUFFICES ASSUME p - q \in -1439 .. 1439, ~(a <= b) PROVE FALSE
    OBVIOUS
  <2>8. a \in Int /\ b \in Int
    BY <1>1
  <2>2. a \in Int /\ b \in Int /\ a >= b + 1
    BY <2>1, <2>8
  <2>3. PICK v \in Int, w \in Int : v = 1440 * a /\ w = 1440 * b
    BY <2>2
  <2>4. v >= w + 1440
    BY <2>2, <2>3
  <2>5. p = v + x /\ q = w + x /\ x \in Int
    BY <1>1, <2>3
  <2>6. p \in Int /\ q \in Int /\ p >= q + 1440
    BY <2>4, <2>5
  <2> QED BY <2>1, <2>6
<1> QED BY <1>2, <1>3 DEF LessThanADay

\* The run of a day on sale leaves station j no earlier than t.
Catches(tr, j, t, d) == d \in SaleDays(tr) /\ Minutes(t) <= DepartureOf(tr, d, j)

\* Trains leave a station in the order of their runs.
LEMMA DeparturesInOrder ==
  ASSUME NEW tr, SummerTrain(tr), NEW j, j \in 1 .. Len(tr.stopover),
         NEW d \in CodeDates, NEW e \in CodeDates
  PROVE  /\ DepartureOf(tr, d, j) \in Int /\ DepartureOf(tr, e, j) \in Int
         /\ Serial(d) <= Serial(e) <=> DepartureOf(tr, d, j) <= DepartureOf(tr, e, j)
<1>1. PICK b, m, k : Departs(tr, j, d, b, m, k)
  BY DepartureCounts, Zenon
<1>2. PICK c, n, l : Departs(tr, j, e, c, n, l)
  BY DepartureCounts, Zenon
<1>3. n = m /\ l = k
  BY <1>1, <1>2, DepartsAlike
<1>4. PICK x \in Int : x = m + k
  BY <1>1 DEF Departs
<1>5. /\ b \in Int /\ m \in Int /\ k \in Nat /\ b = Serial(d)
      /\ DepartureOf(tr, d, j) = 1440 * b + m + k
  BY <1>1 DEF Departs
<1>6. c \in Int /\ c = Serial(e) /\ DepartureOf(tr, e, j) = 1440 * c + m + k
  BY <1>2, <1>3 DEF Departs
<1>7. PICK p, q : p = 1440 * b + m + k /\ q = 1440 * c + m + k
  OBVIOUS
<1>8. DayAt(p, b, x) /\ DayAt(q, c, x)
  <2>1. /\ b \in Int /\ c \in Int /\ m \in Int /\ k \in Int /\ x = m + k
        /\ p = 1440 * b + m + k /\ q = 1440 * c + m + k
    BY <1>4, <1>5, <1>6, <1>7
  <2>2. PICK v \in Int, w \in Int : v = 1440 * b /\ w = 1440 * c
    BY <2>1
  <2>3. /\ v \in Int /\ w \in Int /\ m \in Int /\ k \in Int /\ x = m + k
        /\ p = v + m + k /\ q = w + m + k
    BY <2>1, <2>2
  <2>4. p = v + x /\ q = w + x /\ x \in Int
    BY <2>3
  <2>5. p \in Int /\ q \in Int
    BY <2>3, <2>4
  <2> QED BY <2>1, <2>2, <2>4, <2>5 DEF DayAt
<1>9. b <= c <=> p <= q
  BY <1>8, DaysApart
<1>10. p \in Int /\ q \in Int
  BY <1>8 DEF DayAt
<1>11. DepartureOf(tr, d, j) = p /\ DepartureOf(tr, e, j) = q
  BY <1>5, <1>6, <1>7
<1>12. b = Serial(d) /\ c = Serial(e)
  BY <1>5, <1>6
<1> QED BY <1>9, <1>10, <1>11, <1>12

LEMMA SaleEnds ==
  ASSUME NEW tr, SummerTrain(tr)
  PROVE  /\ tr.start_sale \in CodeDates /\ OnSaleSerial(tr, tr.start_sale)
         /\ tr.end_sale \in CodeDates /\ OnSaleSerial(tr, tr.end_sale)
         /\ tr.start_sale.month >= 6 /\ tr.end_sale.month >= 6
         /\ Serial(tr.start_sale) \in Int /\ Serial(tr.end_sale) \in Int
<1>1. tr.start_sale \in CodeDates /\ tr.end_sale \in CodeDates
  BY DEF SummerTrain
<1>2. tr.start_sale.month \in 6 .. 8 /\ tr.end_sale.month \in 6 .. 8
  BY DEF SummerTrain
<1>3. /\ Serial(tr.start_sale) \in 0 .. 91 /\ Serial(tr.end_sale) \in 0 .. 91
      /\ Serial(tr.start_sale) <= Serial(tr.end_sale)
  BY DEF SummerTrain
<1>4. PICK a \in 0 .. 91, b \in 0 .. 91 :
        a = Serial(tr.start_sale) /\ b = Serial(tr.end_sale) /\ a <= b
  BY <1>3
<1>5. a <= a /\ b <= b
  BY <1>4
<1>6. OnSaleSerial(tr, tr.start_sale) /\ OnSaleSerial(tr, tr.end_sale)
  BY <1>4, <1>5 DEF OnSaleSerial
<1> QED BY <1>1, <1>2, <1>3, <1>6

LEMMA ReachableIs ==
  ASSUME NEW tr, SummerTrain(tr), NEW j, j \in 1 .. Len(tr.stopover), NEW t \in ClockTimes
  PROVE  /\ Reachable(tr, j, t) <=> Minutes(t) <= DepartureOf(tr, tr.end_sale, j)
         /\ tr.end_sale \in SaleDays(tr)
<1>1. tr.end_sale \in CodeDates /\ tr.end_sale.month >= 6 /\ OnSaleSerial(tr, tr.end_sale)
  BY SaleEnds
<1>2. PICK s : s = RunStart(tr, tr.end_sale)
  OBVIOUS
<1>3. s \in ClockTimes /\ s.date.month >= 6
  BY <1>1, <1>2, RunStartIs DEF StartsAt
<1>4. PICK e \in Nat : e = Elapsed(tr, j)
  BY ElapsedIs
<1>5. PICK u : u = Plus(s, e)
  OBVIOUS
<1>6. u \in ClockTimes /\ Minutes(u) = Minutes(s) + e
  BY <1>3, <1>4, <1>5, PlusCounts
<1>7. Minutes(u) = DepartureOf(tr, tr.end_sale, j)
  BY <1>2, <1>4, <1>6 DEF DepartureOf
<1>8. Reachable(tr, j, t) <=> ~TimeLess(u, t)
  BY <1>2, <1>4, <1>5 DEF Reachable, RunStart
<1>9. TimeLess(u, t) <=> Minutes(u) < Minutes(t)
  BY <1>6, TimesInOrder
<1>10. Minutes(u) \in Int /\ Minutes(t) \in Int
  BY <1>6, MinutesAre
<1>11. Reachable(tr, j, t) <=> Minutes(t) <= Minutes(u)
  BY <1>8, <1>9, <1>10
<1> QED BY <1>1, <1>7, <1>11, OnSaleIs

\* Any run that can be caught shows that the last can.
LEMMA LastIsCaught ==
  ASSUME NEW tr, SummerTrain(tr), NEW j, j \in 1 .. Len(tr.stopover), NEW t \in ClockTimes,
         NEW d, Catches(tr, j, t, d)
  PROVE  Reachable(tr, j, t)
<1>1. d \in SaleDays(tr) /\ Minutes(t) <= DepartureOf(tr, d, j)
  BY DEF Catches
<1>2. d \in CodeDates /\ OnSaleSerial(tr, d)
  BY <1>1, SaleDayIs
<1>3. tr.end_sale \in CodeDates /\ Serial(d) <= Serial(tr.end_sale)
  BY <1>2 DEF SummerTrain, OnSaleSerial
<1>4. /\ DepartureOf(tr, d, j) \in Int /\ DepartureOf(tr, tr.end_sale, j) \in Int
      /\ DepartureOf(tr, d, j) <= DepartureOf(tr, tr.end_sale, j)
  BY <1>2, <1>3, DeparturesInOrder
<1>5. Minutes(t) \in Int
  BY MinutesAre
<1>6. Minutes(t) <= DepartureOf(tr, tr.end_sale, j)
  BY <1>1, <1>4, <1>5
<1> QED BY <1>6, ReachableIs

\* The run that QueryTransfer takes.
Chosen(tr, j, t, c) ==
  /\ c.moment = tr.start_time /\ Catches(tr, j, t, c.date)
  /\ \A d \in SaleDays(tr) : Catches(tr, j, t, d) => DateLeq(c.date, d)

LEMMA FirstIsChosen ==
  ASSUME NEW tr, SummerTrain(tr), NEW j, j \in 1 .. Len(tr.stopover), NEW t \in ClockTimes,
         NEW c, c = RunStart(tr, tr.start_sale),
         Minutes(t) <= DepartureOf(tr, tr.start_sale, j)
  PROVE  Chosen(tr, j, t, c)
<1>1. tr.start_sale \in CodeDates /\ OnSaleSerial(tr, tr.start_sale)
  BY SaleEnds
<1>2. tr.start_sale \in SaleDays(tr)
  BY <1>1, OnSaleIs
<1>3. c.moment = tr.start_time /\ c.date = tr.start_sale
  BY <1>1, RunStartIs DEF StartsAt
<1>4. ASSUME NEW d \in SaleDays(tr) PROVE DateLeq(tr.start_sale, d)
  <2>1. d \in CodeDates /\ OnSaleSerial(tr, d)
    BY SaleDayIs
  <2> QED BY <1>1, <2>1, DatesInOrder DEF OnSaleSerial
<1> QED BY <1>2, <1>3, <1>4 DEF Chosen, Catches

\* Minute a begins a run, on sale or not, that is the first to leave station j no earlier
\* than t.
FirstAfter(tr, j, t, a, l) ==
  /\ l \in Int /\ a \in Int /\ l = Minutes(t) - Elapsed(tr, j)
  /\ a >= l /\ a <= l + 1439 /\ Minutes(RunStart(tr, tr.start_sale)) <= l

LEMMA NextIsChosen ==
  ASSUME NEW tr, SummerTrain(tr), NEW j, j \in 1 .. Len(tr.stopover), NEW t \in ClockTimes,
         NEW d0, Catches(tr, j, t, d0),
         NEW c, NEW a, NEW l, StartsAt(tr, c, a), FirstAfter(tr, j, t, a, l)
  PROVE  Chosen(tr, j, t, c)
<1>1. c \in ClockTimes /\ c.moment = tr.start_time /\ a = Minutes(c) /\ a \in Int
  BY DEF StartsAt
<1>2. c.date \in CodeDates
  BY <1>1, TimeTyped
<1>3. PICK x, m, k : Departs(tr, j, c.date, x, m, k)
  BY <1>2, DepartureCounts, Zenon
<1>4. /\ x \in Int /\ m \in Int /\ k \in Nat
      /\ x = Serial(c.date) /\ m = MomentMinutes(tr.start_time) /\ k = Elapsed(tr, j)
      /\ DepartureOf(tr, c.date, j) = 1440 * x + m + k
  BY <1>3 DEF Departs
<1>5. DayAt(a, x, m)
  <2>1. Minutes(c) = Serial(c.date) * 1440 + MomentMinutes(c.moment)
    BY <1>1, MinutesAre
  <2>2. a = x * 1440 + m
    BY <1>1, <1>4, <2>1
  <2>3. a = 1440 * x + m
    BY <1>4, <2>2
  <2> QED BY <1>1, <1>4, <2>3 DEF DayAt
<1>6. PICK p \in Int : p = Minutes(t)
  BY MinutesAre
<1>7. l \in Int /\ l = p - k /\ a >= l /\ a <= l + 1439 /\ Minutes(RunStart(tr, tr.start_sale)) <= l
  BY <1>4, <1>6 DEF FirstAfter
<1>8. DepartureOf(tr, c.date, j) = a + k
  BY <1>4, <1>5 DEF DayAt
<1>9. ASSUME NEW d \in CodeDates
      PROVE  \E y, r : /\ y = Serial(d) /\ DayAt(r, y, m)
                       /\ r = Minutes(RunStart(tr, d)) /\ DepartureOf(tr, d, j) = r + k
  <2>1. PICK y, n, h : Departs(tr, j, d, y, n, h)
    BY DepartureCounts, Zenon
  <2>2. n = m /\ h = k
    BY <1>3, <2>1, DepartsAlike
  <2>3. /\ y \in Int /\ y = Serial(d) /\ Minutes(RunStart(tr, d)) = 1440 * y + m
        /\ DepartureOf(tr, d, j) = 1440 * y + m + k
    BY <2>1, <2>2 DEF Departs
  <2>4. PICK r : r = 1440 * y + m
    OBVIOUS
  <2>5. DayAt(r, y, m)
    BY <1>4, <2>3, <2>4 DEF DayAt
  <2> QED BY <2>3, <2>4, <2>5
<1>10. ASSUME NEW d \in SaleDays(tr), Catches(tr, j, t, d) PROVE x <= Serial(d)
  <2>1. d \in CodeDates
    BY SaleDayIs
  <2>2. PICK y, r : /\ y = Serial(d) /\ DayAt(r, y, m)
                    /\ DepartureOf(tr, d, j) = r + k
    BY <1>9, <2>1
  <2>3. r \in Int
    BY <2>2 DEF DayAt
  <2>4. p <= r + k
    BY <1>6, <1>10, <2>2 DEF Catches
  <2>5. /\ a \in Int /\ r \in Int /\ p \in Int /\ k \in Int /\ l \in Int
        /\ l = p - k /\ a <= l + 1439
    BY <1>1, <1>4, <1>6, <1>7, <2>3
  <2>6. a <= r + 1439
    BY <2>4, <2>5
  <2>7. CASE a <= r
    BY <1>5, <2>2, <2>7, DaysApart
  <2>8. CASE ~(a <= r)
    <3>1. a \in Int /\ r \in Int /\ r <= a
      BY <2>5, <2>8
    <3>5. LessThanADay(a, r)
      BY <2>6, <3>1, WithinADay
    <3> QED BY <1>5, <2>2, <3>5, DaysApart
  <2> QED BY <2>7, <2>8
<1>11. OnSaleSerial(tr, c.date)
  <2>1. d0 \in SaleDays(tr)
    BY DEF Catches
  <2>2. d0 \in CodeDates /\ OnSaleSerial(tr, d0) /\ x <= Serial(d0)
    BY <1>10, <2>1, SaleDayIs
  <2>3. tr.start_sale \in CodeDates /\ Serial(tr.end_sale) \in Int
    BY SaleEnds
  <2>4. PICK s, r : s = Serial(tr.start_sale) /\ DayAt(r, s, m) /\ r = Minutes(RunStart(tr, tr.start_sale))
    BY <1>9, <2>3
  <2>5. r \in Int
    BY <2>4 DEF DayAt
  <2>6. r <= a
    BY <1>1, <1>7, <2>4, <2>5
  <2>7. s <= x
    BY <1>5, <2>4, <2>6, DaysApart
  <2>8. Serial(d0) \in Int
    <3>1. PICK n1 \in Int, k1 \in 1 .. 31 : d0 = [month |-> n1, day |-> k1] /\ (n1 = 6 => k1 <= 30)
      BY <2>2, DateParts
    <3> QED BY <3>1 DEF Serial
  <2>9. Serial(d0) <= Serial(tr.end_sale)
    BY <2>2 DEF OnSaleSerial
  <2>10. x <= Serial(tr.end_sale)
    BY <1>4, <2>2, <2>3, <2>8, <2>9
  <2> QED BY <1>4, <2>4, <2>7, <2>10 DEF OnSaleSerial
<1>12. Catches(tr, j, t, c.date)
  <2>1. c.date \in SaleDays(tr)
    BY <1>2, <1>11, OnSaleIs
  <2>2. p <= a + k
    BY <1>1, <1>4, <1>6, <1>7
  <2>3. Minutes(t) <= DepartureOf(tr, c.date, j)
    BY <1>6, <1>8, <2>2
  <2> QED BY <2>1, <2>3 DEF Catches
<1>13. ASSUME NEW d \in SaleDays(tr), Catches(tr, j, t, d) PROVE DateLeq(c.date, d)
  <2>1. d \in CodeDates
    BY SaleDayIs
  <2>2. Serial(c.date) <= Serial(d)
    BY <1>4, <1>10, <1>13
  <2> QED BY <1>2, <2>1, <2>2, DatesInOrder
<1> QED BY <1>1, <1>12, <1>13 DEF Chosen

LEMMA ConnectionIs ==
  ASSUME NEW tr, SummerTrain(tr), NEW j, j \in 1 .. Len(tr.stopover), NEW t \in ClockTimes,
         NEW d0, Catches(tr, j, t, d0)
  PROVE  Chosen(tr, j, t, Connection(tr, j, t))
<1>1. PICK e \in Nat : e = Elapsed(tr, j)
  BY ElapsedIs
<1>2. PICK u : u = Minus(t, e)
  OBVIOUS
<1>3. u \in ClockTimes /\ Minutes(u) = Minutes(t) - e
  BY <1>1, <1>2, MinusCounts
<1>4. PICK f : f = RunStart(tr, tr.start_sale)
  OBVIOUS
<1>5. f \in ClockTimes
  <2>1. StartsAt(tr, f, 1440 * Serial(tr.start_sale) + MomentMinutes(tr.start_time))
    BY <1>4, SaleEnds, RunStartIs
  <2> QED BY <2>1 DEF StartsAt
<1>6. Connection(tr, j, t) = IF TimeLess(u, f) THEN f ELSE FirstStart(u, tr)
  BY <1>1, <1>2, <1>4 DEF Connection, RunStart
<1>7. TimeLess(u, f) <=> Minutes(u) < Minutes(f)
  BY <1>3, <1>5, TimesInOrder
<1>8. PICK a \in Int, b \in Int, p \in Int : a = Minutes(u) /\ b = Minutes(f) /\ p = Minutes(t)
  BY <1>3, <1>5, MinutesAre
<1>9. CASE TimeLess(u, f)
  <2>1. a < b /\ a = p - e
    BY <1>3, <1>7, <1>8, <1>9
  <2>2. DepartureOf(tr, tr.start_sale, j) = b + e
    BY <1>1, <1>4, <1>8 DEF DepartureOf
  <2>3. Minutes(t) <= DepartureOf(tr, tr.start_sale, j)
    BY <1>1, <1>8, <2>1, <2>2
  <2> QED BY <1>4, <1>6, <1>9, <2>3, FirstIsChosen
<1>10. CASE ~TimeLess(u, f)
  <2>1. b <= a /\ a = p - e
    BY <1>3, <1>7, <1>8, <1>10
  <2>2. PICK c : c = FirstStart(u, tr)
    OBVIOUS
  <2>3. tr.start_time \in Moments
    BY DEF SummerTrain
  <2>4. /\ c \in ClockTimes /\ c.moment = tr.start_time
        /\ Minutes(c) \in a .. a + 1439
    <3>1. /\ FirstStart(u, tr) \in ClockTimes /\ FirstStart(u, tr).moment = tr.start_time
          /\ Minutes(FirstStart(u, tr)) \in Minutes(u) .. Minutes(u) + 1439
      BY <1>3, <2>3, FirstStartIs
    <3> QED BY <1>8, <2>2, <3>1
  <2>5. PICK n \in Int : n = Minutes(c)
    BY <2>4, MinutesAre
  <2>6. StartsAt(tr, c, n)
    BY <2>4, <2>5 DEF StartsAt
  <2>7. n >= a /\ n <= a + 1439
    BY <1>8, <2>4, <2>5
  <2>8. FirstAfter(tr, j, t, n, a)
    BY <1>1, <1>4, <1>8, <2>1, <2>5, <2>7 DEF FirstAfter
  <2>10. Chosen(tr, j, t, c)
    BY <2>6, <2>8, NextIsChosen
  <2> QED BY <1>6, <1>10, <2>2, <2>10
<1> QED BY <1>9, <1>10

\* The connection at a time of the season: what ConnectionsAreNext says of one train.
NextCaught(tr, j, t) ==
  LET leaves(d) == Instant(Time(d, tr.start_time)) + Elapsed(tr, j)
      caught    == {d \in SaleDays(tr) : leaves(d) >= Instant(t)}
  IN IF caught = {} THEN ~Reachable(tr, j, t)
     ELSE /\ Reachable(tr, j, t)
          /\ Connection(tr, j, t).moment = tr.start_time
          /\ Connection(tr, j, t).date \in caught
          /\ \A d \in caught : DateLeq(Connection(tr, j, t).date, d)

LEMMA CaughtIs ==
  ASSUME NEW tr \in Trains, NEW j \in DOMAIN tr.travel, NEW t \in ClockTimes, IsDate(t.date)
  PROVE  NextCaught(tr, j, t)
<1>1. SummerTrain(tr)
  BY TrainIs
<1>2. j \in 1 .. Len(tr.stopover)
  <2>1. tr.travel \in Seq(Nat) /\ Len(tr.stopover) = Len(tr.travel) + 1
    BY TrainAssumption
  <2> QED BY <2>1
<1> DEFINE leaves(d) == Instant(Time(d, tr.start_time)) + Elapsed(tr, j)
           caught    == {d \in SaleDays(tr) : leaves(d) >= Instant(t)}
<1>3. ASSUME NEW d \in SaleDays(tr) PROVE leaves(d) >= Instant(t) <=> Catches(tr, j, t, d)
  <2>1. d \in CodeDates /\ Serial(d) \in 0 .. 91
    BY <1>1, SaleDayIs
  <2>2. IsDate(d)
    <3>1. Serial(d) \in -31 .. 121
      BY <2>1
    <3> QED BY <2>1, <3>1, CodeIsDate
  <2>3. PICK s : s = Time(d, tr.start_time)
    OBVIOUS
  <2>4. s.date = d
    BY <2>3 DEF Time
  <2>5. Instant(s) = Minutes(s) /\ Instant(t) = Minutes(t)
    BY <2>2, <2>4, InstantIsMinutes
  <2>6. leaves(d) = DepartureOf(tr, d, j)
    BY <2>3, <2>5 DEF DepartureOf, RunStart
  <2>9. DepartureOf(tr, d, j) \in Int
    BY <1>1, <1>2, <2>1, DeparturesInOrder
  <2>7. DepartureOf(tr, d, j) \in Int /\ Minutes(t) \in Int
    BY <2>9, MinutesAre
  <2>8. DepartureOf(tr, d, j) >= Minutes(t) <=> Minutes(t) <= DepartureOf(tr, d, j)
    BY <2>7
  <2> QED BY <2>5, <2>6, <2>8 DEF Catches
<1>4. \A d : d \in caught <=> Catches(tr, j, t, d)
  BY <1>3 DEF Catches
<1> HIDE DEF caught
<1>5. CASE caught = {}
  <2>1. ~Catches(tr, j, t, tr.end_sale)
    BY <1>4, <1>5
  <2>2. ~Reachable(tr, j, t)
    BY <1>1, <1>2, <2>1, ReachableIs DEF Catches
  <2> QED BY <1>5, <2>2 DEF NextCaught, caught
<1>6. CASE caught # {}
  <2>1. PICK d0 : Catches(tr, j, t, d0)
    BY <1>4, <1>6
  <2>2. Reachable(tr, j, t)
    BY <1>1, <1>2, <2>1, LastIsCaught
  <2>3. PICK c : c = Connection(tr, j, t)
    OBVIOUS
  <2>4. Chosen(tr, j, t, c)
    BY <1>1, <1>2, <2>1, <2>3, ConnectionIs
  <2>5. c.moment = tr.start_time /\ c.date \in caught
    BY <1>4, <2>4 DEF Chosen
  <2>6. \A d \in caught : DateLeq(c.date, d)
    BY <1>4, <2>4 DEF Chosen, Catches
  <2> QED BY <1>6, <2>2, <2>3, <2>5, <2>6 DEF NextCaught, caught
<1> QED BY <1>5, <1>6

\* QueryTransfer connects to the first run on sale of another train that leaves the
\* station no earlier than the traveller arrives, and gives up exactly if there is none.
THEOREM ConnectionsAreNextHolds ==
  RunSpec => []ConnectionsAreNext
<1>1. RunInv => ConnectionsAreNext
  <2>1. ASSUME RunInv PROVE cur_time \in ClockTimes /\ IsDate(cur_time.date)
    <3>1. RunAt(train, date, pos, waiting, cur_time)
      BY <2>1 DEF RunInv
    <3>2. PICK a, e, x, y : Clock(train, date, pos, waiting, cur_time, a, e, x, y)
      BY <3>1, ClockIs, Zenon
    <3>3. cur_time \in ClockTimes /\ WithinSeason(cur_time)
      BY <3>1, <3>2 DEF Clock, RunAt
    <3> QED BY <3>3, InSeason
  <2>2. ASSUME RunInv, NEW tr \in Trains \ {train}, NEW j \in DOMAIN tr.travel
        PROVE  NextCaught(tr, j, cur_time)
    BY <2>1, <2>2, CaughtIs
  <2> QED BY <2>2 DEF ConnectionsAreNext, NextCaught
<1> QED BY <1>1, RunInvHolds, PTL

-----------------------------------------------------------------------------
(* The search of QueryTransfer. *)

\* What the search keeps, way after way.
Search(S, start, end, d, by_cost, f) ==
  f = [s \in SUBSET S |-> IF s = {} THEN <<>>
                          ELSE Considered(f[s \ {Some(s)}], Some(s), start, end, d, by_cost)]

LEMMA QueryUnfolds ==
  ASSUME NEW start, NEW end, NEW d, NEW by_cost
  PROVE  QueryTransfer(start, end, d, by_cost)
           = (CHOOSE f : Search(Changes(start, end), start, end, d, by_cost, f))[Changes(start, end)]
BY DEF QueryTransfer, FoldSet, MapThenFoldSet, Search, Some

\* The search as far as sets of n ways.
SearchUpTo(S, start, end, d, by_cost, f, n) ==
  \A s \in SUBSET S : Cardinality(s) <= n =>
    f[s] = IF s = {} THEN <<>>
           ELSE Considered(f[s \ {Some(s)}], Some(s), start, end, d, by_cost)

LEMMA SearchIsMade ==
  ASSUME NEW S, IsFiniteSet(S), NEW start, NEW end, NEW d, NEW by_cost
  PROVE  \E f : Search(S, start, end, d, by_cost, f)
<1> DEFINE M(f) == [s \in SUBSET S |->
                      IF s = {} THEN <<>>
                      ELSE Considered(f[s \ {Some(s)}], Some(s), start, end, d, by_cost)]
<1> DEFINE N == {n \in Nat : \E f : SearchUpTo(S, start, end, d, by_cost, f, n)}
<1>1. \A s \in SUBSET S : IsFiniteSet(s) /\ Cardinality(s) \in Nat
  BY FS_Subset, FS_CardinalityType
<1>2. ASSUME NEW s \in SUBSET S, s # {}
      PROVE  s \ {Some(s)} \in SUBSET S /\ Cardinality(s \ {Some(s)}) = Cardinality(s) - 1
  <2>1. Some(s) \in s
    BY <1>2 DEF Some
  <2> QED BY <1>1, <2>1, FS_RemoveElement
<1>3. ASSUME NEW n \in Nat, NEW f, SearchUpTo(S, start, end, d, by_cost, f, n)
      PROVE  SearchUpTo(S, start, end, d, by_cost, M(f), n + 1)
  <2>1. \A r \in SUBSET S : Cardinality(r) <= n => M(f)[r] = f[r]
    BY <1>3 DEF SearchUpTo
  <2>2. SUFFICES ASSUME NEW s \in SUBSET S, Cardinality(s) <= n + 1, s # {}
                 PROVE  M(f)[s] = Considered(M(f)[s \ {Some(s)}], Some(s), start, end, d, by_cost)
    BY DEF SearchUpTo
  <2>3. Cardinality(s \ {Some(s)}) <= n
    BY <1>1, <1>2, <2>2
  <2>4. M(f)[s \ {Some(s)}] = f[s \ {Some(s)}]
    BY <1>2, <2>1, <2>2, <2>3
  <2>5. M(f)[s] = Considered(f[s \ {Some(s)}], Some(s), start, end, d, by_cost)
    BY <2>2
  <2> HIDE DEF M
  <2> QED BY <2>4, <2>5
<1>4. ASSUME NEW n \in Nat, \A m \in Nat : m < n => m \in N PROVE n \in N
  <2>1. CASE n = 0
    <3>1. SearchUpTo(S, start, end, d, by_cost, [s \in SUBSET S |-> <<>>], 0)
      <4>1. \A s \in SUBSET S : Cardinality(s) <= 0 => s = {}
        <5>1. SUFFICES ASSUME NEW s \in SUBSET S, Cardinality(s) <= 0 PROVE s = {}
          OBVIOUS
        <5>2. Cardinality(s) = 0 /\ IsFiniteSet(s)
          BY <1>1, <5>1
        <5> QED BY <5>2, FS_EmptySet
      <4> QED BY <4>1 DEF SearchUpTo
    <3> QED BY <2>1, <3>1
  <2>2. CASE n # 0
    <3>1. n - 1 \in Nat /\ n - 1 < n /\ (n - 1) + 1 = n
      BY <2>2
    <3>2. n - 1 \in N
      BY <1>4, <3>1
    <3>3. PICK f : SearchUpTo(S, start, end, d, by_cost, f, n - 1)
      BY <3>2
    <3>4. SearchUpTo(S, start, end, d, by_cost, M(f), (n - 1) + 1)
      BY <1>3, <3>1, <3>3
    <3> HIDE DEF M
    <3> QED BY <3>1, <3>4
  <2> QED BY <2>1, <2>2
<1>5. \A n \in Nat : n \in N
  <2>1. N \in SUBSET Nat
    OBVIOUS
  <2> HIDE DEF N
  <2> QED BY <1>4, <2>1, CourseOfValues
<1>6. PICK f : SearchUpTo(S, start, end, d, by_cost, f, Cardinality(S))
  BY <1>1, <1>5
<1>7. \A s \in SUBSET S : Cardinality(s) <= Cardinality(S)
  BY FS_Subset
<1>8. \A s \in SUBSET S : M(f)[s] = f[s]
  BY <1>6, <1>7 DEF SearchUpTo
<1>9. ASSUME NEW s \in SUBSET S
      PROVE  M(f)[s] = IF s = {} THEN <<>>
                       ELSE Considered(M(f)[s \ {Some(s)}], Some(s), start, end, d, by_cost)
  <2>1. s \ {Some(s)} \in SUBSET S
    OBVIOUS
  <2>2. M(f)[s \ {Some(s)}] = f[s \ {Some(s)}]
    BY <1>8, <2>1
  <2>3. M(f)[s] = IF s = {} THEN <<>>
                  ELSE Considered(f[s \ {Some(s)}], Some(s), start, end, d, by_cost)
    OBVIOUS
  <2> HIDE DEF M
  <2> QED BY <2>2, <2>3
<1>10. PICK g : g = M(f)
  OBVIOUS
<1>11. g = [s \in SUBSET S |-> g[s]]
  BY <1>10
<1>12. \A s \in SUBSET S : g[s] = IF s = {} THEN <<>>
                           ELSE Considered(g[s \ {Some(s)}], Some(s), start, end, d, by_cost)
  BY <1>9, <1>10
<1> HIDE DEF M
<1> QED BY <1>11, <1>12 DEF Search

-----------------------------------------------------------------------------
(* The order of itineraries. *)

Quad(v, a, b, c, e) ==
  a \in Int /\ b \in Int /\ c \in Int /\ e \in Int /\ v = <<a, b, c, e>>

IsQuad(v) == \E a, b, c, e : Quad(v, a, b, c, e)

FourLess(a, b, c, e, p, q, r, s) ==
  a < p \/ (a = p /\ (b < q \/ (b = q /\ (c < r \/ (c = r /\ e < s)))))

LEMMA LexIs ==
  ASSUME NEW v, NEW w, NEW a, NEW b, NEW c, NEW e, NEW p, NEW q, NEW r, NEW s,
         Quad(v, a, b, c, e), Quad(w, p, q, r, s)
  PROVE  LexLess(v, w) <=> FourLess(a, b, c, e, p, q, r, s)
<1>1. /\ a \in Int /\ b \in Int /\ c \in Int /\ e \in Int
      /\ p \in Int /\ q \in Int /\ r \in Int /\ s \in Int
      /\ v = <<a, b, c, e>> /\ w = <<p, q, r, s>>
  BY DEF Quad
<1>2. /\ v[1] = a /\ v[2] = b /\ v[3] = c /\ v[4] = e /\ DOMAIN v = 1 .. 4
      /\ w[1] = p /\ w[2] = q /\ w[3] = r /\ w[4] = s
  BY <1>1
<1>3. LexLess(v, w) <=> \E n \in 1 .. 4 : v[n] < w[n] /\ \A m \in 1 .. n - 1 : v[m] = w[m]
  BY <1>2 DEF LexLess
<1>4. /\ \A m \in 1 .. 1 - 1 : v[m] = w[m]
      /\ (\A m \in 1 .. 2 - 1 : v[m] = w[m]) <=> a = p
      /\ (\A m \in 1 .. 3 - 1 : v[m] = w[m]) <=> a = p /\ b = q
      /\ (\A m \in 1 .. 4 - 1 : v[m] = w[m]) <=> a = p /\ b = q /\ c = r
  <2>1. 1 .. 1 - 1 = {} /\ 1 .. 2 - 1 = {1} /\ 1 .. 3 - 1 = {1, 2} /\ 1 .. 4 - 1 = {1, 2, 3}
    OBVIOUS
  <2> QED BY <1>2, <2>1
<1>5. 1 .. 4 = {1, 2, 3, 4}
  OBVIOUS
<1>6. LexLess(v, w) <=> \/ a < p \/ (b < q /\ a = p) \/ (c < r /\ a = p /\ b = q)
                        \/ (e < s /\ a = p /\ b = q /\ c = r)
  BY <1>2, <1>3, <1>4, <1>5
<1> QED BY <1>6 DEF FourLess

LEMMA LexOrders ==
  ASSUME NEW u, NEW v, NEW w, IsQuad(u), IsQuad(v), IsQuad(w)
  PROVE  /\ ~LexLess(u, u)
         /\ LexLess(u, v) => ~LexLess(v, u)
         /\ ~LexLess(u, v) /\ ~LexLess(v, w) => ~LexLess(u, w)
<1>1. PICK a, b, c, e : Quad(u, a, b, c, e)
  BY DEF IsQuad
<1>2. PICK p, q, r, s : Quad(v, p, q, r, s)
  BY DEF IsQuad
<1>3. PICK k, l, m, n : Quad(w, k, l, m, n)
  BY DEF IsQuad
<1>4. /\ LexLess(u, u) <=> FourLess(a, b, c, e, a, b, c, e)
      /\ LexLess(u, v) <=> FourLess(a, b, c, e, p, q, r, s)
      /\ LexLess(v, u) <=> FourLess(p, q, r, s, a, b, c, e)
      /\ LexLess(v, w) <=> FourLess(p, q, r, s, k, l, m, n)
      /\ LexLess(u, w) <=> FourLess(a, b, c, e, k, l, m, n)
  BY <1>1, <1>2, <1>3, LexIs
<1>5. /\ a \in Int /\ b \in Int /\ c \in Int /\ e \in Int
      /\ p \in Int /\ q \in Int /\ r \in Int /\ s \in Int
      /\ k \in Int /\ l \in Int /\ m \in Int /\ n \in Int
  BY <1>1, <1>2, <1>3 DEF Quad
<1> QED BY <1>4, <1>5 DEF FourLess

\* An itinerary of given time, price and trains, and its place in the order.
QuadOf(by_cost, time, price, id1, id2) ==
  IF by_cost THEN <<price, time, id1, id2>> ELSE <<time, price, id1, id2>>

\* A later arrival is not preferred.
LEMMA LaterIsNotLess ==
  ASSUME NEW by_cost \in BOOLEAN, NEW x \in Int, NEW y \in Int, x <= y,
         NEW price \in Int, NEW id1 \in Int, NEW id2 \in Int
  PROVE  /\ IsQuad(QuadOf(by_cost, x, price, id1, id2))
         /\ IsQuad(QuadOf(by_cost, y, price, id1, id2))
         /\ ~LexLess(QuadOf(by_cost, y, price, id1, id2), QuadOf(by_cost, x, price, id1, id2))
<1>1. CASE by_cost
  <2>1. /\ Quad(QuadOf(by_cost, x, price, id1, id2), price, x, id1, id2)
        /\ Quad(QuadOf(by_cost, y, price, id1, id2), price, y, id1, id2)
    BY <1>1 DEF Quad, QuadOf
  <2>2. ~FourLess(price, y, id1, id2, price, x, id1, id2)
    BY DEF FourLess
  <2> QED BY <2>1, <2>2, LexIs DEF IsQuad
<1>2. CASE ~by_cost
  <2>1. /\ Quad(QuadOf(by_cost, x, price, id1, id2), x, price, id1, id2)
        /\ Quad(QuadOf(by_cost, y, price, id1, id2), y, price, id1, id2)
    BY <1>2 DEF Quad, QuadOf
  <2>2. ~FourLess(y, price, id1, id2, x, price, id1, id2)
    BY DEF FourLess
  <2> QED BY <2>1, <2>2, LexIs DEF IsQuad
<1> QED BY <1>1, <1>2

LEMMA RankIs ==
  ASSUME NEW t1, NEW t2, NEW by_cost \in BOOLEAN,
         TotalTime(<<t1, t2>>) \in Int, TotalPrice(<<t1, t2>>) \in Int,
         t1.train_id \in Int, t2.train_id \in Int
  PROVE  Rank(<<t1, t2>>, by_cost)
           = QuadOf(by_cost, TotalTime(<<t1, t2>>), TotalPrice(<<t1, t2>>), t1.train_id, t2.train_id)
<1>1. ASSUME NEW a \in Int, NEW b \in Int, NEW c \in Int, NEW e \in Int
      PROVE  <<a, b>> \o <<c, e>> = <<a, b, c, e>>
  <2>1. PICK x : x = <<a, b>> \o <<c, e>>
    OBVIOUS
  <2>2. <<a, b>> \in Seq(Int) /\ <<c, e>> \in Seq(Int) /\ Len(<<a, b>>) = 2 /\ Len(<<c, e>>) = 2
    OBVIOUS
  <2>3. x \in Seq(Int) /\ Len(x) = 4
    BY <2>1, <2>2
  <2>4. x[1] = a /\ x[2] = b /\ x[3] = c /\ x[4] = e
    BY <2>1, <2>2
  <2>5. <<a, b, c, e>> \in Seq(Int) /\ Len(<<a, b, c, e>>) = 4
    OBVIOUS
  <2>6. x = <<x[1], x[2], x[3], x[4]>>
    BY <2>3
  <2> QED BY <2>1, <2>4, <2>6
<1>2. <<t1, t2>>[1] = t1 /\ <<t1, t2>>[2] = t2
  OBVIOUS
<1> QED BY <1>1, <1>2 DEF Rank, QuadOf

-----------------------------------------------------------------------------
(* The best of the ways. *)

Feasible(way, start, d) ==
  LET from == Stop(way[1], start)
  IN Offered(way[1], from, d) /\ Reachable(way[2], way[4], Arrive(way[1], from, way[3], d))

TicketsOf(way, start, end, d) ==
  LET from == Stop(way[1], start)
  IN <<Ticket(way[1], from, way[3], StartTime(way[1], from, d)),
       Ticket(way[2], way[4], Stop(way[2], end),
              Connection(way[2], way[4], Arrive(way[1], from, way[3], d)))>>

RankOf(way, start, end, d, by_cost) == Rank(TicketsOf(way, start, end, d), by_cost)

LEMMA ConsideredIs ==
  ASSUME NEW best, NEW way, NEW start, NEW end, NEW d, NEW by_cost
  PROVE  Considered(best, way, start, end, d, by_cost)
           = IF \/ ~Feasible(way, start, d)
                \/ best # <<>> /\ LexLess(Rank(best, by_cost), RankOf(way, start, end, d, by_cost))
             THEN best ELSE TicketsOf(way, start, end, d)
BY DEF Considered, Feasible, TicketsOf, RankOf

\* The tickets are those of a feasible way that no other is less than.
BestWay(best, s, w, start, end, d, by_cost) ==
  /\ w \in s /\ Feasible(w, start, d) /\ best = TicketsOf(w, start, end, d)
  /\ \A u \in s : Feasible(u, start, d) =>
       ~LexLess(RankOf(u, start, end, d, by_cost), RankOf(w, start, end, d, by_cost))

NoWay(best, s, start, d) == best = <<>> /\ \A w \in s : ~Feasible(w, start, d)

IsBest(best, s, start, end, d, by_cost) ==
  NoWay(best, s, start, d) \/ \E w : BestWay(best, s, w, start, end, d, by_cost)

Ranked(s, start, end, d, by_cost) ==
  \A w \in s : Feasible(w, start, d) => IsQuad(RankOf(w, start, end, d, by_cost))

\* One more way.
LEMMA BestKept ==
  ASSUME NEW best, NEW r, NEW x, NEW s, s = r \cup {x},
         NEW start, NEW end, NEW d, NEW by_cost,
         IsBest(best, r, start, end, d, by_cost), Ranked(s, start, end, d, by_cost)
  PROVE  IsBest(Considered(best, x, start, end, d, by_cost), s, start, end, d, by_cost)
<1> DEFINE feasible(w) == Feasible(w, start, d)
           rank(w) == RankOf(w, start, end, d, by_cost)
<1>1. PICK after : after = Considered(best, x, start, end, d, by_cost)
  OBVIOUS
<1>2. after = IF ~feasible(x) \/ (best # <<>> /\ LexLess(Rank(best, by_cost), rank(x)))
              THEN best ELSE TicketsOf(x, start, end, d)
  BY <1>1, ConsideredIs
<1>3. ASSUME NEW w \in s, feasible(w) PROVE IsQuad(rank(w))
  BY <1>3 DEF Ranked
<1>4. CASE ~feasible(x)
  <2>1. after = best
    BY <1>2, <1>4
  <2>2. CASE NoWay(best, r, start, d)
    BY <1>1, <1>4, <2>1, <2>2 DEF IsBest, NoWay
  <2>3. CASE \E w : BestWay(best, r, w, start, end, d, by_cost)
    <3>1. PICK w : BestWay(best, r, w, start, end, d, by_cost)
      BY <2>3
    <3>2. BestWay(after, s, w, start, end, d, by_cost)
      BY <1>4, <2>1, <3>1 DEF BestWay
    <3> QED BY <1>1, <3>2 DEF IsBest
  <2> QED BY <2>2, <2>3 DEF IsBest
<1>5. CASE feasible(x)
  <2>1. IsQuad(rank(x)) /\ ~LexLess(rank(x), rank(x))
    <3>1. IsQuad(rank(x))
      BY <1>3, <1>5
    <3> QED BY <3>1, LexOrders
  <2>2. CASE NoWay(best, r, start, d)
    <3>1. after = TicketsOf(x, start, end, d)
      BY <1>2, <1>5, <2>2 DEF NoWay
    <3>2. BestWay(after, s, x, start, end, d, by_cost)
      BY <1>5, <2>1, <2>2, <3>1 DEF BestWay, NoWay
    <3> QED BY <1>1, <3>2 DEF IsBest
  <2>3. CASE \E w : BestWay(best, r, w, start, end, d, by_cost)
    <3>1. PICK w : BestWay(best, r, w, start, end, d, by_cost)
      BY <2>3
    <3>2. /\ w \in s /\ feasible(w) /\ best = TicketsOf(w, start, end, d)
          /\ rank(w) = Rank(best, by_cost) /\ best # <<>>
      BY <3>1 DEF BestWay, RankOf, TicketsOf
    <3>3. \A u \in r : feasible(u) => ~LexLess(rank(u), rank(w))
      BY <3>1 DEF BestWay
    <3>4. IsQuad(rank(w))
      BY <1>3, <3>2
    <3>5. CASE LexLess(rank(w), rank(x))
      <4>1. after = best
        BY <1>2, <3>2, <3>5
      <4>2. ~LexLess(rank(x), rank(w))
        BY <2>1, <3>4, <3>5, LexOrders
      <4>3. BestWay(after, s, w, start, end, d, by_cost)
        BY <3>2, <3>3, <4>1, <4>2 DEF BestWay
      <4> QED BY <1>1, <4>3 DEF IsBest
    <3>6. CASE ~LexLess(rank(w), rank(x))
      <4>1. after = TicketsOf(x, start, end, d)
        BY <1>2, <1>5, <3>2, <3>6
      <4>2. ASSUME NEW u \in s, feasible(u) PROVE ~LexLess(rank(u), rank(x))
        <5>1. CASE u = x
          BY <2>1, <5>1
        <5>2. CASE u # x
          <6>1. u \in r
            BY <5>2
          <6>2. ~LexLess(rank(u), rank(w))
            BY <3>3, <4>2, <6>1
          <6>3. IsQuad(rank(u))
            BY <1>3, <4>2
          <6> HIDE DEF rank
          <6> QED BY <2>1, <3>4, <3>6, <6>2, <6>3, LexOrders
        <5> QED BY <5>1, <5>2
      <4>3. x \in s
        OBVIOUS
      <4>4. BestWay(after, s, x, start, end, d, by_cost)
        BY <1>5, <4>1, <4>2, <4>3 DEF BestWay
      <4> QED BY <1>1, <4>4 DEF IsBest
    <3> QED BY <3>5, <3>6
  <2> QED BY <2>2, <2>3 DEF IsBest
<1> QED BY <1>4, <1>5

LEMMA SearchIsBest ==
  ASSUME NEW S, IsFiniteSet(S), NEW start, NEW end, NEW d, NEW by_cost,
         Ranked(S, start, end, d, by_cost), NEW f, Search(S, start, end, d, by_cost, f)
  PROVE  IsBest(f[S], S, start, end, d, by_cost)
<1> DEFINE N == {n \in Nat : \A s \in SUBSET S :
                   Cardinality(s) = n => IsBest(f[s], s, start, end, d, by_cost)}
<1>1. \A s \in SUBSET S : IsFiniteSet(s) /\ Cardinality(s) \in Nat
  BY FS_Subset, FS_CardinalityType
<1>2. ASSUME NEW n \in Nat, \A m \in Nat : m < n => m \in N PROVE n \in N
  <2>1. SUFFICES ASSUME NEW s \in SUBSET S, Cardinality(s) = n
                 PROVE  IsBest(f[s], s, start, end, d, by_cost)
    OBVIOUS
  <2>2. CASE s = {}
    <3>1. f[s] = <<>>
      BY <2>2 DEF Search
    <3> QED BY <2>2, <3>1 DEF IsBest, NoWay
  <2>3. CASE s # {}
    <3>1. PICK x : x = Some(s) /\ x \in s
      BY <2>3 DEF Some
    <3>2. PICK r \in SUBSET S : r = s \ {x}
      OBVIOUS
    <3>3. Cardinality(r) = n - 1 /\ Cardinality(r) \in Nat
      BY <1>1, <2>1, <3>1, <3>2, FS_RemoveElement
    <3>4. IsBest(f[r], r, start, end, d, by_cost)
      <4>1. n - 1 \in Nat /\ n - 1 < n
        BY <3>3
      <4> QED BY <1>2, <3>3, <4>1
    <3>5. f[s] = Considered(f[r], x, start, end, d, by_cost)
      BY <2>3, <3>1, <3>2 DEF Search
    <3>6. s = r \cup {x} /\ Ranked(s, start, end, d, by_cost)
      BY <3>1, <3>2 DEF Ranked
    <3> QED BY <3>4, <3>5, <3>6, BestKept
  <2> QED BY <2>2, <2>3
<1>3. \A n \in Nat : n \in N
  <2>1. N \in SUBSET Nat
    OBVIOUS
  <2> HIDE DEF N
  <2> QED BY <1>2, <2>1, CourseOfValues
<1> QED BY <1>1, <1>3

\* What QueryTransfer answers is the best of all ways to change.
LEMMA QueryIsBest ==
  ASSUME NEW start, NEW end, NEW d, NEW by_cost, IsFiniteSet(Changes(start, end)),
         Ranked(Changes(start, end), start, end, d, by_cost)
  PROVE  IsBest(QueryTransfer(start, end, d, by_cost), Changes(start, end), start, end, d, by_cost)
<1>1. PICK S : S = Changes(start, end)
  OBVIOUS
<1>2. PICK g : g = CHOOSE f : Search(S, start, end, d, by_cost, f)
  OBVIOUS
<1>3. Search(S, start, end, d, by_cost, g)
  BY <1>1, <1>2, SearchIsMade
<1>4. QueryTransfer(start, end, d, by_cost) = g[S]
  BY <1>1, <1>2, QueryUnfolds
<1> QED BY <1>1, <1>3, <1>4, SearchIsBest

-----------------------------------------------------------------------------
(* The ways to change. *)

LEMMA ChangesFinite ==
  ASSUME NEW start, NEW end
  PROVE  IsFiniteSet(Changes(start, end))
<1>1. PICK I : I = 1 .. MaxStops
  OBVIOUS
<1>2. IsFiniteSet(Trains) /\ IsFiniteSet(I)
  <2>1. IsFiniteSet(Trains) /\ MaxStops \in Nat
    BY TrainAssumption
  <2> QED BY <1>1, <2>1, FS_Interval
<1>3. PICK A : A = Trains \X Trains
  OBVIOUS
<1>4. PICK B : B = I \X I
  OBVIOUS
<1>5. IsFiniteSet(A) /\ IsFiniteSet(B)
  BY <1>2, <1>3, <1>4, FS_Product
<1>6. PICK P : P = A \X B
  OBVIOUS
<1>7. IsFiniteSet(P)
  BY <1>5, <1>6, FS_Product
<1>8. PICK Q : Q = Trains \X Trains \X I \X I
  OBVIOUS
<1> DEFINE f == [p \in P |-> <<p[1][1], p[1][2], p[2][1], p[2][2]>>]
<1>9. f \in Surjection(P, Q)
  <2>1. \A p \in P : p[1][1] \in Trains /\ p[1][2] \in Trains /\ p[2][1] \in I /\ p[2][2] \in I
    BY <1>3, <1>4, <1>6
  <2>2. f \in [P -> Q]
    BY <1>8, <2>1
  <2>3. ASSUME NEW q \in Q PROVE \E p \in P : f[p] = q
    <3>1. PICK t1 \in Trains, t2 \in Trains, i \in I, j \in I : q = <<t1, t2, i, j>>
      BY <1>8
    <3>2. <<t1, t2>> \in A /\ <<i, j>> \in B
      BY <1>3, <1>4
    <3>3. <<<<t1, t2>>, <<i, j>>>> \in P
      BY <1>6, <3>2
    <3>4. f[<<<<t1, t2>>, <<i, j>>>>] = <<t1, t2, i, j>>
      BY <3>3
    <3> QED BY <3>1, <3>3, <3>4
  <2> HIDE DEF f
  <2> QED BY <2>2, <2>3 DEF Surjection
<1>10. IsFiniteSet(Q)
  BY <1>7, <1>9, FS_Surjection
<1>11. Changes(start, end) \in SUBSET Q
  BY <1>1, <1>8 DEF Changes
<1> QED BY <1>10, <1>11, FS_Subset

\* The stop at a station, there being only one.
LEMMA StopIs ==
  ASSUME NEW tr \in Trains, NEW n \in 1 .. Len(tr.stations)
  PROVE  Stop(tr, tr.stations[n]) = n
<1>1. tr.stations \in Seq(Range(tr.stations)) /\ IsInjective(tr.stations)
  BY TrainAssumption
<1>2. DOMAIN tr.stations = 1 .. Len(tr.stations)
  BY <1>1
<1>3. \A m \in DOMAIN tr.stations : tr.stations[m] = tr.stations[n] <=> m = n
  BY <1>1, <1>2 DEF IsInjective
<1> QED BY <1>2, <1>3 DEF Stop

\* The legs of an itinerary.
Legs(way, i, k, j, l) ==
  /\ way[1] \in Trains /\ way[2] \in Trains
  /\ i \in 1 .. Len(way[1].stopover) /\ k \in 1 .. Len(way[1].stopover) /\ i < k
  /\ j \in 1 .. Len(way[2].stopover) /\ l \in 1 .. Len(way[2].stopover) /\ j < l

LEMMA WayIs ==
  ASSUME NEW start, NEW end, NEW way \in Changes(start, end)
  PROVE  Legs(way, Stop(way[1], start), way[3], way[4], Stop(way[2], end))
<1>1. PICK tr1, tr2 : tr1 = way[1] /\ tr2 = way[2]
  OBVIOUS
<1>2. /\ tr1 \in Trains /\ tr2 \in Trains
      /\ way[3] \in DOMAIN tr1.stations /\ way[4] \in DOMAIN tr2.stations
  BY <1>1 DEF Changes
<1>3. PICK i \in 1 .. way[3] - 1 : tr1.stations[i] = start
  BY <1>1 DEF Changes
<1>4. PICK l \in way[4] + 1 .. Len(tr2.stations) : tr2.stations[l] = end
  BY <1>1 DEF Changes
<1>5. ASSUME NEW tr \in Trains
      PROVE  /\ DOMAIN tr.stations = 1 .. Len(tr.stations) /\ Len(tr.stations) \in Nat
             /\ Len(tr.stations) = Len(tr.stopover)
  <2>1. tr.stations \in Seq(Range(tr.stations)) /\ Len(tr.stations) = Len(tr.stopover)
    BY TrainAssumption
  <2> QED BY <2>1
<1>6. /\ way[3] \in 1 .. Len(tr1.stations) /\ way[4] \in 1 .. Len(tr2.stations)
      /\ Len(tr1.stations) \in Nat /\ Len(tr2.stations) \in Nat
  BY <1>2, <1>5
<1>7. /\ i \in 1 .. Len(tr1.stations) /\ i < way[3]
      /\ l \in 1 .. Len(tr2.stations) /\ way[4] < l
  BY <1>6
<1>8. Stop(tr1, start) = i /\ Stop(tr2, end) = l
  BY <1>2, <1>3, <1>4, <1>7, StopIs
<1> QED BY <1>1, <1>2, <1>5, <1>6, <1>7, <1>8 DEF Legs

-----------------------------------------------------------------------------
(* The first train of an itinerary. *)

\* The run of day r leaves station i on day d.
FirstLeg(tr, i, d, r) ==
  r \in SaleDays(tr) /\ Plus(RunStart(tr, r), Elapsed(tr, i)).date = d

\* When a run leaves a station, on the clock.
LEMMA LeavingIs ==
  ASSUME NEW tr \in Trains, NEW r \in SaleDays(tr), NEW i, i \in 1 .. Len(tr.stopover)
  PROVE  LET t == Plus(RunStart(tr, r), Elapsed(tr, i))
         IN /\ t \in ClockTimes /\ t.date.month >= 6 /\ IsDate(t.date)
            /\ Minutes(t) = DepartureOf(tr, r, i) /\ LeavesAt(tr, r, i, t)
<1>1. SummerTrain(tr)
  BY TrainIs
<1>2. r \in CodeDates /\ r.month >= 6
  BY <1>1, SaleDayIs
<1>3. PICK e \in Nat : e = Elapsed(tr, i)
  BY <1>1, ElapsedIs
<1>4. PICK s : s = RunStart(tr, r)
  OBVIOUS
<1>5. s \in ClockTimes /\ s.date.month >= 6
  BY <1>1, <1>2, <1>4, RunStartIs DEF StartsAt
<1>6. PICK t : t = Plus(s, e)
  OBVIOUS
<1>7. t \in ClockTimes /\ t.date.month >= 6 /\ Minutes(t) = Minutes(s) + e
  BY <1>3, <1>5, <1>6, PlusCounts
<1>8. Minutes(t) = DepartureOf(tr, r, i) /\ LeavesAt(tr, r, i, t)
  BY <1>3, <1>4, <1>7 DEF DepartureOf, LeavesAt
<1>9. WithinSeason(t)
  <2>1. PICK w \in Nat, p \in Int : w = tr.stopover[i] /\ p = DepartureOf(tr, r, i)
    BY DepartureIs
  <2>2. p - w >= 0 /\ p < 1440 * Season
    BY <2>1, DepartureIs
  <2>3. p >= 0
    BY <2>1, <2>2
  <2> QED BY <1>8, <2>1, <2>2, <2>3 DEF WithinSeason
<1>10. IsDate(t.date)
  BY <1>7, <1>9, InSeason
<1> QED BY <1>3, <1>4, <1>6, <1>7, <1>8, <1>10

LEMMA FirstLegIs ==
  ASSUME NEW tr \in Trains, NEW i, i \in 1 .. Len(tr.stopover), NEW d, NEW r,
         FirstLeg(tr, i, d, r)
  PROVE  Offered(tr, i, d) /\ StartTime(tr, i, d) = RunStart(tr, r)
<1>1. SummerTrain(tr)
  BY TrainIs
<1>2. PICK t : t = Plus(RunStart(tr, r), Elapsed(tr, i))
  OBVIOUS
<1>3. t \in ClockTimes /\ LeavesAt(tr, r, i, t) /\ t.date = d /\ r \in SaleDays(tr)
  BY <1>2, LeavingIs DEF FirstLeg
<1>4. r \in CodeDates /\ OnSaleSerial(tr, r)
  BY <1>1, <1>3, SaleDayIs
<1>5. StartTime(tr, i, d) = RunStart(tr, r)
  BY <1>1, <1>3, <1>4, RunFound
<1>6. RunStart(tr, r).date = r
  BY <1>1, <1>4, RunStartIs
<1>7. OnSale(tr, StartTime(tr, i, d).date)
  BY <1>1, <1>4, <1>5, <1>6, OnSaleIs
<1>8. d \in CodeDates
  BY <1>3, TimeTyped
<1> QED BY <1>1, <1>5, <1>7, <1>8, OfferIs

LEMMA OfferedIs ==
  ASSUME NEW tr \in Trains, NEW i, i \in 1 .. Len(tr.stopover), NEW d \in CodeDates,
         Offered(tr, i, d)
  PROVE  FirstLeg(tr, i, d, StartTime(tr, i, d).date)
<1>1. SummerTrain(tr)
  BY TrainIs
<1>2. PICK s : s = StartTime(tr, i, d)
  OBVIOUS
<1>3. PICK a : StartsOn(tr, i, d, a)
  BY <1>1, StartTimeIs, Zenon
<1>4. /\ a \in Int /\ StartsAt(tr, s, a)
      /\ a + Elapsed(tr, i) \in 1440 * Serial(d) .. 1440 * Serial(d) + 1439
  BY <1>2, <1>3 DEF StartsOn
<1>5. s \in ClockTimes /\ s.moment = tr.start_time /\ a = Minutes(s)
  BY <1>4 DEF StartsAt
<1>6. PICK r : r = s.date
  OBVIOUS
<1>7. r \in CodeDates /\ s = RunStart(tr, r)
  <2>1. s = [date |-> s.date, moment |-> s.moment] /\ s.date \in CodeDates
    BY <1>5, MinutesAre
  <2> QED BY <1>5, <1>6, <2>1 DEF RunStart, Time
<1>8. r \in SaleDays(tr)
  <2>1. OnSale(tr, r)
    BY <1>1, <1>2, <1>6, OfferIs
  <2> QED BY <1>1, <1>7, <2>1, OnSaleIs
<1>9. PICK t : t = Plus(s, Elapsed(tr, i))
  OBVIOUS
<1>10. t \in ClockTimes /\ Minutes(t) = DepartureOf(tr, r, i)
  BY <1>7, <1>8, <1>9, LeavingIs
<1>11. PICK e \in Nat : e = Elapsed(tr, i)
  BY <1>1, ElapsedIs
<1>12. Minutes(t) = a + e
  BY <1>5, <1>7, <1>10, <1>11 DEF DepartureOf
<1>13. PICK x \in Int : x = Serial(t.date)
  BY <1>10, DayOf
<1>14. PICK y : y = Serial(d)
  OBVIOUS
<1>15. y \in Int
  BY <1>14, DateParts DEF Serial
<1>16. a + e \in 1440 * x .. 1440 * x + 1439
  BY <1>10, <1>12, <1>13, DayOf
<1>17. a + e \in 1440 * y .. 1440 * y + 1439
  BY <1>4, <1>11, <1>14
<1>18. x = y
  <2>1. PICK w \in Int : w = a + e
    BY <1>4
  <2>2. w \in 1440 * x .. 1440 * x + 1439 /\ w \in 1440 * y .. 1440 * y + 1439
    BY <1>16, <1>17, <2>1
  <2>3. /\ 1440 * x <= w /\ w <= 1440 * x + 1439
        /\ 1440 * y <= w /\ w <= 1440 * y + 1439
    BY <1>15, <2>2
  <2> QED BY <1>15, <2>3
<1>19. t.date = d
  <2>1. t.date \in CodeDates
    BY <1>10, TimeTyped
  <2> QED BY <1>13, <1>14, <1>18, <2>1, DatesInOrder
<1> QED BY <1>2, <1>6, <1>7, <1>8, <1>9, <1>19 DEF FirstLeg

\* When the run of day r arrives at station k.
ArrivalOf(tr, r, k) == DepartureOf(tr, r, k) - tr.stopover[k]

\* Between leaving and arriving.
LEMMA WayTakes ==
  ASSUME NEW tr \in Trains, NEW r \in SaleDays(tr), NEW i, NEW k,
         i \in 1 .. Len(tr.stopover), k \in 1 .. Len(tr.stopover), i < k
  PROVE  /\ DepartureOf(tr, r, i) \in Int /\ ArrivalOf(tr, r, k) \in Int
         /\ Duration(tr, i, k) \in Nat
         /\ ArrivalOf(tr, r, k) = DepartureOf(tr, r, i) + Duration(tr, i, k)
<1>1. SummerTrain(tr)
  BY TrainIs
<1>2. PICK a \in Nat, b \in Nat, x \in Nat, e \in Nat :
        a = Elapsed(tr, i) /\ b = Elapsed(tr, k) /\ x = Duration(tr, i, k) /\ e = tr.stopover[k]
  BY <1>1, DurationIs
<1>3. b = a + x + e
  BY <1>1, <1>2, DurationIs
<1>4. r \in CodeDates
  BY <1>1, SaleDayIs
<1>5. PICK m \in Int : m = Minutes(RunStart(tr, r))
  <2>1. RunStart(tr, r) \in ClockTimes
    BY <1>1, <1>4, RunStartIs DEF StartsAt
  <2> QED BY <2>1, MinutesAre
<1>6. DepartureOf(tr, r, i) = m + a /\ DepartureOf(tr, r, k) = m + b
  BY <1>2, <1>5 DEF DepartureOf
<1>7. PICK p, q : p = DepartureOf(tr, r, i) /\ q = DepartureOf(tr, r, k)
  OBVIOUS
<1>8. p = m + a /\ q = m + b
  BY <1>6, <1>7
<1>9. p \in Int /\ q \in Int /\ q - e \in Int /\ q - e = p + x
  BY <1>3, <1>8
<1>10. ArrivalOf(tr, r, k) = q - e
  BY <1>2, <1>7 DEF ArrivalOf
<1> QED BY <1>2, <1>7, <1>9, <1>10, Zenon

LEMMA ArrivalIs ==
  ASSUME NEW tr \in Trains, NEW i, NEW k,
         i \in 1 .. Len(tr.stopover), k \in 1 .. Len(tr.stopover), i < k,
         NEW d, NEW r, FirstLeg(tr, i, d, r)
  PROVE  Arrive(tr, i, k, d) \in ClockTimes /\ Minutes(Arrive(tr, i, k, d)) = ArrivalOf(tr, r, k)
<1>1. PICK u : u = Plus(RunStart(tr, r), Elapsed(tr, i))
  OBVIOUS
<1>2. r \in SaleDays(tr) /\ StartTime(tr, i, d) = RunStart(tr, r)
  BY FirstLegIs DEF FirstLeg
<1>3. u \in ClockTimes /\ u.date.month >= 6 /\ Minutes(u) = DepartureOf(tr, r, i)
  BY <1>1, <1>2, LeavingIs
<1>4. PICK x \in Nat : x = Duration(tr, i, k)
  BY <1>2, WayTakes
<1>5. ArrivalOf(tr, r, k) = DepartureOf(tr, r, i) + x
  BY <1>2, <1>4, WayTakes
<1>6. Plus(u, x) \in ClockTimes /\ Minutes(Plus(u, x)) = Minutes(u) + x
  BY <1>3, <1>4, PlusCounts
<1>7. Arrive(tr, i, k, d) = Plus(u, x)
  BY <1>1, <1>2, <1>4 DEF Arrive, Leave
<1> QED BY <1>3, <1>5, <1>6, <1>7

-----------------------------------------------------------------------------
(* The second train, and both together. *)

\* The run of day s leaves station j no earlier than the run of day r arrives at k.
SecondLeg(tr1, k, r, tr2, j, s) ==
  s \in SaleDays(tr2) /\ DepartureOf(tr2, s, j) >= ArrivalOf(tr1, r, k)

LEMMA ConnectionStarts ==
  ASSUME NEW tr, SummerTrain(tr), NEW j, j \in 1 .. Len(tr.stopover), NEW t \in ClockTimes
  PROVE  Connection(tr, j, t) \in ClockTimes
<1>1. PICK u : u = Minus(t, Elapsed(tr, j))
  OBVIOUS
<1>2. u \in ClockTimes
  BY <1>1, ElapsedIs, MinusCounts
<1>3. PICK f : f = RunStart(tr, tr.start_sale)
  OBVIOUS
<1>4. f \in ClockTimes
  <2>1. StartsAt(tr, f, 1440 * Serial(tr.start_sale) + MomentMinutes(tr.start_time))
    BY <1>3, SaleEnds, RunStartIs
  <2> QED BY <2>1 DEF StartsAt
<1>5. tr.start_time \in Moments
  BY DEF SummerTrain
<1>6. FirstStart(u, tr) \in ClockTimes
  BY <1>2, <1>5, FirstStartIs
<1>7. Connection(tr, j, t) = IF TimeLess(u, f) THEN f ELSE FirstStart(u, tr)
  BY <1>1, <1>3 DEF Connection, RunStart
<1> QED BY <1>4, <1>6, <1>7

\* Whether there is a second leg, and the first there is.
LEMMA SecondLegIs ==
  ASSUME NEW tr1, NEW k, NEW r, NEW tr2 \in Trains, NEW j, j \in 1 .. Len(tr2.stopover),
         NEW t \in ClockTimes, Minutes(t) = ArrivalOf(tr1, r, k)
  PROVE  /\ \A s : SecondLeg(tr1, k, r, tr2, j, s) => Reachable(tr2, j, t)
         /\ Reachable(tr2, j, t) =>
              LET c == Connection(tr2, j, t)
              IN /\ c = RunStart(tr2, c.date) /\ SecondLeg(tr1, k, r, tr2, j, c.date)
                 /\ \A s : SecondLeg(tr1, k, r, tr2, j, s) => DateLeq(c.date, s)
<1>1. SummerTrain(tr2)
  BY TrainIs
<1>2. PICK p \in Int : p = Minutes(t)
  BY MinutesAre
<1>3. ASSUME NEW s PROVE SecondLeg(tr1, k, r, tr2, j, s) <=> Catches(tr2, j, t, s)
  <2>1. CASE s \in SaleDays(tr2)
    <3>1. PICK q \in Int : q = DepartureOf(tr2, s, j)
      BY <2>1, DepartureIs
    <3>2. q >= p <=> p <= q
      OBVIOUS
    <3> QED BY <1>2, <2>1, <3>1, <3>2 DEF SecondLeg, Catches
  <2> QED BY <2>1 DEF SecondLeg, Catches
<1>4. \A s : Catches(tr2, j, t, s) => Reachable(tr2, j, t)
  BY <1>1, LastIsCaught
<1>5. ASSUME Reachable(tr2, j, t)
      PROVE  LET c == Connection(tr2, j, t)
             IN /\ c = RunStart(tr2, c.date) /\ Catches(tr2, j, t, c.date)
                /\ \A s : Catches(tr2, j, t, s) => DateLeq(c.date, s)
  <2>1. Catches(tr2, j, t, tr2.end_sale)
    BY <1>1, <1>5, ReachableIs DEF Catches
  <2>2. PICK c : c = Connection(tr2, j, t)
    OBVIOUS
  <2>3. Chosen(tr2, j, t, c)
    BY <1>1, <2>1, <2>2, ConnectionIs
  <2>4. c \in ClockTimes
    BY <1>1, <2>2, ConnectionStarts
  <2>5. c = [date |-> c.date, moment |-> c.moment]
    BY <2>4, MinutesAre
  <2>6. c = RunStart(tr2, c.date)
    BY <2>3, <2>5 DEF Chosen, RunStart, Time
  <2>7. Catches(tr2, j, t, c.date) /\ \A s : Catches(tr2, j, t, s) => DateLeq(c.date, s)
    BY <2>3 DEF Chosen, Catches
  <2> QED BY <2>2, <2>6, <2>7
<1> QED BY <1>3, <1>4, <1>5

\* The fare of a leg.
LEMMA FareIs ==
  ASSUME NEW tr \in Trains, NEW i, NEW k, i \in 1 .. Len(tr.stopover),
         k \in 1 .. Len(tr.stopover), i < k
  PROVE  SumFrom(tr.prices, i, k - 1) \in Nat
<1>1. tr.prices \in Seq(Nat) /\ Len(tr.stopover) = Len(tr.prices) + 1
  <2>1. /\ tr.prices \in Seq(Nat) /\ Len(tr.stopover) = Len(tr.travel) + 1
        /\ Len(tr.prices) = Len(tr.travel)
    BY TrainAssumption
  <2> QED BY <2>1
<1>2. i \in Int /\ k - 1 \in Int /\ \A n \in i .. k - 1 : n \in 1 .. Len(tr.prices)
  BY <1>1
<1>3. NatsAt(tr.prices, i .. k - 1)
  BY <1>1, <1>2 DEF NatsAt
<1>4. PICK b \in Int : b = k - 1
  BY <1>2
<1> QED BY <1>2, <1>3, <1>4, SumIs

\* The time of an itinerary, from leaving to arriving.
JourneyTime(tr1, i, r, tr2, l, s) == ArrivalOf(tr2, s, l) - DepartureOf(tr1, r, i)

JourneyFare(tr1, i, k, tr2, j, l) ==
  SumFrom(tr1.prices, i, k - 1) + SumFrom(tr2.prices, j, l - 1)

\* Both trains are met in time.
Itinerary(tr1, i, k, r, tr2, j, l, s) ==
  /\ tr1 \in Trains /\ i \in 1 .. Len(tr1.stopover) /\ k \in 1 .. Len(tr1.stopover) /\ i < k
  /\ tr2 \in Trains /\ j \in 1 .. Len(tr2.stopover) /\ l \in 1 .. Len(tr2.stopover) /\ j < l
  /\ r \in SaleDays(tr1) /\ SecondLeg(tr1, k, r, tr2, j, s)

LEMMA ItineraryTimes ==
  ASSUME NEW tr1, NEW i, NEW k, NEW r, NEW tr2, NEW j, NEW l, NEW s,
         Itinerary(tr1, i, k, r, tr2, j, l, s)
  PROVE  \E p, q, x, y \in Int :
           /\ p = DepartureOf(tr1, r, i) /\ q = DepartureOf(tr2, s, j) /\ p <= q
           /\ x = Duration(tr2, j, l) /\ y = ArrivalOf(tr2, s, l) /\ y = q + x
<1>1. /\ tr1 \in Trains /\ i \in 1 .. Len(tr1.stopover) /\ k \in 1 .. Len(tr1.stopover) /\ i < k
      /\ tr2 \in Trains /\ j \in 1 .. Len(tr2.stopover) /\ l \in 1 .. Len(tr2.stopover) /\ j < l
      /\ r \in SaleDays(tr1) /\ s \in SaleDays(tr2)
      /\ DepartureOf(tr2, s, j) >= ArrivalOf(tr1, r, k)
  BY DEF Itinerary, SecondLeg
<1>2. PICK p \in Int, z \in Int, w \in Nat :
        p = DepartureOf(tr1, r, i) /\ z = ArrivalOf(tr1, r, k) /\ w = Duration(tr1, i, k)
  BY <1>1, WayTakes
<1>3. z = p + w
  BY <1>1, <1>2, WayTakes
<1>4. PICK q \in Int, y \in Int, x \in Nat :
        q = DepartureOf(tr2, s, j) /\ y = ArrivalOf(tr2, s, l) /\ x = Duration(tr2, j, l)
  BY <1>1, WayTakes
<1>5. y = q + x
  BY <1>1, <1>4, WayTakes
<1>6. q >= z
  BY <1>1, <1>2, <1>4
<1>7. p <= q /\ x \in Int
  BY <1>3, <1>6
<1> QED BY <1>2, <1>4, <1>5, <1>7

LEMMA TotalTimeIs ==
  ASSUME NEW tr1, NEW i, NEW k, NEW r, NEW tr2, NEW j, NEW l, NEW s,
         Itinerary(tr1, i, k, r, tr2, j, l, s)
  PROVE  LET tickets == <<Ticket(tr1, i, k, RunStart(tr1, r)), Ticket(tr2, j, l, RunStart(tr2, s))>>
         IN /\ TotalTime(tickets) = JourneyTime(tr1, i, r, tr2, l, s)
            /\ TotalPrice(tickets) = JourneyFare(tr1, i, k, tr2, j, l)
            /\ JourneyTime(tr1, i, r, tr2, l, s) \in Int
            /\ JourneyFare(tr1, i, k, tr2, j, l) \in Int
<1>1. PICK p \in Int, q \in Int, x \in Int, y \in Int :
        /\ p = DepartureOf(tr1, r, i) /\ q = DepartureOf(tr2, s, j) /\ p <= q
        /\ x = Duration(tr2, j, l) /\ y = ArrivalOf(tr2, s, l) /\ y = q + x
  BY ItineraryTimes
<1>2. /\ tr1 \in Trains /\ i \in 1 .. Len(tr1.stopover) /\ k \in 1 .. Len(tr1.stopover) /\ i < k
      /\ tr2 \in Trains /\ j \in 1 .. Len(tr2.stopover) /\ l \in 1 .. Len(tr2.stopover) /\ j < l
      /\ r \in SaleDays(tr1) /\ s \in SaleDays(tr2)
  BY DEF Itinerary, SecondLeg
<1>3. PICK t, u : /\ t = Plus(RunStart(tr1, r), Elapsed(tr1, i))
                  /\ u = Plus(RunStart(tr2, s), Elapsed(tr2, j))
  OBVIOUS
<1>4. t \in ClockTimes /\ IsDate(t.date) /\ Minutes(t) = p
  BY <1>1, <1>2, <1>3, LeavingIs
<1>5. u \in ClockTimes /\ IsDate(u.date) /\ Minutes(u) = q
  BY <1>1, <1>2, <1>3, LeavingIs
<1>6. Difference(u, t) = q - p
  <2>1. Minutes(t) <= Minutes(u)
    BY <1>1, <1>4, <1>5
  <2>2. Difference(u, t) = Minutes(u) - Minutes(t)
    BY <1>4, <1>5, <2>1, DifferenceCounts
  <2> QED BY <1>4, <1>5, <2>2
<1>7. PICK one, two : /\ one = Ticket(tr1, i, k, RunStart(tr1, r))
                      /\ two = Ticket(tr2, j, l, RunStart(tr2, s))
  OBVIOUS
<1>8. /\ one.leave = t /\ two.leave = u /\ two.duration = x
      /\ one.price = SumFrom(tr1.prices, i, k - 1) /\ two.price = SumFrom(tr2.prices, j, l - 1)
  BY <1>1, <1>3, <1>7 DEF Ticket
<1>9. TotalTime(<<one, two>>) = Difference(u, t) + x
  BY <1>8 DEF TotalTime
<1>10. TotalPrice(<<one, two>>) = JourneyFare(tr1, i, k, tr2, j, l)
  BY <1>8 DEF TotalPrice, JourneyFare
<1>11. JourneyTime(tr1, i, r, tr2, l, s) = y - p
  BY <1>1 DEF JourneyTime
<1>12. (q - p) + x = y - p /\ y - p \in Int
  BY <1>1
<1>13. TotalTime(<<one, two>>) = y - p
  BY <1>6, <1>9, <1>12, Zenon
<1>14. JourneyFare(tr1, i, k, tr2, j, l) \in Int
  <2>1. PICK a \in Nat, b \in Nat : a = SumFrom(tr1.prices, i, k - 1) /\ b = SumFrom(tr2.prices, j, l - 1)
    BY <1>2, FareIs
  <2> QED BY <2>1 DEF JourneyFare
<1>15. JourneyTime(tr1, i, r, tr2, l, s) \in Int
  BY <1>11, <1>12, Zenon
<1>16. TotalTime(<<one, two>>) = JourneyTime(tr1, i, r, tr2, l, s)
  BY <1>11, <1>13, Zenon
<1> QED BY <1>7, <1>10, <1>14, <1>15, <1>16, Zenon

-----------------------------------------------------------------------------
(* Journeys. *)

\* The runs of days r and s serve a way to change, from a day at the start.
Trip(way, start, d, r, s) ==
  /\ FirstLeg(way[1], Stop(way[1], start), d, r)
  /\ SecondLeg(way[1], way[3], r, way[2], way[4], s)

\* Nothing but the second run is open, and the tickets are for the first there is.
FirstTrip(way, start, end, d, r, s) ==
  /\ Trip(way, start, d, r, s)
  /\ TicketsOf(way, start, end, d)
       = <<Ticket(way[1], Stop(way[1], start), way[3], RunStart(way[1], r)),
           Ticket(way[2], way[4], Stop(way[2], end), RunStart(way[2], s))>>
  /\ \A p, q : Trip(way, start, d, p, q) => p = r /\ DateLeq(s, q)

LEMMA TripIsFeasible ==
  ASSUME NEW start, NEW end, NEW d, NEW way \in Changes(start, end), NEW r, NEW s,
         Trip(way, start, d, r, s)
  PROVE  Feasible(way, start, d)
<1>1. PICK tr1, tr2, i, l : tr1 = way[1] /\ tr2 = way[2] /\ i = Stop(tr1, start) /\ l = Stop(tr2, end)
  OBVIOUS
<1>2. PICK k, j : k = way[3] /\ j = way[4]
  OBVIOUS
<1>3. Legs(way, i, k, j, l)
  BY <1>1, <1>2, WayIs
<1>4. /\ tr1 \in Trains /\ i \in 1 .. Len(tr1.stopover) /\ k \in 1 .. Len(tr1.stopover) /\ i < k
      /\ tr2 \in Trains /\ j \in 1 .. Len(tr2.stopover)
  BY <1>1, <1>3 DEF Legs
<1>5. FirstLeg(tr1, i, d, r) /\ SecondLeg(tr1, k, r, tr2, j, s)
  BY <1>1, <1>2 DEF Trip
<1>6. Offered(tr1, i, d)
  BY <1>4, <1>5, FirstLegIs
<1>7. PICK t : t = Arrive(tr1, i, k, d)
  OBVIOUS
<1>8. t \in ClockTimes /\ Minutes(t) = ArrivalOf(tr1, r, k)
  BY <1>4, <1>5, <1>7, ArrivalIs
<1>9. Reachable(tr2, j, t)
  BY <1>4, <1>5, <1>8, SecondLegIs
<1> QED BY <1>1, <1>2, <1>6, <1>7, <1>9 DEF Feasible

LEMMA FeasibleIsTrip ==
  ASSUME NEW start, NEW end, NEW d \in CodeDates, NEW way \in Changes(start, end),
         Feasible(way, start, d)
  PROVE  \E r, s : FirstTrip(way, start, end, d, r, s)
<1>1. PICK tr1, tr2, i, l : tr1 = way[1] /\ tr2 = way[2] /\ i = Stop(tr1, start) /\ l = Stop(tr2, end)
  OBVIOUS
<1>2. PICK k, j : k = way[3] /\ j = way[4]
  OBVIOUS
<1>3. Legs(way, i, k, j, l)
  BY <1>1, <1>2, WayIs
<1>4. /\ tr1 \in Trains /\ i \in 1 .. Len(tr1.stopover) /\ k \in 1 .. Len(tr1.stopover) /\ i < k
      /\ tr2 \in Trains /\ j \in 1 .. Len(tr2.stopover)
  BY <1>1, <1>3 DEF Legs
<1>5. PICK t : t = Arrive(tr1, i, k, d)
  OBVIOUS
<1>6. Offered(tr1, i, d) /\ Reachable(tr2, j, t)
  BY <1>1, <1>2, <1>5 DEF Feasible
<1>7. PICK r : r = StartTime(tr1, i, d).date
  OBVIOUS
<1>8. FirstLeg(tr1, i, d, r)
  BY <1>4, <1>6, <1>7, OfferedIs
<1>9. StartTime(tr1, i, d) = RunStart(tr1, r)
  BY <1>4, <1>8, FirstLegIs
<1>10. t \in ClockTimes /\ Minutes(t) = ArrivalOf(tr1, r, k)
  BY <1>4, <1>5, <1>8, ArrivalIs
<1>11. PICK c : c = Connection(tr2, j, t)
  OBVIOUS
<1>12. /\ c = RunStart(tr2, c.date) /\ SecondLeg(tr1, k, r, tr2, j, c.date)
       /\ \A q : SecondLeg(tr1, k, r, tr2, j, q) => DateLeq(c.date, q)
  BY <1>4, <1>6, <1>10, <1>11, SecondLegIs
<1>13. Trip(way, start, d, r, c.date)
  BY <1>1, <1>2, <1>8, <1>12 DEF Trip
<1>14. TicketsOf(way, start, end, d)
         = <<Ticket(tr1, i, k, RunStart(tr1, r)), Ticket(tr2, j, l, RunStart(tr2, c.date))>>
  BY <1>1, <1>2, <1>5, <1>9, <1>11, <1>12 DEF TicketsOf
<1>15. ASSUME NEW p, NEW q, Trip(way, start, d, p, q) PROVE p = r /\ DateLeq(c.date, q)
  <2>1. FirstLeg(tr1, i, d, p) /\ SecondLeg(tr1, k, p, tr2, j, q)
    BY <1>1, <1>2, <1>15 DEF Trip
  <2>2. RunStart(tr1, p) = RunStart(tr1, r)
    BY <1>4, <1>9, <2>1, FirstLegIs
  <2>3. p = r
    BY <2>2 DEF RunStart, Time
  <2> QED BY <1>12, <2>1, <2>3
<1> QED BY <1>1, <1>2, <1>13, <1>14, <1>15 DEF FirstTrip

JourneyOf(way, start, end, r, s) ==
  <<JourneyTime(way[1], Stop(way[1], start), r, way[2], Stop(way[2], end), s),
    JourneyFare(way[1], Stop(way[1], start), way[3], way[2], way[4], Stop(way[2], end)),
    way[1].train_id, way[2].train_id>>

Reordered(v, by_cost) == IF by_cost THEN <<v[2], v[1], v[3], v[4]>> ELSE v

LEMMA TripIsItinerary ==
  ASSUME NEW start, NEW end, NEW d, NEW way \in Changes(start, end), NEW r, NEW s,
         Trip(way, start, d, r, s)
  PROVE  Itinerary(way[1], Stop(way[1], start), way[3], r, way[2], way[4], Stop(way[2], end), s)
BY WayIs DEF Trip, FirstLeg, Legs, Itinerary

LEMMA TrainIdIs ==
  ASSUME NEW tr \in Trains
  PROVE  tr.train_id \in Int
BY TrainAssumption

\* How the tickets of a way rank.
LEMMA RankOfTrip ==
  ASSUME NEW start, NEW end, NEW d \in CodeDates, NEW way \in Changes(start, end),
         NEW by_cost \in BOOLEAN, NEW r, NEW s, FirstTrip(way, start, end, d, r, s)
  PROVE  /\ RankOf(way, start, end, d, by_cost) = Reordered(JourneyOf(way, start, end, r, s), by_cost)
         /\ IsQuad(RankOf(way, start, end, d, by_cost))
<1>1. PICK tr1, tr2, i, l : tr1 = way[1] /\ tr2 = way[2] /\ i = Stop(tr1, start) /\ l = Stop(tr2, end)
  OBVIOUS
<1>2. PICK k, j : k = way[3] /\ j = way[4]
  OBVIOUS
<1>3. Itinerary(tr1, i, k, r, tr2, j, l, s)
  BY <1>1, <1>2, TripIsItinerary DEF FirstTrip
<1>4. PICK one, two : /\ one = Ticket(tr1, i, k, RunStart(tr1, r))
                      /\ two = Ticket(tr2, j, l, RunStart(tr2, s))
  OBVIOUS
<1>5. RankOf(way, start, end, d, by_cost) = Rank(<<one, two>>, by_cost)
  BY <1>1, <1>2, <1>4 DEF FirstTrip, RankOf
<1>6. PICK time, price : /\ time = JourneyTime(tr1, i, r, tr2, l, s)
                         /\ price = JourneyFare(tr1, i, k, tr2, j, l)
  OBVIOUS
<1>7. TotalTime(<<one, two>>) = time /\ TotalPrice(<<one, two>>) = price /\ time \in Int /\ price \in Int
  BY <1>3, <1>4, <1>6, TotalTimeIs
<1>8. one.train_id = tr1.train_id /\ two.train_id = tr2.train_id
  BY <1>4 DEF Ticket
<1>9. tr1.train_id \in Int /\ tr2.train_id \in Int
  BY <1>3, TrainIdIs DEF Itinerary
<1>10. PICK a \in Int, b \in Int : a = tr1.train_id /\ b = tr2.train_id
  BY <1>9
<1>11. Rank(<<one, two>>, by_cost) = QuadOf(by_cost, time, price, a, b)
  BY <1>7, <1>8, <1>10, RankIs
<1>12. JourneyOf(way, start, end, r, s) = <<time, price, a, b>>
  BY <1>1, <1>2, <1>6, <1>10 DEF JourneyOf
<1>13. Reordered(<<time, price, a, b>>, by_cost) = QuadOf(by_cost, time, price, a, b)
  BY DEF Reordered, QuadOf
<1>14. IsQuad(QuadOf(by_cost, time, price, a, b))
  BY <1>7, <1>10, LaterIsNotLess
<1> QED BY <1>5, <1>11, <1>12, <1>13, <1>14

\* No other trip of the way ranks before them.
LEMMA LaterTrip ==
  ASSUME NEW start, NEW end, NEW d \in CodeDates, NEW way \in Changes(start, end),
         NEW by_cost \in BOOLEAN, NEW r, NEW s, FirstTrip(way, start, end, d, r, s),
         NEW p, NEW q, Trip(way, start, d, p, q)
  PROVE  /\ IsQuad(Reordered(JourneyOf(way, start, end, p, q), by_cost))
         /\ ~LexLess(Reordered(JourneyOf(way, start, end, p, q), by_cost),
                     RankOf(way, start, end, d, by_cost))
<1>1. PICK tr1, tr2, i, l : tr1 = way[1] /\ tr2 = way[2] /\ i = Stop(tr1, start) /\ l = Stop(tr2, end)
  OBVIOUS
<1>2. PICK k, j : k = way[3] /\ j = way[4]
  OBVIOUS
<1>3. p = r /\ DateLeq(s, q) /\ Trip(way, start, d, r, s)
  BY DEF FirstTrip
<1>4. Itinerary(tr1, i, k, r, tr2, j, l, s) /\ Itinerary(tr1, i, k, r, tr2, j, l, q)
  BY <1>1, <1>2, <1>3, TripIsItinerary
<1>5. /\ tr1 \in Trains /\ tr2 \in Trains /\ l \in 1 .. Len(tr2.stopover)
      /\ s \in SaleDays(tr2) /\ q \in SaleDays(tr2)
  BY <1>4 DEF Itinerary, SecondLeg
<1>6. PICK x, y, price : /\ x = JourneyTime(tr1, i, r, tr2, l, s)
                         /\ y = JourneyTime(tr1, i, r, tr2, l, q)
                         /\ price = JourneyFare(tr1, i, k, tr2, j, l)
  OBVIOUS
<1>7. x \in Int /\ y \in Int /\ price \in Int
  BY <1>4, <1>6, TotalTimeIs
<1>8. x <= y
  <2>1. SummerTrain(tr2)
    BY <1>5, TrainIs
  <2>2. s \in CodeDates /\ q \in CodeDates
    BY <1>5, <2>1, SaleDayIs
  <2>3. Serial(s) <= Serial(q)
    BY <1>3, <2>2, DatesInOrder
  <2>4. PICK e \in Int, f \in Int : e = DepartureOf(tr2, s, l) /\ f = DepartureOf(tr2, q, l)
    BY <1>5, <2>1, <2>2, DeparturesInOrder
  <2>5. e <= f
    BY <1>5, <2>1, <2>2, <2>3, <2>4, DeparturesInOrder
  <2>6. PICK w \in Nat, g \in Int : w = tr2.stopover[l] /\ g = DepartureOf(tr1, r, i)
    <3>1. tr2.stopover[l] \in Nat
      BY <1>5, DepartureIs
    <3>2. DepartureOf(tr1, r, i) \in Int
      BY <1>4, DepartureIs DEF Itinerary
    <3> QED BY <3>1, <3>2
  <2>7. x = (e - w) - g /\ y = (f - w) - g
    BY <1>6, <2>4, <2>6 DEF JourneyTime, ArrivalOf
  <2> QED BY <2>5, <2>7
<1>9. PICK a \in Int, b \in Int : a = tr1.train_id /\ b = tr2.train_id
  BY <1>5, TrainIdIs
<1>10. /\ JourneyOf(way, start, end, r, s) = <<x, price, a, b>>
       /\ JourneyOf(way, start, end, r, q) = <<y, price, a, b>>
  BY <1>1, <1>2, <1>6, <1>9 DEF JourneyOf
<1>11. /\ Reordered(<<x, price, a, b>>, by_cost) = QuadOf(by_cost, x, price, a, b)
       /\ Reordered(<<y, price, a, b>>, by_cost) = QuadOf(by_cost, y, price, a, b)
  BY DEF Reordered, QuadOf
<1>12. /\ IsQuad(QuadOf(by_cost, y, price, a, b))
       /\ ~LexLess(QuadOf(by_cost, y, price, a, b), QuadOf(by_cost, x, price, a, b))
  BY <1>7, <1>8, <1>9, LaterIsNotLess
<1>13. RankOf(way, start, end, d, by_cost) = QuadOf(by_cost, x, price, a, b)
  BY <1>10, <1>11, RankOfTrip
<1> QED BY <1>3, <1>10, <1>11, <1>12, <1>13

\* The journeys of TransferIsBest from a station on a day.
Journeys(way, start, end, day) ==
  LET at(d, tr, i) == Instant(Time(d, tr.start_time)) + Elapsed(tr, i)
      here(tr)   == {d \in SaleDays(tr) :
                       Plus(Time(d, tr.start_time), Elapsed(tr, Stop(tr, start))).date = day}
      arrival(d, tr, i) == at(d, tr, i) - tr.stopover[i]
      fare(tr, i, j) == SumFrom(tr.prices, i, j - 1)
      i0 == Stop(way[1], start)
      j1 == Stop(way[2], end)
      on(d1)   == {d2 \in SaleDays(way[2]) :
                     at(d2, way[2], way[4]) >= arrival(d1, way[1], way[3])}
  IN UNION {{<<arrival(d2, way[2], j1) - at(d1, way[1], i0),
               fare(way[1], i0, way[3]) + fare(way[2], way[4], j1),
               way[1].train_id, way[2].train_id>> : d2 \in on(d1)} :
            d1 \in here(way[1])}

LEMMA InstantOfRun ==
  ASSUME NEW tr \in Trains, NEW d \in SaleDays(tr), NEW i
  PROVE  Instant(Time(d, tr.start_time)) + Elapsed(tr, i) = DepartureOf(tr, d, i)
<1>1. SummerTrain(tr)
  BY TrainIs
<1>2. d \in CodeDates /\ Serial(d) \in 0 .. 91
  BY <1>1, SaleDayIs
<1>3. Serial(d) \in -31 .. 121
  BY <1>2
<1>4. IsDate(d)
  BY <1>2, <1>3, CodeIsDate
<1>5. PICK t : t = RunStart(tr, d)
  OBVIOUS
<1>6. t.date = d
  BY <1>5 DEF RunStart, Time
<1>7. Instant(t) = Minutes(t)
  BY <1>4, <1>6, InstantIsMinutes
<1> QED BY <1>5, <1>7 DEF DepartureOf, RunStart

LEMMA JourneysAre ==
  ASSUME NEW start, NEW end, NEW d, NEW way \in Changes(start, end), NEW v
  PROVE  v \in Journeys(way, start, end, d)
           <=> \E r, s : Trip(way, start, d, r, s) /\ v = JourneyOf(way, start, end, r, s)
<1>1. way[1] \in Trains /\ way[2] \in Trains
  BY WayIs DEF Legs
<1> DEFINE at(e, tr, i) == Instant(Time(e, tr.start_time)) + Elapsed(tr, i)
           here == {e \in SaleDays(way[1]) :
                      Plus(Time(e, way[1].start_time), Elapsed(way[1], Stop(way[1], start))).date = d}
           arrival(e, tr, i) == at(e, tr, i) - tr.stopover[i]
           on(e) == {f \in SaleDays(way[2]) :
                       at(f, way[2], way[4]) >= arrival(e, way[1], way[3])}
           journey(e, f) ==
             <<arrival(f, way[2], Stop(way[2], end)) - at(e, way[1], Stop(way[1], start)),
               SumFrom(way[1].prices, Stop(way[1], start), way[3] - 1)
                 + SumFrom(way[2].prices, way[4], Stop(way[2], end) - 1),
               way[1].train_id, way[2].train_id>>
<1>2. v \in Journeys(way, start, end, d) <=> \E r \in here : \E s \in on(r) : v = journey(r, s)
  <2>1. Journeys(way, start, end, d) = UNION {{journey(r, s) : s \in on(r)} : r \in here}
    BY DEF Journeys
  <2> HIDE DEF journey, on, here
  <2> QED BY <2>1
<1>3. ASSUME NEW r
      PROVE  r \in here <=> FirstLeg(way[1], Stop(way[1], start), d, r)
  BY DEF FirstLeg, RunStart
<1>4. ASSUME NEW r \in here, NEW s
      PROVE  s \in on(r) <=> SecondLeg(way[1], way[3], r, way[2], way[4], s)
  <2>1. r \in SaleDays(way[1])
    OBVIOUS
  <2>2. CASE s \in SaleDays(way[2])
    <3>1. /\ at(r, way[1], way[3]) = DepartureOf(way[1], r, way[3])
          /\ at(s, way[2], way[4]) = DepartureOf(way[2], s, way[4])
      BY <1>1, <2>1, <2>2, InstantOfRun
    <3>2. arrival(r, way[1], way[3]) = ArrivalOf(way[1], r, way[3])
      BY <3>1 DEF ArrivalOf
    <3>3. s \in on(r) <=> at(s, way[2], way[4]) >= arrival(r, way[1], way[3])
      BY <2>2
    <3> HIDE DEF at, arrival, on
    <3> QED BY <2>2, <3>1, <3>2, <3>3 DEF SecondLeg
  <2>3. CASE s \notin SaleDays(way[2])
    BY <2>3 DEF SecondLeg
  <2> QED BY <2>2, <2>3
<1>5. ASSUME NEW r \in here, NEW s \in on(r)
      PROVE  journey(r, s) = JourneyOf(way, start, end, r, s)
  <2>1. r \in SaleDays(way[1]) /\ s \in SaleDays(way[2])
    OBVIOUS
  <2>2. /\ at(r, way[1], Stop(way[1], start)) = DepartureOf(way[1], r, Stop(way[1], start))
        /\ at(s, way[2], Stop(way[2], end)) = DepartureOf(way[2], s, Stop(way[2], end))
    BY <1>1, <2>1, InstantOfRun
  <2>3. arrival(s, way[2], Stop(way[2], end)) = ArrivalOf(way[2], s, Stop(way[2], end))
    BY <2>2 DEF ArrivalOf
  <2> HIDE DEF at, arrival
  <2> QED BY <2>2, <2>3 DEF JourneyOf, JourneyTime, JourneyFare
<1> HIDE DEF here, on, journey
<1>6. ASSUME NEW r, NEW s
      PROVE  r \in here /\ s \in on(r) <=> Trip(way, start, d, r, s)
  BY <1>3, <1>4 DEF Trip
<1> QED BY <1>2, <1>5, <1>6

\* What TransferIsBest says of a query.
BestAnswer(start, end, d, by_cost) ==
  LET answer == QueryTransfer(start, end, d, by_cost)
      ranks  == {Reordered(v, by_cost) :
                   v \in UNION {Journeys(way, start, end, d) : way \in Changes(start, end)}}
  IN IF ranks = {} THEN answer = <<>>
     ELSE /\ answer # <<>>
          /\ Rank(answer, by_cost) \in ranks
          /\ \A v \in ranks : ~LexLess(v, Rank(answer, by_cost))

LEMMA AnswerIsBest ==
  ASSUME NEW start, NEW end, NEW d \in CodeDates, NEW by_cost \in BOOLEAN
  PROVE  BestAnswer(start, end, d, by_cost)
<1>1. PICK S : S = Changes(start, end)
  OBVIOUS
<1>2. PICK answer : answer = QueryTransfer(start, end, d, by_cost)
  OBVIOUS
<1>3. PICK ranks :
        ranks = {Reordered(v, by_cost) : v \in UNION {Journeys(way, start, end, d) : way \in S}}
  OBVIOUS
<1>4. ASSUME NEW v
      PROVE  v \in ranks <=> \E way \in S : \E r, s :
               Trip(way, start, d, r, s) /\ v = Reordered(JourneyOf(way, start, end, r, s), by_cost)
  <2>1. v \in ranks <=> \E way \in S : \E w \in Journeys(way, start, end, d) : v = Reordered(w, by_cost)
    BY <1>3
  <2>2. \A way \in S : \A w : w \in Journeys(way, start, end, d)
          <=> \E r, s : Trip(way, start, d, r, s) /\ w = JourneyOf(way, start, end, r, s)
    BY <1>1, JourneysAre
  <2> QED BY <2>1, <2>2
<1>5. Ranked(S, start, end, d, by_cost)
  BY <1>1, FeasibleIsTrip, RankOfTrip DEF Ranked
<1>6. IsBest(answer, S, start, end, d, by_cost)
  BY <1>1, <1>2, <1>5, ChangesFinite, QueryIsBest
<1>7. CASE NoWay(answer, S, start, d)
  <2>1. ranks = {}
    BY <1>1, <1>4, <1>7, TripIsFeasible DEF NoWay
  <2> QED BY <1>1, <1>2, <1>3, <1>7, <2>1 DEF BestAnswer, NoWay
<1>8. CASE \E w : BestWay(answer, S, w, start, end, d, by_cost)
  <2>1. PICK w : BestWay(answer, S, w, start, end, d, by_cost)
    BY <1>8
  <2>2. w \in S /\ Feasible(w, start, d) /\ answer = TicketsOf(w, start, end, d)
    BY <2>1 DEF BestWay
  <2>3. PICK r, s : FirstTrip(w, start, end, d, r, s)
    BY <1>1, <2>2, FeasibleIsTrip
  <2>4. /\ RankOf(w, start, end, d, by_cost) = Reordered(JourneyOf(w, start, end, r, s), by_cost)
        /\ IsQuad(RankOf(w, start, end, d, by_cost)) /\ Trip(w, start, d, r, s)
    BY <1>1, <2>2, <2>3, RankOfTrip DEF FirstTrip
  <2>5. Rank(answer, by_cost) = RankOf(w, start, end, d, by_cost)
    BY <2>2 DEF RankOf
  <2>6. Rank(answer, by_cost) \in ranks
    BY <1>4, <2>2, <2>4, <2>5
  <2>7. answer # <<>>
    BY <2>2 DEF TicketsOf
  <2>8. ASSUME NEW v \in ranks PROVE ~LexLess(v, Rank(answer, by_cost))
    <3>1. PICK u \in S : \E p, q :
            Trip(u, start, d, p, q) /\ v = Reordered(JourneyOf(u, start, end, p, q), by_cost)
      BY <1>4
    <3>2. PICK p, q :
            Trip(u, start, d, p, q) /\ v = Reordered(JourneyOf(u, start, end, p, q), by_cost)
      BY <3>1
    <3>3. Feasible(u, start, d)
      BY <1>1, <3>2, TripIsFeasible
    <3>4. PICK f, g : FirstTrip(u, start, end, d, f, g)
      BY <1>1, <3>3, FeasibleIsTrip
    <3>5. IsQuad(v) /\ ~LexLess(v, RankOf(u, start, end, d, by_cost))
      BY <1>1, <3>4, <3>2, LaterTrip
    <3>6. IsQuad(RankOf(u, start, end, d, by_cost))
      BY <1>1, <3>4, RankOfTrip
    <3>7. ~LexLess(RankOf(u, start, end, d, by_cost), RankOf(w, start, end, d, by_cost))
      BY <2>1, <3>3 DEF BestWay
    <3> QED BY <2>4, <2>5, <3>5, <3>6, <3>7, LexOrders
  <2>9. ranks # {}
    BY <2>6
  <2> QED BY <1>1, <1>2, <1>3, <2>6, <2>7, <2>8, <2>9 DEF BestAnswer
<1> QED BY <1>6, <1>7, <1>8 DEF IsBest

\* Of all journeys from a station on a day, with one change anywhere and any run of the
\* second train that leaves no earlier than the first arrives, QueryTransfer's answer is
\* one that no other ranks before, by time or by price; it has none only if there is none.
THEOREM TransferIsBestHolds ==
  RunSpec => []TransferIsBest
<1>1. RunInv => TransferIsBest
  <2>1. SUFFICES ASSUME RunAt(train, date, pos, waiting, cur_time), ~waiting PROVE TransferIsBest
    BY DEF RunInv, TransferIsBest
  <2>2. cur_time.date \in CodeDates
    BY <2>1, TimeTyped DEF RunAt
  <2>3. \A end \in UNION {Range(tr.stations) : tr \in Trains} \ {train.stations[pos]},
           by_cost \in BOOLEAN :
             BestAnswer(train.stations[pos], end, cur_time.date, by_cost)
    BY <2>2, AnswerIsBest
  <2> QED BY <2>1, <2>3, ZenonT(30) DEF TransferIsBest, BestAnswer, Journeys, Reordered
<1> QED BY <1>1, RunInvHolds, PTL
=============================================================================
