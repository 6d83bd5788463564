---------------------------- MODULE TrainCatalog ----------------------------
(***************************************************************************)
(* The catalogue of trains (ticket/train_system.cpp): records on tuple     *)
(* pages, their lists on dynamic pages, an index from train ids to         *)
(* records and one from stations to the released trains that stop there.   *)
(*                                                                         *)
(* Page ids are positions in pages: the pages of the index, which lie in   *)
(* the same file, are left out.  Both indexes are ordered maps, as         *)
(* OrderedMap says; the station index is the sequence of its entries in    *)
(* key order.  A station stands for its hash, hashes being distinct.  An   *)
(* element of a list takes one cell of a dynamic page.                     *)
(***************************************************************************)
EXTENDS Integers, Sequences, SequencesExt, FiniteSetsExt, Functions

CONSTANTS TrainIds,
          Stations,       \* their hashes
          Services,       \* stations, prices, travel_time, stopover_time of a train
          TupleMax,       \* TUPLE_MAX_SIZE of a TrainInfo page
          DynamicMax,     \* cells of a dynamic page
          MaxRecords,     \* bound: trains ever added
          NoPage          \* INVALID_PAGE_ID

Lists == <<"stations", "prices", "travel_time", "stopover_time">>

\* A service is its four lists; the stations differ, and the lists fit on a page of
\* their own.
ASSUME CatalogAssumption ==
  /\ Stations \subseteq Nat
  /\ TupleMax \in Nat \ {0} /\ DynamicMax \in Nat /\ MaxRecords \in Nat
  /\ NoPage \notin Nat
  /\ \A s \in Services :
       /\ s = [list \in Range(Lists) |-> s[list]]
       /\ s.stations \in Seq(Stations) /\ IsInjective(s.stations)
       /\ Len(s.stations) \in 2 .. DynamicMax - 1

VARIABLES pages,              \* page id -> page
          index,              \* index_: train id -> RID
          station_index,      \* station_index_: the entries <<station, RID>>
          tuple_page_id,      \* tuple_page_id_
          dynamic_page_id,    \* dynamic_page_id_
          header,             \* the two ids as the header page holds them
          running

catalogVars == <<pages, index, station_index, tuple_page_id, dynamic_page_id, header, running>>

-----------------------------------------------------------------------------
(***************************************************************************)
(* Pages.  A RID is a page id and a position on the page.                  *)
(***************************************************************************)
EmptyTuplePage == [tuples |-> <<>>]

EmptyDynamicPage == [size |-> 0, at |-> <<>>]

Full(page) == Len(page.tuples) = TupleMax

IsFull(page, cells) == page.size + cells > DynamicMax

At(rid) == pages[rid[1]].tuples[rid[2] + 1]

FetchDynamicInfo(rid) == pages[rid[1]].at[rid[2]]

\* A string has a terminator, an array has not.
Cells(service, list) == Len(service.stations) + (IF list = "stations" THEN 1 ELSE 0)

Written(page, cells, data) ==
  [size |-> page.size + cells,
   at   |-> [pos \in DOMAIN page.at \cup {page.size} |->
               IF pos = page.size THEN data ELSE page.at[pos]]]

\* A store is the pages, the current dynamic page and where the lists have gone so far.
WithRoom(store, cells) ==
  IF store.page_id = NoPage \/ IsFull(store.pages[store.page_id], cells)
  THEN [pages   |-> Append(store.pages, EmptyDynamicPage),
        page_id |-> Len(store.pages) + 1,
        rids    |-> store.rids]
  ELSE store

Noted(store, cells, data) ==
  LET id   == store.page_id
      page == store.pages[id]
  IN [pages   |-> [store.pages EXCEPT ![id] = Written(page, cells, data)],
      page_id |-> id,
      rids    |-> Append(store.rids, <<id, page.size>>)]

WriteDynamicInfo(store, list, service) ==
  Noted(WithRoom(store, Cells(service, list)), Cells(service, list), service[list])

\* The four lists one after the other, in the order of Lists.
AllWritten(service) ==
  WriteDynamicInfo(
    WriteDynamicInfo(
      WriteDynamicInfo(
        WriteDynamicInfo([pages |-> pages, page_id |-> dynamic_page_id, rids |-> <<>>],
                         "stations", service),
        "prices", service),
      "travel_time", service),
    "stopover_time", service)

-----------------------------------------------------------------------------
(***************************************************************************)
(* The commands that change the catalogue.  Those that fail change nothing.*)
(***************************************************************************)
AddTrain(id, service) ==
  /\ running /\ id \notin DOMAIN index
  /\ LET store == AllWritten(service)
         info  == [train_id |-> id, released |-> FALSE,
                   lists |-> [n \in 1 .. 4 |-> store.rids[n]]]
         fresh == tuple_page_id = NoPage \/ Full(store.pages[tuple_page_id])
         page  == IF fresh THEN Len(store.pages) + 1 ELSE tuple_page_id
         older == IF fresh THEN Append(store.pages, EmptyTuplePage) ELSE store.pages
         rid   == <<page, Len(older[page].tuples)>>
     IN /\ pages' = [older EXCEPT ![page].tuples = Append(@, info)]
        /\ index' = [i \in DOMAIN index \cup {id} |-> IF i = id THEN rid ELSE index[i]]
        /\ tuple_page_id' = page
        /\ dynamic_page_id' = store.page_id
  /\ UNCHANGED <<station_index, header, running>>

\* Mutant: released trains are deleted, too.
DeleteAnyTrain(id) ==
  /\ running /\ id \in DOMAIN index
  /\ index' = [i \in DOMAIN index \ {id} |-> index[i]]
  /\ UNCHANGED <<pages, station_index, tuple_page_id, dynamic_page_id, header, running>>

\* The record and its lists stay where they are.
DeleteTrain(id) ==
  /\ running /\ id \in DOMAIN index
  /\ ~At(index[id]).released
  /\ index' = [i \in DOMAIN index \ {id} |-> index[i]]
  /\ UNCHANGED <<pages, station_index, tuple_page_id, dynamic_page_id, header, running>>

RidLess(r, q) == r[1] < q[1] \/ (r[1] = q[1] /\ r[2] < q[2])

KeyLess(k, l) == k[1] < l[1] \/ (k[1] = l[1] /\ RidLess(k[2], l[2]))

\* In key order; Insert leaves a key it already has alone.
Inserted(entries, key) ==
  LET after == Len(entries) + 1
      pos   == Min({n \in 1 .. after : n = after \/ ~KeyLess(entries[n], key)})
  IN IF pos < after /\ entries[pos] = key THEN entries ELSE InsertAt(entries, pos, key)

ReleaseTrain(id) ==
  /\ running /\ id \in DOMAIN index
  /\ LET rid  == index[id]
         info == At(rid)
     IN /\ ~info.released
        /\ pages' = [pages EXCEPT ![rid[1]].tuples[rid[2] + 1].released = TRUE]
        /\ station_index' = FoldLeft(LAMBDA entries, station : Inserted(entries, <<station, rid>>),
                                     station_index, FetchDynamicInfo(info.lists[1]))
  /\ UNCHANGED <<index, tuple_page_id, dynamic_page_id, header, running>>

\* The destructor saves the two ids, the constructor reads them back.
Exit ==
  /\ running
  /\ running' = FALSE
  /\ header' = [tuple |-> tuple_page_id, dynamic |-> dynamic_page_id]
  /\ UNCHANGED <<pages, index, station_index, tuple_page_id, dynamic_page_id>>

Start ==
  /\ ~running
  /\ running' = TRUE
  /\ tuple_page_id' = header.tuple
  /\ dynamic_page_id' = header.dynamic
  /\ UNCHANGED <<pages, index, station_index, header>>

Init ==
  /\ pages = <<>> /\ index = <<>> /\ station_index = <<>>
  /\ tuple_page_id = NoPage /\ dynamic_page_id = NoPage
  /\ header = [tuple |-> NoPage, dynamic |-> NoPage]
  /\ running = TRUE

\* MaxRecords bounds the records on the tuple pages.
Records == MapThenSumSet(LAMBDA p : Len(pages[p].tuples),
                         {p \in DOMAIN pages : "tuples" \in DOMAIN pages[p]})

Next ==
  \/ \E id \in TrainIds, service \in Services : Records < MaxRecords /\ AddTrain(id, service)
  \/ \E id \in TrainIds : DeleteTrain(id) \/ ReleaseTrain(id)
  \/ Exit
  \/ Start

Spec == Init /\ [][Next]_catalogVars

-----------------------------------------------------------------------------
(***************************************************************************)
(* QueryTicket, as far as it chooses trains (the days are in TrainTime).   *)
(***************************************************************************)
Rids == Nat \X Nat

\* Two lists in order, as one; vector::sort is a merge sort.
Merge[lists \in Seq(Rids) \X Seq(Rids)] ==
  LET r == lists[1]
      q == lists[2]
  IN IF r = <<>> THEN q
     ELSE IF q = <<>> \/ ~RidLess(Head(q), Head(r)) THEN <<Head(r)>> \o Merge[<<Tail(r), q>>]
     ELSE <<Head(q)>> \o Merge[<<r, Tail(q)>>]

Sort[r \in Seq(Rids)] ==
  IF Len(r) <= 1 THEN r
  ELSE LET mid == Len(r) \div 2
       IN Merge[<<Sort[SubSeq(r, 1, mid)], Sort[SubSeq(r, mid + 1, Len(r))]>>]

RidMin == <<-1, -1>>

\* Mutant: the last entry of the index is not looked at.
FetchButLast(station) ==
  LET last == Len(station_index)
      scan[n \in 1 .. last] ==
        IF n = last \/ station_index[n][1] # station THEN <<>>
        ELSE <<station_index[n][2]>> \o scan[n + 1]
      from == {n \in 1 .. last : ~KeyLess(station_index[n], <<station, RidMin>>)}
  IN IF from = {} THEN <<>> ELSE Sort[scan[Min(from)]]

\* From the first entry not below <<station, RID_MIN>> to the last one of the station.
FetchTrainInfoStation(station) ==
  LET last == Len(station_index)
      scan[n \in 1 .. last] ==
        IF station_index[n][1] # station THEN <<>>
        ELSE <<station_index[n][2]>> \o (IF n = last THEN <<>> ELSE scan[n + 1])
      from == {n \in 1 .. last : ~KeyLess(station_index[n], <<station, RidMin>>)}
  IN IF from = {} THEN <<>> ELSE Sort[scan[Min(from)]]

\* The RIDs on both lists: one walk down the first, pos going down the second.
Common(first, second) ==
  LET skipped(pos, rid) ==
        Min({n \in pos .. Len(second) + 1 : n > Len(second) \/ ~RidLess(second[n], rid)})
      step(walk, rid) ==
        LET pos == skipped(walk.pos, rid)
        IN [pos |-> pos,
            found |-> IF pos <= Len(second) /\ second[pos] = rid
                      THEN Append(walk.found, rid) ELSE walk.found]
  IN FoldLeft(step, [pos |-> 1, found |-> <<>>], first).found

StationsOf(rid) == FetchDynamicInfo(At(rid).lists[1])

\* The last stop at the station, -1 for none.
LastStop(stops, station) == Max({-1} \cup {n \in DOMAIN stops : stops[n] = station})

QueryTicket(start, end) ==
  LET forward(rid) ==
        LastStop(StationsOf(rid), start) <= LastStop(StationsOf(rid), end)
      offered(ids, rid) == IF forward(rid) THEN Append(ids, At(rid).train_id) ELSE ids
  IN FoldLeft(offered, <<>>, Common(FetchTrainInfoStation(start), FetchTrainInfoStation(end)))

\* BuyTicket takes a train by its id and looks for the leg in a loop that stops at the
\* end of the leg.
Sells(id, start, end) ==
  /\ id \in DOMAIN index /\ At(index[id]).released
  /\ LET stops == StationsOf(index[id])
         ends  == {n \in DOMAIN stops : stops[n] = end /\ end # start}
     IN ends # {} /\ \E n \in 1 .. Min(ends) : stops[n] = start

-----------------------------------------------------------------------------
(***************************************************************************)
(* Properties.                                                             *)
(***************************************************************************)
\* Through additions, deletions, releases and restarts, with ids used again for other
\* trains and old records and lists left behind on the pages, each train has the lists
\* it was entered with, and a released train stays for good as it is.
Entry(rid) ==
  [service  |-> [list \in Range(Lists) |->
                   FetchDynamicInfo(At(rid).lists[CHOOSE n \in 1 .. 4 : Lists[n] = list])],
   released |-> At(rid).released]

Board == INSTANCE Timetable WITH trains <- [id \in DOMAIN index |-> Entry(index[id])]

ImplementsTimetable == Board!Spec

\* A ticket query lists the trains BuyTicket sells between the two stations, each of
\* them once, and these are the released ones that stop at both in that order: the
\* station index never leads to a record that was deleted or misses one that was
\* released, and the walk down the two lists loses none.
OffersMatchSales ==
  \A start, end \in Stations :
    start # end =>
      LET offers == QueryTicket(start, end)
      IN /\ IsInjective(offers)
         /\ Range(offers) = {id \in TrainIds : Sells(id, start, end)}
         /\ Range(offers) = Board!Serving(start, end)
=============================================================================
