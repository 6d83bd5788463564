# TicketSystem2024 in TLA+

The repository is a train ticket system: a command loop over five paged files, each with
its own buffer pool and B+ tree, and on top of them users, trains, seats, waitlists and
orders. It runs one thread. Every latch is an empty function (`common/locks.cpp`), the
writer thread of `BufferPoolProxy` is commented out, and a Release build compiles the
`assert`s out. What is hard in it is therefore not threads but long sequences of legal
calls: pages evicted while callers hold guards or raw pointers, page chains that grow at
one end and shrink at the other, a refund that reads three stores and writes them one by
one, counters that have to survive a restart.

## 1. Inventory

| Part | Source (under `src/src`) | State | Operations that change it | What makes it correct |
|---|---|---|---|---|
| Eviction policy | `buffer/replacer.cpp` | `node_store_`, `current_timestamp_`, `curr_size_` | `RecordAccess`, `SetEvictable`, `Evict`, `Remove` | the victim is the LRU-K one; the counter is the number of evictable frames |
| Buffer pool | `buffer/buffer_pool_manager.cpp` | frames, `page_table_`, `free_list_`, `next_page_id_` | constructor, destructor, `NewPage`, `FetchPage`, `UnpinPage`, `FlushPage`, `FlushAllPages`, `DeletePage` | books agree; no write lost; ids never reused; nobody spins |
| Page guards | `storage/page/page_guard.cpp` | page pointer, dirty flag | `AsMut`, `Drop`, move, move assignment, destructor | one pin per guard, whatever is moved over what |
| Disk manager | `storage/disk/disk_manager.cpp` | the file, the stream's state | `ReadPage`, `WritePage` | nothing past the end of the file is read |
| B+ tree, iterator | `storage/index/*`, `storage/page/b_plus_tree_*` | pages of a pool, root id in the header page | `Insert`, `Remove`, iterator steps | a sorted map; balanced; leaf chain complete; no page lost |
| Seats | `ticket/ticket_system.cpp` | seats left per train and day | `ModifyTicket` | with the orders they add up to the train |
| Waitlist | `ticket/waitlist.cpp` | chain of pages per train and day, timestamp | `Insert`, `RemoveEmptyPage`, writes through the iterator | holds exactly the pending orders, oldest first |
| Orders | `ticket/order_list.cpp` | chain of pages per user | `AppendOrder`, `RefundTicket`, `QueueSucceed` | newest page first; searched by timestamp |
| Trains | `ticket/train_system.cpp` | train tuples, dynamic tuples, station index | `AddTrain`, `DeleteTrain`, `ReleaseTrain`, `BuyTicket`, `RefundTicket` | released trains stay; the station index knows the released trains |
| Users | `user/user_system.cpp` | profiles, session counter | `AddUser`, `Login`, `Logout`, `ModifyProfile` | logins last one session; privileges are not raised |
| Dates and times | `common/time.cpp` | none | `+`, `-`, differences, comparison | agrees with the calendar from June to August |
| `shared_ptr` | `common/stl/pointers.hpp` | object, counter | copy, move, both assignments, destructor | an object goes with its last owner, neither earlier nor later: every pool is held by such pointers and flushed by their end |
| `vector`, `list` | `common/stl/vector.hpp`, `list.hpp` | array, length, capacity; linked nodes, size | insertion, erasure, assignment, growth and shrinking | to a caller a sequence; each element constructed and destroyed once; links agree both ways |
| Command loop | `executor/executor.cpp` | `op`, `para`, locals of `Listen` that live from command to command | `Parse`, the handlers, the clearing after each command | a handler sees its own line's letters only; what one system keeps about another's data stays true |
| Hash, splitting, `map.hpp`, `unique_ptr`, `pair` | `common/utils.h`, `common/stl/*` | none of their own | | pure, or forwarding to `std::map` |

How they interact: the command loop calls one handler at a time. A handler fetches pages
through guards, often several at once (a tree descent, a walk along a page chain), and the
pool may evict any page nobody pins. `TrainSystem::BuyTicket` and `RefundTicket` read and
write seats, waitlist and orders; the three are separate files and agree only because
every handler keeps them so. At a clean exit each part writes its counters into page 0 of
its file and each pool flushes; at a start they are read back. There is no recovery from
a killed process, and none is modelled.

## 2. Modules

**Layer 1, storage.**

- `Replacer.tla`: what the pool needs of its eviction policy: a set of tracked frames, the
  evictable ones, the counter. Written as functions from state to state, so that one pool
  operation can apply several.
- `LRUKReplacer.tla`: `replacer.cpp` with its histories and the one-pass search of `Evict`
  (`Scan`). It implements `Replacer` (`ImplementsReplacer`), so what holds of the pool over
  `Replacer` holds of the pool over LRU-K. This is how the state of LRU-K, which would
  swamp the pool's, is kept out of it.
- `PageStore.tla`: the abstract promise of a pool: numbered pages that keep their content,
  a restart included, ids never handed out twice.
- `BufferPool.tla`: pool, guards and file. `guards` are the guard objects callers have at
  a time; a call into the pool is one step; what interleaves is what callers do between
  calls. `NewPage` marks its guard dirty at once because every caller takes `AsMut` of it
  first thing. `DropThenAppend` is what `WriteDynamicInfo`, `AddTrain` and
  `WaitList::Insert` do: they append through a raw pointer after the block holding the
  guard has ended. `held` in a guard is the one history variable: the id of the page its
  owner believes it guards. Opening and closing are several steps each
  (`Open`, `FetchHeader`, `RestoreCount`; `FetchHeaderToClose`, `SaveCount`,
  `FlushAllPages`).

**Layer 2, selling.**

- `TicketOffice.tla`: the promise to customers: a book of numbered orders and one rule.
  After a refund those who wait are served first come first served, an earlier one passed
  over only while it does not fit, and no order is taken before nobody who waits fits. No
  seat counters, no waitlist, no pages.
- `TicketSales.tla`: `BuyTicket` and `RefundTicket` over `tickets` (absent until sold
  from), `waitlist` (pages oldest first, the iterator meeting unused slots too) and
  `orderlist` (pages newest first). A command is one step, but the pass a refund makes
  over the waitlist is one step per slot (`ServeNext`, `PassOver`, `FinishRefund`), so
  that the seats it holds in a local variable are visible. `Exit` and `Start` carry the
  timestamp through the header page. `status` becomes `"crashed"` or `"terminated"` where
  the code dies (section 5).

Page chains are sequences of pages: links and page ids, the pool's business, are
abstracted, the page boundaries that the walks depend on are not. The B+ tree indexes are
functions here. `QueryOrder` is the listing a customer numbers orders by, as an operator on a
chain. Station names are positions. A trip is a train and the day it starts; `TrainTime` is
about how that day is found.

**Layer 3, the index.**

- `OrderedMap.tla`: the promise of the index: a map with unique keys. `ValuesFor` says which
  values may come with a key.
- `BPlusTree.tla`: `Insert` and `Remove` with every split, loan, merge and change of the
  root; `GetValue`, `LowerBound` and the iterator as operators on a state. `Insert` and
  `Remove` change a leaf (`InsertKey`, `RemoveKey`); each recursive call of
  `InsertInternal` and `RemoveInternal` is a step of its own, so the tree between two of
  them, with a page no parent knows yet or a parent of a page that is gone, is a state.
  `write_set` is `Context::write_set_`, the ancestors the descent has kept. Nothing else
  runs in between. Page ids are only compared for equality, so a new page gets the least
  free number; key slot 0 of an internal page, which is never read, is left out; `Begin`
  and `End`, which nothing calls, are not modelled.

**Layer 4, users and days.**

- `UserSystem.tla`: logins, logouts, additions and changes of privilege, exit and start.
  `login_info` is the eight-bit stamp with its wrap, parameterised by `Int8Max`; a new
  profile's stamp is any value, because `AddUser` leaves it uninitialized. `session` and
  `untouched` are history variables. The sales take the login check as passed.
- `TrainTime.tla`: `common/time.cpp` as operators, the loops of `+` and `-` as recursive
  functions over months, and what the handlers compute with them: the start of a run from
  the day at a stop (`StartTime`), the times on a ticket (`Leave`, `Arrive`), the day a
  refund goes back to (`DaySoldUnder`), what `QueryTicket` offers (`Offered`), the second
  train of a transfer (`Connection`), and the transfer it chooses (`Considered`, the body of
  its loops; their order, which decides only between equal ranks, is left open). The state machine is the loop of `QueryTrain`, which
  walks a run from station to station; it is the measure for all the others, and a count
  of minutes (`Instant`) is the measure for it.
- `Timetable.tla`: the promise of the catalogue: a train is entered once, may be withdrawn
  until it is released, and then stays as it is, on offer between its stops.
- `TrainCatalog.tla`: `AddTrain`, `DeleteTrain`, `ReleaseTrain`, exit and start over tuple
  pages, dynamic pages and both indexes, and, as operators on a state, the scan of the
  station index, its sort, the walk down two lists of `QueryTicket` and the search for the
  leg of `BuyTicket`. Deleted records stay on their pages, as in the code. The lists of a
  train are written one after the other and may land on different pages. A list element
  takes one cell of a page, whatever its width in bytes; the pages of the index trees,
  which take ids from the same counter, are left out, so page ids are consecutive.
  Stations stand for their hashes: two stations with the same hash are outside the model.
  The bound is `MaxRecords`, the trains ever added.

**Layer 5, the containers.**

- `Collections.tla`: what `vector` and `list` promise, with no memory: sequences of objects,
  and objects that are there as long as something refers to them.
- `SharedPtr.tla`: `shared_ptr` as functions from store to store, so that one call of a
  container can make several; a slot is a piece of memory that may hold a pointer.
- `Vector.tla`: arrays that double and halve. The element type is `shared_ptr` because it
  tells copy, move, construction, assignment and destruction apart; a forgotten destructor
  or an assignment to raw memory is a count that is off, or an undefined application.
- `LinkedList.tla`: nodes between a head and a tail. Addresses are only compared.
- `Containers.tla`: a program with vectors, lists and locals that makes any legal call in
  any order. It keeps the preconditions: those the code checks, and those it leaves to its
  callers (no `pop_back` or `erase(iterator)` of an empty vector, no moved-from pointer put
  in, no element of a vector put into that same vector).

**Composition.**

- `CommandLoop.tla`: `Listen` over all the systems. A line gives letters a value, `Parse`
  writes them into `op` and `para`, a handler sees only these, `NextCommand` clears them.
  `UserSystem` is taken in full, with its `LoginStatus` as the guard of buying and
  refunding; the catalogue as its promise `Timetable`, which `TrainCatalog` implements; the
  seats, waitlists and orders as their promise `TicketOffice`, which `TicketSales`
  implements. What the loop adds to the promises is `names`: the train id and the two station
  names of an order, which a refund looks up in the catalogue again. `line`, the command as
  entered, is a history variable. `Refuse` is a handler that changes nothing. Whether an
  order is placed at once or queued is the office's choice among what its one rule allows.

## 3. What is checked

| Run | Instance | Shows |
|---|---|---|
| `lruk_replacer` | 3 frames, k = 2, 7 accesses | `EvictPicksLRUK`: the pass of `Evict`, which tracks distance and first access in different variables, finds the definition's victim in every mix of frames with and without k accesses. `ImplementsReplacer`. |
| `buffer_pool` | 2 frames, 3 guards, 2 contents, ids 0..2 | `BooksAgree`, the four agreements of frames, free list, page table, pin counts, guards and replacer (`FramesAccountedFor`, `PinsMatchGuards`, `GuardsKeepTheirPage`, `ReplacerAgrees`); `NothingLost`, writes survive (`CleanMeansOnDisk`, `LivePagesStored`); the refinement `PagesPersist`; the pool can be exhausted, and hangs only then (`HangsOnlyWhenAllPinned`). |
| `ticket_sales` | 2 users, legs 0-2 and 1-2, parties of 1 and 2, 2 seats, 4 orders, pages of 2 | `SeatsConserved`, `QueuesMatchOrders`, `NobodyWaitsInVain`, `ChainsSorted`, in every state, in the middle of a pass too; `ListedIsRefunded`: the listing and the refund walk the pages differently and agree on which order is the n-th. |
| `ticket_office` | 2 trips, 1 user, 1 leg, parties of 1 and 2, no symmetry | The refinement `ImplementsOffice` and liveness, `RefundCompletes`. |
| `tree` | 9 keys, each with its own value, leaves of 2, internal pages of 3 | `Balanced`, `SubtreesSeparated`, `NoPageLost`, `AncestorsSuffice`, `LookupComplete`, `ScansInOrder` and the refinement `ImplementsMap`. |
| `users` | 3 users, levels 0, 1 and 10, stamps of 2 bits, 6 sessions | `RecognisedJustly`, `LoginsCountWhileTheyFit`, `NobodyJoinsTheTop`. |
| `train_time` | 6 trains of 3 or 4 stations, all their days, all transfers | `KeepsTime`, `TicketsMeetTheirRun`, `ArrivalsMeetTheRun`, `OffersAreSold`, `ConnectionsAreNext`, `TransferIsBest`. |
| `train_catalog` | 3 ids, 3 services, 4 records, pages of 2 records and of 10 cells | `OffersMatchSales` and the refinement `ImplementsTimetable`. |
| `containers` | 2 vectors, 2 lists, 1 local, 2 objects, 4 elements at most, 3 in lists | `OwnersCounted`, `LayoutSound` and the refinement `ImplementsCollections`. |
| `command_loop` | 2 users, 1 train id with two possible services, 2 seats, parties of 1 and 2, 2 orders, 2 sessions | `NamesLeadToTheLeg`, `OnlyWhatTheLineAsks`, `OnlyTheRecognisedAct`: what only the systems together can promise. |
| `ticket_dropped`, `ticket_newcomer` | | Violations, section 5. |

Bounds. `MaxPageId` and `MaxTimestamp` cap counters the code lets grow; they appear in
guards only. Two frames suffice for every interplay of a pinned and an evictable frame,
with a third page to force eviction; one guard more than frames is the first instance in
which the pool can be exhausted. Three ids are the header page and two more, enough for a
page to be evicted, deleted or read back while another is pinned. In the sales, four
orders with pages of two make two-page chains of both kinds, a page dropped in front of
one still in use, a waiter passed over and a later one served. Symmetry is over frames,
guards, users and train ids, which no formula tells apart, and is not used for liveness.
Bounds on frames, guards, ids and contents, on users, sessions and the width of stamps, on
slots and objects, on trips, legs, parties, seats and page sizes, on trains, services and
records, and every bound of `command_loop`, are lifted by the proofs of section 4.

With leaves of two and internal pages of three, the smallest that keep a page half full
after a split, nine keys reach trees of four levels and every loan, merge and change of
the root, on inner levels too. Every key comes with one value of its own, so an entry that ends up
under another key shows; values are only copied, and a second value for a key that is in the
map is refused. The run uses a `VIEW`: `TreeShape` names each page by
its place in a walk of the tree, so trees that differ in page numbers only count as one;
no action and no property looks at a number but to compare it with another. Two-bit stamps
wrap within six sessions. Four records on pages of two, with three ids, let an id be
deleted and entered again on another page, and lists that begin on the page of a deleted
train. The trains of `train_time` start just before, at and after midnight, their legs end
just under and over a day, and they are sold over the ends of all three months; June, July
and August are what the program sells and what its calendar knows.

Four elements make an array of one cell grow to eight and halve back; two vectors and two
lists make assignments between containers that share objects. Every list needs two nodes
more than elements, so five addresses are enough for three. `MaxElements` and `MaxInLists`
are the bounds. In `command_loop` one train id suffices because trains do not interact; it
can be entered with two services that have the same station names at different positions,
which is what would lead a refund astray. Two stamps of chance, one of them that of a
session to come, and two sessions let an uninitialized login count. `MaxOrders` and
`MaxSession` are the bounds.

Deadlock is not checked in `buffer_pool` (a hung pool stays hung), in the ticket
runs (a dead process stays dead), in `users` and `command_loop` (the cap on sessions ends
the model) and in `train_time` (a run ends at its last station); nor in `tree`, which
never stops.

Fairness. Only `TicketSales` has any: weak fairness of the steps of a refund's pass
(`InTheLoop`). One thread runs the loop; it waits for nothing between two slots. No
fairness is assumed of customers: nobody is obliged to buy, refund, exit or start.

## 4. What is proved

With TLAPS, for every value of the constants that satisfies the stated assumptions:

- `BufferPoolProofs`: `CounterCorrect`, the replacer's counter is the number of evictable
  frames, for any finite set of frames; `TypeCorrect`, `BooksKept` (`BooksAgree`), `WritesKept`
  (`NothingLost`), `HangJustified`, and `NoHang`, which assumes `Cardinality(Handles) <= Cardinality(Frames)`: callers that never
  hold more guards than there are frames never spin; and `Persistence`, that the pool
  implements `PageStore` (`PagesPersist`).
- `LRUKReplacerProofs`: `EvictIsLRUK` (`EvictPicksLRUK`), for any number of frames and any
  k, and `LRUKImplementsReplacer`, so that what is proved of the pool over `Replacer` holds
  of the pool over LRU-K.
- `TicketSalesProofs`: `SalesTyped`, `ChainsStaySorted`, `SeatsAreConserved`,
  `QueuesAndOrdersAgree` (`QueuesMatchOrders`), `NobodyIsForgotten` (`NobodyWaitsInVain`),
  `ListingIsRefunded` (`ListedIsRefunded`), and `SalesImplementOffice`: seat counters,
  waitlists and order lists implement `TicketOffice`. For any trips, users, legs, parties,
  seats and page sizes.
- `TrainSystemProofs`: of the catalogue, `CatalogImplementsTimetable` and
  `OffersMatchSalesHolds` (`OffersMatchSales`), for any trains, services, stations and page
  sizes; of days and times, for any trains, `KeepsTimeHolds` (`KeepsTime`),
  `TicketsMeetTheirRunHolds`, `ArrivalsMeetTheRunHolds`, `OffersAreSoldHolds`,
  `ConnectionsAreNextHolds` and `TransferIsBestHolds`.
- `BPlusTreeProofs`, on top of `BPlusTreeShape`: `TreeStaysSound`, the inductive invariant,
  and from it `TreesStayBalanced` (`Balanced`), `SubtreesStaySeparated`
  (`SubtreesSeparated`), `NoPageIsLost` (`NoPageLost`) and `AncestorsAlwaysSuffice`
  (`AncestorsSuffice`), for any keys, values and page sizes, so for trees of any height;
  and about what the tree contains, `LookupsAreComplete` (`LookupComplete`),
  `ScansStayInOrder` (`ScansInOrder`) and `TreeImplementsMap` (`ImplementsMap`): the tree
  implements `OrderedMap`.
- `SharedPtrProofs`: `PointersCounted`, for any slots and objects and any sequence of calls:
  a counter is the number of owners and no pointer dangles.
- `CommandLoopProofs`: of the user system `TypeCorrect`, `SessionsKeptApart`, `LoginsLast`
  and `TopIsClosed`; of the loop `NamesFollowed` (`NamesLeadToTheLeg`), `LinesAreFollowed`
  (`OnlyWhatTheLineAsks`), `RecognisedUsersAct` (`OnlyTheRecognisedAct`), and
  `SystemsRespected`: every behaviour of the loop is, seen from each system, a behaviour of
  `UserSystem`, of `Timetable` and of `TicketOffice`. The loop thus uses each of them only
  as it allows, and what is proved or checked of one alone holds in the program.

Assumptions: `FramesAssumption`, `PoolAssumption`, `DataAssumption` (finite sets of frames
and guards, the special values are distinct from the ordinary ones), `UserAssumption`,
`PointerAssumption` (finitely many slots), `LRUKAssumption` (k and the number of frames are
positive), `TreeAssumption` (leaves of two at least, internal pages of three), `SalesAssumption` (legs run forwards, parties are of one at least, pages hold one
entry at least), `CatalogAssumption` (a service is its four lists; a train passes stations
of the country, none twice, stops at two at least, and its lists fit into a page), `TrainAssumption` (the trains are finitely many and
their ids ordered as numbers; the lists of a train fit one another, it passes no station
twice, starts without a wait and is sold from one summer day to a later one, and its last
run is over by September 30), and `LoopAssumption`: no command is blank, the
uninitialized byte is an `int8_t`, and a train passes no station twice. That, and when runs end, is taken of
the input: `add_train` checks neither; a lookup by name presupposes the one, the calendar of
`time.cpp` the other.

The argument. `IInv` is the inductive invariant. Its core, `Pool`, joins the four
agreements with `CleanMeansOnDisk`, because none is inductive alone: that `UnpinPage` finds
its frame again by page id needs `GuardsKeepTheirPage`, which needs that eviction takes
unpinned frames only (`ReplacerAgrees`), which needs that pin counts are the numbers of
guards (`PinsMatchGuards`). `LivePagesStored` needs that resident pages are live, or a
deleted page's frame could be written back under an id still in use; the restart needs
`Phase` (which of header and counter has been fetched or saved in each status) and
`LiveIdsUsed` (no live id is at or above the counter). The operations that take a frame,
give one back and move a guard are each proved to preserve `Pool` once, as lemmas about any
state, and the actions cite them. `NoHang` is the pigeonhole principle. The refinement maps
`content` to what is in the frame, or in the file if the page is not resident; each action
is shown to be one step of `PageStore` or to leave the mapped variables alone.

For the users, the invariant says what every stamp in a profile is: that of a user of this
session is the session's number cut to the stamp's width, every other that was ever written
is less than that number (`Stamps`), with the number in the header page standing in while
the program is stopped. `CastInt8Facts` is why this is enough: a cut number is never
greater than the number, so a stamp of an old session may lose its meaning but never take
on that of a later one, although the counter is never cut. `TopIsClosed` needs types only.

For the pointers, `IInv` is the property itself with types, about any store. Each call is
shown, as a lemma about any store, to keep it, down to a few lemmas that each count one owner
more, one fewer, or one exchanged for another.

For the loop, `LoopInv` joins three parts. `Locals` says that between commands `op` and
`para` are blank and that while a command is executed they are what the line gives, of the
kinds its handler expects; without the first half the second is not inductive, because
`Parse` writes only the letters it is given. `Stores` types the catalogue and the book of
orders and says orders are numbered without gaps. `NamesLeadToTheLeg` then needs that a
released train is never withdrawn nor entered again (`TrainCommandKeeps`), and that the
office changes nothing of an order but its status (`StatusKeeps`). `LegIsOne` is where
distinct station names are used. That only recognised users act follows with the invariant
of the user system (`Invariance`), which `SystemsRespected` makes available here.

For LRU-K, `LRUInv` says that every history holds one to k timestamps, the oldest first and
all in the past, that no two frames share a timestamp, and that the counter is right; without
the second part two frames could tie and the pass and the definition might choose
differently. `Scan` is a recursive function of the number of frames passed. That it exists is
shown by taking the least number of frames for which it does not (`PassExists`), and `Best`
is its loop invariant: the locals are those of the frame that goes before all others seen so
far. `BetterIsBest` is the one step, with the three cases of the code.

For the sales, `SalesInv` joins types, sorted chains and the seats with three parts no run
names: orders are numbered without gaps, each number once, in any list (`Numbered`); every
queued entry and its pending order agree (`Matched`); and a pass runs over the waitlist of
a trip, and only while the program does (`PassSound`). They lean on one another: that serving a
waiter finds its order needs `Matched`; that the timestamp it looks for is on the page where
the walk stops needs the sorted chains; that dropping pages in front drops nobody who waits
needs `Matched` and gives it; and that an exit or a crash loses no seat held by a pass needs
`PassSound`.
TLC checks `SalesInv` on `ticket_sales`. Seats sold are counted as a set, one element for
each seat of each order, so that conservation is a matter of disjoint unions and needs no
sum over data. `NobodyWaitsInVain` is kept because serving only takes seats: who did not fit
when passed over does not fit later in the pass. `ListedIsRefunded` holds of any chain of
pages: both walks are recursive functions along the pages, and before each page the number
left is the number asked less what the listing has printed (`WalkLeaves`).
The refinement reads the three stores as one book (`IsBook`): every order under its number.
Placing adds a line, a refund and a serving restate one; seats left are the train less what
the book has sold because both count the same set.

For the catalogue, `CatalogInv` says that pages are typed, that the lists an index entry
points to are there, that records and the index agree and that the pages the next write goes
to are at hand. Pages only grow, except that a release marks one record; so a record
identifier once given leads for good to what was written (`CatalogInvNext`), and that is the
refinement: an entry of the index is a train of the timetable.

What a ticket query answers needs more (`OffersInv`): the station index is in key order and
holds exactly the keys made of a station and of the record of a released train that stops
there (`Listed`). A deletion keeps that because it refuses a released train, and an addition
because a new train is not released. The scan from the lower bound of a station then
gives the records of the station's trains, in order and each once (`FetchFinds`); the
merge sort leaves a list in order as it is (`SortKeeps`, from `MergeJoins`); the walk is a
fold whose invariant is that all below its place in the second list has been compared, so
it finds what is on both; and a train that passes no station twice goes from one station
to the other if its last stop at the first comes before its last stop at the second. The
folds and the two recursive functions exist by recursion on a measure, as for the tree.

For the B+ tree, `TreeInv` must be about trees of any height without walking one. So each
page gets a height and a region, the numbers that are sought in it, and a tree is a set of
pages in which everything is local (`Tree`): a child lies one level lower and has its part
of its parent's region, as the keys cut it; pages on one level have disjoint regions that
cover all numbers; and a leaf leads to the leaf whose region begins where its own ends.
Heights and regions are only said to exist. Between two calls, a page is there that its
parent does not know of, or the other way round; so the tree is that of the view
(`ViewOf`), the pages as the call to come will leave them, while the sizes are those of the
pages as they are, because an array must hold what is in it at every moment. `Calling` says
that the ancestors held are a chain of parents from the root, or from a page that can take the
change, down to the page the call is for.

`BPlusTreeShape` is about trees and no program: a tree stays one when two neighbours become
one (`MergeTree`) and when a page becomes two (`SplitTree`); a loan is a merge and a split.
Regions show why a key that has been removed may stay above the leaves, and why
the leaf links need no search for the left neighbour. `BPlusTreeProofs` shows of each case
of each action that it is one of those changes on the view. The binary searches and the
descent are recursive functions; that they exist is proved for every recursion that goes
down a measure (`Recursion`), and what they find by induction on it. `Height` and `Under` of
the properties are then found to be the height and the pages inside the region.

What the tree contains is what its leaves hold, and a leaf's keys lie in its region: so the
regions that order the leaves order the entries, a descent to a number ends in the one leaf
that can hold it, and a scan that follows the links meets every entry still to come, by
induction on how many those are. Splits, merges and loans move entries between neighbours
and only the leaf step of an insertion or a removal adds one or takes one away, on the view
too; so a step of the tree is a step of the map or leaves it alone.

For days and times, the dates the code uses are numbered one after the other (`Serial`): to
the code every month but June has 31 days. `Carried` and `Borrowed`, the two
loops, keep that number, by induction on how far the day is out of its month; so a sum adds
to the count of minutes (`PlusCounts`), a difference takes from it (`MinusCounts`), and the
comparisons order times by it (`TimesInOrder`). A train starts once in any 1440 minutes: so
a run is known by any minute of the day on which it leaves a station (`RunFound`), which is
what tickets, refunds, offers and connections rest on. Sums of legs are folds over sets; that
the order does not matter is shown by taking a sum for the size of a set with one element for
each unit (`SumIs`). `RunInv` says that the clock of a run is its start and what was added
since. The code's calendar is the real one up to September 30, which is why the last run of
every train is assumed to be over by then.

For transfers, ranks are ordered like numbers written with four digits (`LexOrders`): what is
not preferred to the best so far is not preferred to what replaces it, so by induction on the
ways tried the search keeps a way that no other ranks before (`SearchIsBest`), whatever the
order of the loops. Of one way to change, the day leaves only one run of the first train
(`FirstLegIs`, `OfferedIs`), and the second run taken is the first that can be, so that any
other arrives later (`LaterTrip`); the times written on the tickets are the minutes the
journey takes (`TotalTimeIs`).

Only model-checked: the arrays and links of `Containers` (its loops are folds over them),
and all liveness, which is out of the prover's reach. The induction theorems of the library take an operator as a parameter, which the
provers here can not instantiate; an induction over data is therefore done by hand, as a
set of counterexamples among the numbers that would have a least element (`LeastNumber`,
`MinNat`), or as a set that holds whatever all below it holds (`MeasureInduction`).

## 5. Findings

- `ticket_dropped` (code bug): once nobody waits on a trip's waitlist any more, the next
  refund of a sold order on that trip makes `RemoveEmptyPage` drop the last guard;
  `FetchWaitlist` returns an iterator that tests true around it and `RefundTicket`
  dereferences it, after marking the order refunded and before returning its seats.
- `ticket_newcomer` (code bug): a refund asked for by a user without orders takes
  `page_id[0]` of an empty vector; the exception is not caught and no pool is flushed.

Noticed while modelling, without a run: `DeletePage` leaves the dirty bit of the freed frame
set, though its contract says the metadata are reset; every way out of the free list sets it
anew. `BPlusTree::IsEmpty` compares the root with page 0 instead of `INVALID_PAGE_ID` and is
always false; nothing calls it. A user who was just added may count as logged in because of
the uninitialized stamp, and from session 128 on logins succeed and count for nothing
(`LoginsCountWhileTheyFit`); no document of the repository says otherwise. `replacer.h:48`
says that frames with fewer than k accesses are chosen by classical LRU; the code chooses
by the first access. In the containers, where no caller of the repository comes by: `vector::insert` by index
at 0 compares an `int` that reaches -1 with a `size_t`; `pop_back` and `erase(iterator)` of
an empty vector do not throw, though the comment of `pop_back` says it does; inserting an element of a vector into the same
vector reads it after it has moved; copying an empty `shared_ptr` reads a null counter; the
move assignment of `unique_ptr` forgets what it held. `vector::Shrink` gives the old array
back under the new capacity. Times past September 30 show a 31st of September, as `time.cpp` gives
every month from July on 31 days.

## 6. Plan

1. done: the pool, its policy, the store it implements, their proofs; the sale of tickets
   and the office it implements.
2. done: the B+ tree and the map it implements; the users and their proofs; dates and days.
3. done: the catalogue, the timetable it implements, the choice of a transfer.
4. done: the containers, the collections they implement, the proof about pointers.
5. done: the composition in the command loop, its invariant and the proof that it uses each
   system as that system allows.
6. done: proofs about the eviction policy, the sales and the catalogue, with the three
   refinements.
7. done: proofs about `BPlusTree`: a shape without recursion, inductive between two calls
   too, the four properties of the shape, lookups, scans and the map.
8. done: proofs about `TrainTime`.

### Not modelled

The proxy's disabled writer thread and the empty latches do nothing. String hashing and
splitting are pure, and two names with the same hash are outside the model. `map.hpp`
forwards to `std::map` (its own red-black tree is commented out), `pair` is a struct, and
`unique_ptr` has no state but its one pointer. In the command loop the queries, which change
nothing, are left out, and so are passwords, names and mail addresses, dates (one day of
each train is sold; `TrainTime` is about finding the day), the formatting of answers, and a
refund by a user without orders, which ends the process and is in `TicketSales`. Of the disk
manager, that a read past the end makes every later operation of the stream fail is left
out: `NothingLost` shows that no such read happens. There is no crash recovery in the code
and none is modelled.
