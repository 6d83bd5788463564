----------------------------- MODULE BufferPool -----------------------------
(***************************************************************************)
(* BufferPoolManager (buffer/buffer_pool_manager.cpp) with the page guards *)
(* its clients hold (storage/page/page_guard.cpp) and the file under it    *)
(* (storage/disk/disk_manager.cpp).                                        *)
(*                                                                         *)
(* The program runs one thread: its latches are empty functions and the    *)
(* writer thread of BufferPoolProxy is commented out, so a call into the   *)
(* pool is one step.  What interleaves is what the callers do between      *)
(* calls: a B+ tree descent or a walk along a page chain holds several     *)
(* guards at once, moves them, writes through them, and the pool evicts    *)
(* underneath.                                                             *)
(*                                                                         *)
(* A process opens the pool, works, and closes it; "hung" is the empty     *)
(* loop FetchPageRead, FetchPageWrite and NewPageGuarded enter when no     *)
(* frame can be had (the assert in it is compiled out of a Release build). *)
(***************************************************************************)
EXTENDS Replacer

CONSTANTS Handles,      \* the guard objects the callers have at a time
          Bodies, Zero, \* contents of a page; the content of zeroed memory
          MaxPageId,    \* bound on the page ids handed out
          NoFrame,      \* a null Page pointer, a page id not in page_table_
          NoPage,       \* INVALID_PAGE_ID
          NoData        \* beyond the end of the file

ASSUME PoolAssumption ==
  /\ IsFiniteSet(Handles)
  /\ Zero \in Bodies
  /\ MaxPageId \in Nat
  /\ NoFrame \notin Frames
  /\ NoPage \notin 0 .. MaxPageId

VARIABLES pages,         \* the frames
          page_table,    \* page id -> frame
          free_list,     \* a set: frames are interchangeable, and none is in it twice
          next_page_id,
          guards,
          disk,          \* the file, by page id
          live,          \* ids the client has allocated and not deleted
          status

poolVars == <<pages, page_table, free_list, replacer, next_page_id, guards, disk, live, status>>

PageIds == 0 .. MaxPageId

HeaderId == 0            \* every client's first page; the pool keeps allocate_cnt_ in it

\* What a page holds: the client's bytes, and the allocate_cnt_ field, which
\* only the header page uses.
Data == [body : Bodies, allocate_cnt : 0 .. MaxPageId + 1]

ASSUME DataAssumption == NoData \notin Data

ZeroData == [body |-> Zero, allocate_cnt |-> 0]

Page == [page_id : PageIds \cup {NoPage}, pin_count : Nat, is_dirty : BOOLEAN, data : Data]

BlankPage == [page_id |-> NoPage, pin_count |-> 0, is_dirty |-> FALSE, data |-> ZeroData]

\* held is not in the code: the id of the page its owner believes it guards.
Guard == [page : Frames \cup {NoFrame}, is_dirty : BOOLEAN, held : PageIds \cup {NoPage}]

NoGuard == [page |-> NoFrame, is_dirty |-> FALSE, held |-> NoPage]

Status == {"down", "opening", "restoring", "running", "closing", "flushing", "hung"}

\* Every field of the pool stays in its range; in particular the replacer's size
\* never wraps below zero (it is a size_t) and next_page_id_ stays a page id.
TypeOK ==
  /\ pages \in [Frames -> Page]
  /\ page_table \in [PageIds -> Frames \cup {NoFrame}]
  /\ free_list \in SUBSET Frames
  /\ replacer \in ReplacerType
  /\ next_page_id \in 0 .. MaxPageId + 1
  /\ guards \in [Handles -> Guard]
  /\ disk \in [PageIds -> Data \cup {NoData}]
  /\ live \in SUBSET PageIds
  /\ status \in Status

-----------------------------------------------------------------------------
(***************************************************************************)
(* Taking a frame.                                                         *)
(***************************************************************************)

\* ReadPage: past the end of the file the buffer keeps what it held.
ReadPage(d, p, old) == IF d[p] = NoData THEN old ELSE d[p]

WritePage(d, p, data) == [d EXCEPT ![p] = data]

\* The file once the dirty page in frame f has been written back.
WrittenBack(f) ==
  IF pages[f].is_dirty THEN WritePage(disk, pages[f].page_id, pages[f].data) ELSE disk

\* Page p moves into frame f with content data, pinned once through guard h,
\* the replacer and the table having been rid of the frame's last page.
Install(h, p, f, rep, table, data, dirty) ==
  /\ replacer' = SetEvictable(RecordAccess(rep, f), f, FALSE)
  /\ page_table' = [table EXCEPT ![p] = f]
  /\ pages' = [pages EXCEPT ![f] =
                 [page_id |-> p, pin_count |-> 1, is_dirty |-> FALSE, data |-> data]]
  /\ guards' = [guards EXCEPT ![h] = [page |-> f, is_dirty |-> dirty, held |-> p]]

TakeFree(h, p, f, data, dirty) ==
  /\ f \in free_list
  /\ free_list' = free_list \ {f}
  /\ disk' = disk
  /\ Install(h, p, f, replacer, page_table, data, dirty)

\* Mutant: the evicted page stays in page_table.
TakeVictimStillMapped(h, p, f, data, dirty) ==
  /\ free_list = {}
  /\ f \in Victims(replacer)
  /\ disk' = WrittenBack(f)
  /\ Install(h, p, f, Forget(replacer, f), page_table, data, dirty)
  /\ UNCHANGED free_list

TakeVictim(h, p, f, data, dirty) ==
  /\ free_list = {}
  /\ f \in Victims(replacer)
  /\ disk' = WrittenBack(f)
  /\ Install(h, p, f, Forget(replacer, f),
             [page_table EXCEPT ![pages[f].page_id] = NoFrame], data, dirty)
  /\ UNCHANGED free_list

NoFrameToTake == free_list = {} /\ Victims(replacer) = {}

\* Mutant: the frame found stays evictable.
FetchHitStillEvictable(h, p) ==
  /\ page_table[p] # NoFrame
  /\ LET f == page_table[p] IN
       /\ replacer' = RecordAccess(replacer, f)
       /\ pages' = [pages EXCEPT ![f].pin_count = @ + 1]
       /\ guards' = [guards EXCEPT ![h] = [page |-> f, is_dirty |-> FALSE, held |-> p]]
  /\ UNCHANGED <<page_table, free_list, disk>>

FetchHit(h, p) ==
  /\ page_table[p] # NoFrame
  /\ LET f == page_table[p] IN
       /\ replacer' = RecordAccess(SetEvictable(replacer, f, FALSE), f)
       /\ pages' = [pages EXCEPT ![f].pin_count = @ + 1]
       /\ guards' = [guards EXCEPT ![h] = [page |-> f, is_dirty |-> FALSE, held |-> p]]
  /\ UNCHANGED <<page_table, free_list, disk>>

FetchMiss(h, p) ==
  /\ page_table[p] = NoFrame
  /\ \E f \in Frames :
       \/ TakeFree(h, p, f, ReadPage(disk, p, pages[f].data), FALSE)
       \/ TakeVictim(h, p, f, ReadPage(WrittenBack(f), p, pages[f].data), FALSE)

\* FetchPage through the guard constructor of FetchPageRead and FetchPageWrite.
FetchPage(h, p) == FetchHit(h, p) \/ FetchMiss(h, p)

\* Mutant: is_dirty = dirty instead of |=.
OnePinLessOverwriting(page, dirty) ==
  [page_id |-> page.page_id, pin_count |-> page.pin_count - 1,
   is_dirty |-> dirty, data |-> page.data]

(***************************************************************************)
(* Giving it back: UnpinPage looks the frame up by page id again, and does *)
(* nothing for a page it does not know or that nobody pins.                *)
(***************************************************************************)
OnePinLess(page, dirty) ==
  [page_id |-> page.page_id, pin_count |-> page.pin_count - 1,
   is_dirty |-> page.is_dirty \/ dirty, data |-> page.data]

\* Mutant: the replacer never hears that the frame is free to go.
UnpinnedSilently(g) ==
  LET f == page_table[pages[g.page].page_id]
  IN IF f = NoFrame \/ pages[f].pin_count <= 0
     THEN [pages |-> pages, replacer |-> replacer]
     ELSE [pages    |-> [pages EXCEPT ![f] = OnePinLess(pages[f], g.is_dirty)],
           replacer |-> replacer]

Unpinned(g) ==
  LET f == page_table[pages[g.page].page_id]
  IN IF f = NoFrame \/ pages[f].pin_count <= 0
     THEN [pages |-> pages, replacer |-> replacer]
     ELSE [pages    |-> [pages EXCEPT ![f] = OnePinLess(pages[f], g.is_dirty)],
           replacer |-> IF pages[f].pin_count = 1 THEN SetEvictable(replacer, f, TRUE) ELSE replacer]

Holds(h) == guards[h].page # NoFrame

Idle == \A h \in Handles : ~Holds(h)

-----------------------------------------------------------------------------
(***************************************************************************)
(* Opening: the constructor reads next_page_id_ back from the header page, *)
(* unless the file has just been created.                                  *)
(***************************************************************************)
FirstVisit == disk[HeaderId] = NoData

Open ==
  /\ status = "down"
  /\ status' = IF FirstVisit THEN "running" ELSE "opening"
  /\ next_page_id' = 0
  /\ UNCHANGED <<pages, page_table, free_list, replacer, guards, disk, live>>

FetchHeader(h) ==
  /\ status = "opening"
  /\ FetchPage(h, HeaderId)
  /\ status' = "restoring"
  /\ UNCHANGED <<next_page_id, live>>

RestoreCount(h) ==
  /\ status = "restoring"
  /\ Holds(h)
  /\ next_page_id' = pages[guards[h].page].data.allocate_cnt
  /\ pages' = Unpinned(guards[h]).pages
  /\ replacer' = Unpinned(guards[h]).replacer
  /\ guards' = [guards EXCEPT ![h] = NoGuard]
  /\ status' = "running"
  /\ UNCHANGED <<page_table, free_list, disk, live>>

(***************************************************************************)
(* What the clients do.                                                    *)
(***************************************************************************)

\* Mutant: a caller that does not take AsMut of its new page.
NewPageNotMarked(h) ==
  /\ status = "running"
  /\ ~Holds(h)
  /\ next_page_id \in PageIds
  /\ \E f \in Frames :
       \/ TakeFree(h, next_page_id, f, ZeroData, FALSE)
       \/ TakeVictim(h, next_page_id, f, ZeroData, FALSE)
  /\ next_page_id' = next_page_id + 1
  /\ live' = live \cup {next_page_id}
  /\ UNCHANGED status

\* A new page comes through NewPageGuarded, and every caller takes AsMut of
\* that guard at once, which marks the guard dirty: the page is neither dirty
\* nor in the file yet.
NewPage(h) ==
  /\ status = "running"
  /\ ~Holds(h)
  /\ next_page_id \in PageIds
  /\ \E f \in Frames :
       \/ TakeFree(h, next_page_id, f, ZeroData, TRUE)
       \/ TakeVictim(h, next_page_id, f, ZeroData, TRUE)
  /\ next_page_id' = next_page_id + 1
  /\ live' = live \cup {next_page_id}
  /\ UNCHANGED status

Fetch(h, p) ==
  /\ status = "running"
  /\ ~Holds(h)
  /\ p \in live
  /\ FetchPage(h, p)
  /\ UNCHANGED <<next_page_id, live, status>>

\* AsMut and a store through the pointer it returns.
Write(h, b) ==
  /\ status = "running"
  /\ Holds(h)
  /\ guards' = [guards EXCEPT ![h].is_dirty = TRUE]
  /\ pages' = [pages EXCEPT ![guards[h].page].data.body = b]
  /\ UNCHANGED <<page_table, free_list, replacer, next_page_id, disk, live, status>>

\* Drop, and the destructor of a guard.
Drop(h) ==
  /\ status = "running"
  /\ Holds(h)
  /\ pages' = Unpinned(guards[h]).pages
  /\ replacer' = Unpinned(guards[h]).replacer
  /\ guards' = [guards EXCEPT ![h].page = NoFrame, ![h].held = NoPage]
  /\ UNCHANGED <<page_table, free_list, next_page_id, disk, live, status>>

\* WriteDynamicInfo, AddTrain and WaitList::Insert take a pointer with AsMut in
\* an inner block and append through it after the block has dropped the guard.
DropThenAppend(h, b) ==
  /\ status = "running"
  /\ Holds(h)
  /\ guards[h].is_dirty
  /\ pages' = [Unpinned(guards[h]).pages EXCEPT ![guards[h].page].data.body = b]
  /\ replacer' = Unpinned(guards[h]).replacer
  /\ guards' = [guards EXCEPT ![h].page = NoFrame, ![h].held = NoPage]
  /\ UNCHANGED <<page_table, free_list, next_page_id, disk, live, status>>

\* Mutant: the page guards[h] held is not dropped.
MoveAssignLeaking(h, k) ==
  /\ status = "running"
  /\ h # k
  /\ Holds(h) \/ Holds(k)
  /\ guards' = [guards EXCEPT ![h] = guards[k], ![k].page = NoFrame, ![k].held = NoPage]
  /\ UNCHANGED <<pages, page_table, free_list, replacer, next_page_id, disk, live, status>>

\* guards[h] = std::move(guards[k]): h drops what it holds and takes over k's
\* page and dirty flag; k keeps a flag nobody reads.
MoveAssign(h, k) ==
  /\ status = "running"
  /\ h # k
  /\ Holds(h) \/ Holds(k)
  /\ pages' = IF Holds(h) THEN Unpinned(guards[h]).pages ELSE pages
  /\ replacer' = IF Holds(h) THEN Unpinned(guards[h]).replacer ELSE replacer
  /\ guards' = [guards EXCEPT ![h] = guards[k], ![k].page = NoFrame, ![k].held = NoPage]
  /\ UNCHANGED <<page_table, free_list, next_page_id, disk, live, status>>

\* Mutant: a pinned page is deleted too.
DeletePagePinned(p) ==
  /\ status = "running"
  /\ p \in live \ {HeaderId}
  /\ LET f == page_table[p] IN
       /\ f # NoFrame
       /\ replacer' = Remove(replacer, f)
       /\ page_table' = [page_table EXCEPT ![p] = NoFrame]
       /\ free_list' = free_list \cup {f}
       /\ pages' = [pages EXCEPT ![f].data = ZeroData, ![f].page_id = NoPage]
  /\ live' = live \ {p}
  /\ UNCHANGED <<next_page_id, guards, disk, status>>

\* DeletePage refuses a pinned page and ignores one that is not in a frame; it
\* leaves the frame's dirty bit as it was.  Ids are not reused.
DeletePage(p) ==
  /\ status = "running"
  /\ p \in live \ {HeaderId}
  /\ LET f == page_table[p] IN
       \/ /\ f = NoFrame
          /\ UNCHANGED <<pages, page_table, free_list, replacer>>
       \/ /\ f # NoFrame
          /\ pages[f].pin_count <= 0
          /\ replacer' = Remove(replacer, f)
          /\ page_table' = [page_table EXCEPT ![p] = NoFrame]
          /\ free_list' = free_list \cup {f}
          /\ pages' = [pages EXCEPT ![f].data = ZeroData, ![f].page_id = NoPage]
  /\ live' = live \ {p}
  /\ UNCHANGED <<next_page_id, guards, disk, status>>

\* Part of the pool's interface; nothing in the program calls it.
FlushPage(p) ==
  /\ status = "running"
  /\ page_table[p] # NoFrame
  /\ LET f == page_table[p] IN
       /\ disk' = WritePage(disk, pages[f].page_id, pages[f].data)
       /\ pages' = [pages EXCEPT ![f].is_dirty = FALSE]
  /\ UNCHANGED <<page_table, free_list, replacer, next_page_id, guards, live, status>>

\* The pool has no frame for a page: the caller loops for ever.
FetchHangs(h, p) ==
  /\ status = "running"
  /\ ~Holds(h)
  /\ p \in live
  /\ page_table[p] = NoFrame
  /\ NoFrameToTake
  /\ status' = "hung"
  /\ UNCHANGED <<pages, page_table, free_list, replacer, next_page_id, guards, disk, live>>

NewPageHangs(h) ==
  /\ status = "running"
  /\ ~Holds(h)
  /\ next_page_id \in PageIds
  /\ NoFrameToTake
  /\ status' = "hung"
  /\ next_page_id' = next_page_id + 1
  /\ UNCHANGED <<pages, page_table, free_list, replacer, guards, disk, live>>

-----------------------------------------------------------------------------
(***************************************************************************)
(* Closing: the destructor, when every guard has gone.  The pool's memory  *)
(* is given back at the end of FlushAllPages.                              *)
(***************************************************************************)
FetchHeaderToClose(h) ==
  /\ status = "running"
  /\ Idle
  /\ HeaderId \in live
  /\ FetchPage(h, HeaderId)
  /\ status' = "closing"
  /\ UNCHANGED <<next_page_id, live>>

\* Mutant: the counter is not saved.
SaveCountSkipped(h) ==
  /\ status = "closing"
  /\ Holds(h)
  /\ pages' = Unpinned(guards[h]).pages
  /\ replacer' = Unpinned(guards[h]).replacer
  /\ guards' = [guards EXCEPT ![h] = NoGuard]
  /\ status' = "flushing"
  /\ UNCHANGED <<page_table, free_list, next_page_id, disk, live>>

SaveCount(h) ==
  /\ status = "closing"
  /\ Holds(h)
  /\ LET u == Unpinned([guards[h] EXCEPT !.is_dirty = TRUE]) IN
       /\ pages' = [u.pages EXCEPT ![guards[h].page].data.allocate_cnt = next_page_id]
       /\ replacer' = u.replacer
  /\ guards' = [guards EXCEPT ![h] = NoGuard]
  /\ status' = "flushing"
  /\ UNCHANGED <<page_table, free_list, next_page_id, disk, live>>

Flushed == [p \in PageIds |->
              IF page_table[p] = NoFrame THEN disk[p] ELSE pages[page_table[p]].data]

FlushAllPages ==
  /\ status = "flushing"
  /\ disk' = Flushed
  /\ pages' = [f \in Frames |-> BlankPage]
  /\ page_table' = [p \in PageIds |-> NoFrame]
  /\ free_list' = Frames
  /\ replacer' = EmptyReplacer
  /\ guards' = [h \in Handles |-> NoGuard]
  /\ next_page_id' = 0
  /\ status' = "down"
  /\ UNCHANGED live

-----------------------------------------------------------------------------
Init ==
  /\ pages = [f \in Frames |-> BlankPage]
  /\ page_table = [p \in PageIds |-> NoFrame]
  /\ free_list = Frames
  /\ replacer = EmptyReplacer
  /\ next_page_id = 0
  /\ guards = [h \in Handles |-> NoGuard]
  /\ disk = [p \in PageIds |-> NoData]
  /\ live = {}
  /\ status = "down"

Next ==
  \/ Open
  \/ FlushAllPages
  \/ \E h \in Handles :
       \/ FetchHeader(h) \/ RestoreCount(h)
       \/ NewPage(h) \/ NewPageHangs(h)
       \/ Drop(h)
       \/ FetchHeaderToClose(h) \/ SaveCount(h)
       \/ \E k \in Handles : MoveAssign(h, k)
       \/ \E b \in Bodies : Write(h, b) \/ DropThenAppend(h, b)
       \/ \E p \in PageIds : Fetch(h, p) \/ FetchHangs(h, p)
  \/ \E p \in PageIds : DeletePage(p) \/ FlushPage(p)

Spec == Init /\ [][Next]_poolVars

-----------------------------------------------------------------------------
(***************************************************************************)
(* Safety.                                                                 *)
(***************************************************************************)
Resident(p) == page_table[p] # NoFrame

Holders(f) == {h \in Handles : guards[h].page = f}

\* page_table_, the page_id_ of each frame and free_list_ tell one story: a frame
\* is either free or holds the page that maps to it, never both, never neither,
\* so no frame leaks and no page sits in two frames.
FramesAccountedFor ==
  /\ \A p \in PageIds : Resident(p) => /\ page_table[p] \in Frames \ free_list
                                       /\ pages[page_table[p]].page_id = p
  /\ \A f \in Frames \ free_list : /\ pages[f].page_id \in PageIds
                                   /\ page_table[pages[f].page_id] = f

\* A frame's pin count is the number of guards on it: a moved guard is not
\* counted twice and a dropped one not at all.
PinsMatchGuards == \A f \in Frames : pages[f].pin_count = Cardinality(Holders(f))

\* However much the pool evicts and deletes while a guard is held, and however
\* often the guard is moved, the frame it points to holds the page it was given.
GuardsKeepTheirPage ==
  \A h \in Handles : Holds(h) => /\ guards[h].page \notin free_list
                                 /\ pages[guards[h].page].page_id = guards[h].held

\* The replacer offers exactly the frames nobody pins, and knows every frame in
\* use: Evict fails only when all are pinned, and DeletePage's Remove never
\* meets a frame it must throw for.
ReplacerAgrees ==
  /\ replacer.tracked = Frames \ free_list
  /\ replacer.evictable = {f \in Frames \ free_list : pages[f].pin_count = 0}
  /\ replacer.size = Cardinality(replacer.evictable)

\* Page table, frames, free list, pin counts, guards and replacer, each written in
\* another function, agree between any two operations.
BooksAgree == FramesAccountedFor /\ PinsMatchGuards /\ GuardsKeepTheirPage /\ ReplacerAgrees

\* A frame the pool would evict without writing back holds what the file holds,
\* unless a guard that will mark it dirty is still out: no write is lost, those
\* made through a pointer after its guard was dropped included.
CleanMeansOnDisk ==
  \A f \in Frames \ free_list :
    \/ pages[f].is_dirty
    \/ disk[pages[f].page_id] = pages[f].data
    \/ \E h \in Holders(f) : guards[h].is_dirty

\* FetchPage never reads past the end of the file, which would leave the stale
\* bytes of the frame's last page in place and poison the stream.
LivePagesStored == \A p \in live : Resident(p) \/ disk[p] # NoData

\* What has been written is in a frame that will be written back, or in the file.
NothingLost == CleanMeansOnDisk /\ LivePagesStored

\* A caller with no more guards than the pool has frames never spins.
NeverHung == status # "hung"

\* With more guards than frames it may, but only when all frames are pinned.
HangsOnlyWhenAllPinned ==
  status = "hung" => \A f \in Frames : Holders(f) # {}

(***************************************************************************)
(* The pool implements PageStore: what a client reads back is what it last *)
(* wrote, through evictions and restarts, and ids are never reused.        *)
(***************************************************************************)
Stored(p) == IF Resident(p) THEN pages[page_table[p]].data ELSE disk[p]

BodyOf(data) == IF data = NoData THEN NoData ELSE data.body

StoredContent == [p \in live |-> BodyOf(Stored(p))]

SavedCount == IF FirstVisit THEN 0 ELSE disk[HeaderId].allocate_cnt

Starting == status \in {"down", "opening", "restoring"}

Store == INSTANCE PageStore WITH
  content <- StoredContent,
  nextId  <- IF Starting THEN SavedCount ELSE next_page_id,
  up      <- ~Starting

PagesPersist == Store!StoreSpec
=============================================================================
