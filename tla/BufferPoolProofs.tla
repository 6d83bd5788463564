-------------------------- MODULE BufferPoolProofs --------------------------
(***************************************************************************)
(* Proofs about BufferPool, for any number of frames, guards, page         *)
(* contents and page ids.                                                  *)
(***************************************************************************)
EXTENDS BufferPool, FiniteSetTheorems, TLAPS

(***************************************************************************)
(* The replacer: what its operations do to a state whose counter is right,  *)
(* and the theorem that the counter is always right.                        *)
(***************************************************************************)

\* A replacer state whose counter is right.
Sound(r) ==
  /\ r \in ReplacerType
  /\ r.evictable \subseteq r.tracked
  /\ r.size = Cardinality(r.evictable)

\* Subsets of Frames are finite, so their cardinalities are numbers.
LEMMA FrameSetsFinite ==
  ASSUME NEW S \in SUBSET Frames
  PROVE  IsFiniteSet(S) /\ Cardinality(S) \in Nat
  BY FramesAssumption, FS_Subset, FS_CardinalityType

LEMMA EmptySound == Sound(EmptyReplacer)
  BY FS_EmptySet DEF Sound, EmptyReplacer, ReplacerType

LEMMA RecordAccessSound ==
  ASSUME NEW r, Sound(r), NEW f \in Frames
  PROVE  /\ Sound(RecordAccess(r, f))
         /\ RecordAccess(r, f).tracked = r.tracked \cup {f}
         /\ RecordAccess(r, f).evictable = r.evictable
  BY DEF Sound, RecordAccess, ReplacerType

\* One frame fewer to evict.
LEMMA OneFewer ==
  ASSUME NEW S \in SUBSET Frames, NEW f \in S
  PROVE  Cardinality(S \ {f}) = Cardinality(S) - 1 /\ Cardinality(S \ {f}) \in Nat
  BY FrameSetsFinite, FS_RemoveElement

LEMMA SetEvictableSound ==
  ASSUME NEW r, Sound(r), NEW f \in r.tracked, NEW flag \in BOOLEAN
  PROVE  LET s == SetEvictable(r, f, flag)
         IN /\ Sound(s)
            /\ s.tracked = r.tracked
            /\ s.evictable = IF flag THEN r.evictable \cup {f} ELSE r.evictable \ {f}
<1>1. CASE (f \in r.evictable) = flag
  BY <1>1 DEF SetEvictable, Sound, ReplacerType
<1>2. CASE flag /\ f \notin r.evictable
  <2>1. IsFiniteSet(r.evictable)
    BY FrameSetsFinite DEF Sound, ReplacerType
  <2>2. Cardinality(r.evictable \cup {f}) = r.size + 1
    BY <1>2, <2>1, FS_AddElement DEF Sound
  <2>3. SetEvictable(r, f, flag) =
          [r EXCEPT !.evictable = @ \cup {f}, !.size = @ + 1]
    BY <1>2 DEF SetEvictable
  <2>4. r \in ReplacerType /\ r.evictable \cup {f} \in SUBSET Frames /\ r.size + 1 \in Nat
    BY DEF Sound, ReplacerType
  <2> QED
    BY <1>2, <2>2, <2>3, <2>4 DEF Sound, ReplacerType
<1>3. CASE ~flag /\ f \in r.evictable
  <2>1. Cardinality(r.evictable \ {f}) = r.size - 1 /\ r.size - 1 \in Nat
    BY <1>3, OneFewer DEF Sound, ReplacerType
  <2> QED
    BY <1>3, <2>1 DEF SetEvictable, Sound, ReplacerType
<1> QED
  BY <1>1, <1>2, <1>3

LEMMA ForgetSound ==
  ASSUME NEW r, Sound(r), NEW f \in r.evictable
  PROVE  /\ Sound(Forget(r, f))
         /\ Forget(r, f).tracked = r.tracked \ {f}
         /\ Forget(r, f).evictable = r.evictable \ {f}
<1>1. Cardinality(r.evictable \ {f}) = r.size - 1 /\ r.size - 1 \in Nat
  BY OneFewer DEF Sound, ReplacerType
<1> QED
  BY <1>1 DEF Forget, Sound, ReplacerType

-----------------------------------------------------------------------------
\* Evict finds a victim exactly when a frame is evictable, for any pool size
\* and any sequence of calls: curr_size_ counts the evictable nodes.
THEOREM CounterCorrect == ReplacerSpec => []SizeCountsEvictable
<1> DEFINE Inv == Sound(replacer)
<1>1. ReplacerInit => Inv
  BY EmptySound DEF ReplacerInit
<1>2. Inv /\ [ReplacerNext]_replacer => Inv'
  <2> SUFFICES ASSUME Inv, ReplacerNext PROVE Inv'
    OBVIOUS
  <2> PICK f \in Frames :
           \/ AccessFrame(f)
           \/ \E evictable \in BOOLEAN : FlagFrame(f, evictable)
           \/ EvictFrame(f)
           \/ RemoveFrame(f)
    BY DEF ReplacerNext
  <2>1. CASE AccessFrame(f)
    BY <2>1, RecordAccessSound DEF AccessFrame
  <2>2. CASE \E evictable \in BOOLEAN : FlagFrame(f, evictable)
    <3> PICK evictable \in BOOLEAN : FlagFrame(f, evictable)
      BY <2>2
    <3>1. CASE f \in replacer.tracked
      BY <3>1, SetEvictableSound DEF FlagFrame
    <3>2. CASE f \notin replacer.tracked
      BY <3>2 DEF FlagFrame, SetEvictable
    <3> QED
      BY <3>1, <3>2
  <2>3. CASE EvictFrame(f)
    BY <2>3, ForgetSound DEF EvictFrame, Victims
  <2>4. CASE RemoveFrame(f)
    BY <2>4, ForgetSound DEF RemoveFrame, Remove
  <2> QED
    BY <2>1, <2>2, <2>3, <2>4
<1>3. Inv => SizeCountsEvictable
  BY DEF Sound, SizeCountsEvictable
<1> QED
  BY <1>1, <1>2, <1>3, PTL DEF ReplacerSpec

-----------------------------------------------------------------------------
(***************************************************************************)
(* The inductive invariant.  Pool gathers the parts that speak of frames,  *)
(* table, free list, replacer and guards, which every operation changes    *)
(* together.                                                               *)
(***************************************************************************)
PoolTyped ==
  /\ pages \in [Frames -> Page]
  /\ page_table \in [PageIds -> Frames \cup {NoFrame}]
  /\ free_list \in SUBSET Frames
  /\ guards \in [Handles -> Guard]
  /\ disk \in [PageIds -> Data \cup {NoData}]

ReplacerSound ==
  /\ Sound(replacer)
  /\ replacer.tracked = Frames \ free_list
  /\ replacer.evictable = {f \in Frames \ free_list : pages[f].pin_count = 0}

Pool ==
  /\ PoolTyped
  /\ FramesAccountedFor
  /\ PinsMatchGuards
  /\ GuardsKeepTheirPage
  /\ ReplacerSound
  /\ CleanMeansOnDisk

ResidentAreLive == \A p \in PageIds : Resident(p) => p \in live

\* The id the next NewPage would take, were the process to come up.
NextId == IF Starting THEN SavedCount ELSE next_page_id

LiveIdsUsed == \A p \in live : p < NextId

\* The client makes the header page before it makes anything else.
HeaderFirst ==
  \/ HeaderId \in live
  \/ live = {} /\ FirstVisit /\ next_page_id = 0 /\ status \in {"down", "running"}
  \/ status = "hung"

\* What opening and closing a pool go through.
Phase ==
  /\ status \in {"down", "opening"} => Idle /\ \A p \in PageIds : ~Resident(p)
  /\ status = "opening" => HeaderId \in live
  /\ status \in {"restoring", "closing"} =>
       \A h \in Handles : Holds(h) =>
         /\ guards[h].held = HeaderId
         /\ status = "restoring" => pages[guards[h].page].data = disk[HeaderId]
         /\ \A k \in Handles : Holds(k) => k = h
  /\ status = "flushing" => Idle /\ Resident(HeaderId) /\ Stored(HeaderId).allocate_cnt = next_page_id

Typed ==
  /\ next_page_id \in 0 .. MaxPageId + 1
  /\ live \in SUBSET PageIds
  /\ status \in Status

IInv ==
  /\ Pool
  /\ Typed
  /\ ResidentAreLive
  /\ LivePagesStored
  /\ LiveIdsUsed
  /\ HeaderFirst
  /\ Phase
  /\ HangsOnlyWhenAllPinned

-----------------------------------------------------------------------------
(***************************************************************************)
(* Counting guards.                                                        *)
(***************************************************************************)
LEMMA HandleSetsFinite ==
  ASSUME NEW S \in SUBSET Handles
  PROVE  /\ IsFiniteSet(S)
         /\ Cardinality(S) \in Nat
         /\ Cardinality(S) = 0 <=> S = {}
  BY PoolAssumption, FS_Subset, FS_CardinalityType, FS_EmptySet

LEMMA OneMoreHolder ==
  ASSUME NEW S \in SUBSET Handles, NEW h \in Handles, h \notin S
  PROVE  Cardinality(S \cup {h}) = Cardinality(S) + 1
  BY HandleSetsFinite, FS_AddElement

LEMMA OneHolderLess ==
  ASSUME NEW S \in SUBSET Handles, NEW h \in S
  PROVE  Cardinality(S \ {h}) = Cardinality(S) - 1
  BY HandleSetsFinite, FS_RemoveElement

\* A guard that takes over another's page leaves the count alone.
LEMMA HolderReplaced ==
  ASSUME NEW S \in SUBSET Handles, NEW h \in Handles, NEW k \in S, h \notin S
  PROVE  Cardinality((S \ {k}) \cup {h}) = Cardinality(S)
<1>1. Cardinality(S \ {k}) = Cardinality(S) - 1
  BY OneHolderLess
<1>2. Cardinality((S \ {k}) \cup {h}) = Cardinality(S \ {k}) + 1
  BY OneMoreHolder
<1> QED
  BY <1>1, <1>2, HandleSetsFinite

\* The pages of an unpinned frame have no holder, those of a pinned frame some.
LEMMA PinnedMeansHeld ==
  ASSUME PoolTyped, PinsMatchGuards, NEW f \in Frames
  PROVE  /\ pages[f].pin_count \in Nat
         /\ pages[f].pin_count = 0 <=> Holders(f) = {}
<1>1. Holders(f) \in SUBSET Handles
  BY DEF Holders
<1> QED
  BY <1>1, HandleSetsFinite DEF PinsMatchGuards

-----------------------------------------------------------------------------
(***************************************************************************)
(* A page enters a frame.  The two ways to get the frame, from the free    *)
(* list and by eviction, differ only in what the frame held before; both   *)
(* leave every other page with the content it had.                         *)
(***************************************************************************)

\* The pages the file or a frame holds.
Reachable(p) == Resident(p) \/ disk[p] # NoData

TakeFrame(h, p, f, data, dirty) ==
  TakeFree(h, p, f, data, dirty) \/ TakeVictim(h, p, f, data, dirty)

LEMMA TakeFrameInstalls ==
  ASSUME Pool, NEW h \in Handles, NEW p \in PageIds, NEW f \in Frames,
         NEW data \in Data, NEW dirty \in BOOLEAN,
         TakeFrame(h, p, f, data, dirty)
  PROVE  /\ free_list' = free_list \ {f}
         /\ pages' = [pages EXCEPT ![f] =
                        [page_id |-> p, pin_count |-> 1, is_dirty |-> FALSE, data |-> data]]
         /\ guards' = [guards EXCEPT ![h] = [page |-> f, is_dirty |-> dirty, held |-> p]]
         /\ Holders(f) = {}
<1>1. CASE TakeFree(h, p, f, data, dirty)
  BY <1>1, PoolAssumption
  DEF TakeFree, Install, Pool, PoolTyped, GuardsKeepTheirPage, Holders, Holds
<1>2. CASE TakeVictim(h, p, f, data, dirty)
  <2>1. f \in replacer.evictable
    BY <1>2 DEF TakeVictim, Victims
  <2>2. Holders(f) = {}
    BY <2>1, PinnedMeansHeld DEF Pool, ReplacerSound
  <2> QED
    BY <1>2, <2>2 DEF TakeVictim, Install
<1> QED
  BY <1>1, <1>2 DEF TakeFrame

LEMMA TakeFrameTable ==
  ASSUME Pool, NEW h \in Handles, NEW p \in PageIds, ~Resident(p), NEW f \in Frames,
         NEW data \in Data, NEW dirty \in BOOLEAN,
         TakeFrame(h, p, f, data, dirty)
  PROVE  /\ page_table' \in [PageIds -> Frames \cup {NoFrame}]
         /\ page_table'[p] = f
         /\ \A q \in PageIds \ {p} :
              page_table'[q] = IF page_table[q] = f THEN NoFrame ELSE page_table[q]
<1> USE DEF Pool, PoolTyped
<1>1. CASE TakeFree(h, p, f, data, dirty)
  BY <1>1, PoolAssumption DEF TakeFree, Install, FramesAccountedFor, Resident
<1>2. CASE TakeVictim(h, p, f, data, dirty)
  <2>1. f \in Frames \ free_list
    BY <1>2 DEF TakeVictim
  <2>2. /\ page_table[pages[f].page_id] = f
        /\ pages[f].page_id \in PageIds
        /\ \A q \in PageIds : page_table[q] = f => q = pages[f].page_id
    BY <2>1, PoolAssumption DEF FramesAccountedFor, Resident
  <2>3. page_table' = [[page_table EXCEPT ![pages[f].page_id] = NoFrame] EXCEPT ![p] = f]
    BY <1>2 DEF TakeVictim, Install
  <2> QED
    BY <2>2, <2>3
<1> QED
  BY <1>1, <1>2 DEF TakeFrame

LEMMA TakeFrameReplacer ==
  ASSUME Pool, NEW h \in Handles, NEW p \in PageIds, NEW f \in Frames,
         NEW data \in Data, NEW dirty \in BOOLEAN,
         TakeFrame(h, p, f, data, dirty)
  PROVE  ReplacerSound'
<1> USE DEF Pool
<1>1. PICK r : /\ Sound(r)
               /\ r.tracked = replacer.tracked \ {f}
               /\ r.evictable = replacer.evictable \ {f}
               /\ replacer' = SetEvictable(RecordAccess(r, f), f, FALSE)
  <2>1. CASE TakeFree(h, p, f, data, dirty)
    <3>1. f \notin replacer.tracked /\ f \notin replacer.evictable
      BY <2>1 DEF TakeFree, ReplacerSound
    <3>2. replacer.tracked \ {f} = replacer.tracked /\ replacer.evictable \ {f} = replacer.evictable
      BY <3>1
    <3> QED
      BY <2>1, <3>2 DEF TakeFree, Install, ReplacerSound
  <2>2. CASE TakeVictim(h, p, f, data, dirty)
    BY <2>2, ForgetSound DEF TakeVictim, Victims, Install, ReplacerSound
  <2> QED
    BY <2>1, <2>2 DEF TakeFrame
<1> DEFINE r1 == RecordAccess(r, f)
<1>2. Sound(r1) /\ r1.tracked = r.tracked \cup {f} /\ r1.evictable = r.evictable
  BY <1>1, RecordAccessSound
<1>3. /\ Sound(replacer')
      /\ replacer'.tracked = r1.tracked
      /\ replacer'.evictable = r1.evictable \ {f}
  <2> HIDE DEF r1
  <2>1. Sound(r1) /\ f \in r1.tracked
    BY <1>2
  <2>2. replacer' = SetEvictable(r1, f, FALSE)
    BY <1>1 DEF r1
  <2> QED
    BY <2>1, <2>2, SetEvictableSound
<1>4. /\ free_list' = free_list \ {f}
      /\ pages'[f].pin_count = 1
      /\ \A g \in Frames \ {f} : pages'[g] = pages[g]
  BY TakeFrameInstalls DEF PoolTyped
<1> QED
  BY <1>1, <1>2, <1>3, <1>4 DEF ReplacerSound, PoolTyped

\* The file: a victim's page is on it, whether it was written back now or before.
LEMMA TakeFrameDisk ==
  ASSUME Pool, NEW h \in Handles, NEW p \in PageIds, ~Resident(p), NEW f \in Frames,
         NEW data \in Data, NEW dirty \in BOOLEAN,
         TakeFrame(h, p, f, data, dirty)
  PROVE  /\ disk' \in [PageIds -> Data \cup {NoData}]
         /\ \A q \in PageIds : page_table[q] # f => disk'[q] = disk[q]
         /\ \A q \in PageIds : page_table[q] = f => disk'[q] = pages[f].data
<1> USE DEF Pool, PoolTyped
<1>1. CASE TakeFree(h, p, f, data, dirty)
  BY <1>1, PoolAssumption DEF TakeFree, FramesAccountedFor, Resident
<1>2. CASE TakeVictim(h, p, f, data, dirty)
  <2>1. f \in Frames \ free_list /\ disk' = WrittenBack(f)
    BY <1>2 DEF TakeVictim
  <2>2. /\ page_table[pages[f].page_id] = f
        /\ pages[f].page_id \in PageIds
        /\ pages[f].data \in Data
        /\ \A q \in PageIds : page_table[q] = f => q = pages[f].page_id
    BY <2>1, PoolAssumption DEF FramesAccountedFor, Resident, Page
  <2>3. CASE pages[f].is_dirty
    BY <2>1, <2>2, <2>3 DEF WrittenBack, WritePage
  <2>4. CASE ~pages[f].is_dirty
    <3>1. Holders(f) = {}
      BY TakeFrameInstalls
    <3>2. disk[pages[f].page_id] = pages[f].data
      BY <2>1, <2>4, <3>1 DEF CleanMeansOnDisk
    <3> QED
      BY <2>1, <2>2, <2>4, <3>2 DEF WrittenBack
  <2> QED
    BY <2>3, <2>4
<1> QED
  BY <1>1, <1>2 DEF TakeFrame

\* No other page notices.
LEMMA TakeFrameKeeps ==
  ASSUME Pool, NEW h \in Handles, NEW p \in PageIds, ~Resident(p), NEW f \in Frames,
         NEW data \in Data, NEW dirty \in BOOLEAN,
         TakeFrame(h, p, f, data, dirty)
  PROVE  /\ \A q \in PageIds \ {p} : Stored(q)' = Stored(q) /\ (Reachable(q) => Reachable(q)')
         /\ Resident(p)' /\ Stored(p)' = data
<1>1. \A q \in PageIds \ {p} :
        page_table'[q] = IF page_table[q] = f THEN NoFrame ELSE page_table[q]
  BY TakeFrameTable
<1>2. page_table'[p] = f
  BY TakeFrameTable
<1>3. /\ \A q \in PageIds : page_table[q] # f => disk'[q] = disk[q]
      /\ \A q \in PageIds : page_table[q] = f => disk'[q] = pages[f].data
  BY TakeFrameDisk
<1>4. pages'[f].data = data /\ \A g \in Frames \ {f} : pages'[g] = pages[g]
  BY TakeFrameInstalls DEF Pool, PoolTyped
<1>5. pages[f].data # NoData
  BY DataAssumption DEF Pool, PoolTyped, Page
<1> QED
  BY <1>1, <1>2, <1>3, <1>4, <1>5, PoolAssumption
  DEF Pool, PoolTyped, Stored, Resident, Reachable

LEMMA TakeFramePool ==
  ASSUME Pool, NEW h \in Handles, ~Holds(h), NEW p \in PageIds, ~Resident(p),
         NEW f \in Frames, NEW data \in Data, NEW dirty \in BOOLEAN,
         TakeFrame(h, p, f, data, dirty),
         dirty \/ disk'[p] = data
  PROVE  Pool'
<1> USE DEF Pool
<1>1. /\ free_list' = free_list \ {f}
      /\ pages' = [pages EXCEPT ![f] =
                     [page_id |-> p, pin_count |-> 1, is_dirty |-> FALSE, data |-> data]]
      /\ guards' = [guards EXCEPT ![h] = [page |-> f, is_dirty |-> dirty, held |-> p]]
      /\ Holders(f) = {}
  BY TakeFrameInstalls
<1>2. /\ page_table' \in [PageIds -> Frames \cup {NoFrame}]
      /\ page_table'[p] = f
      /\ \A q \in PageIds \ {p} :
           page_table'[q] = IF page_table[q] = f THEN NoFrame ELSE page_table[q]
  BY TakeFrameTable
<1>3. /\ disk' \in [PageIds -> Data \cup {NoData}]
      /\ \A q \in PageIds : page_table[q] # f => disk'[q] = disk[q]
  BY TakeFrameDisk
<1>4. PoolTyped'
  BY <1>1, <1>2, <1>3 DEF PoolTyped, Page, Guard
<1>5. FramesAccountedFor'
  BY <1>1, <1>2, PoolAssumption DEF PoolTyped, FramesAccountedFor, Resident, Page
<1>6. \A g \in Frames \ {f} : Holders(g)' = Holders(g) /\ \A k \in Holders(g) : guards'[k] = guards[k]
  BY <1>1, PoolAssumption DEF Holders, Holds, PoolTyped
<1>7. GuardsKeepTheirPage'
  BY <1>1 DEF PoolTyped, GuardsKeepTheirPage, Holds, Holders, Page, Guard
<1>8. PinsMatchGuards'
  <2> SUFFICES ASSUME NEW g \in Frames
               PROVE  pages'[g].pin_count = Cardinality(Holders(g)')
    BY DEF PinsMatchGuards
  <2>1. CASE g = f
    <3>1. Holders(g)' = {h}
      BY <2>1, <1>1 DEF Holders, PoolTyped
    <3>2. Cardinality({h}) = 1
      BY FS_Singleton
    <3> QED
      BY <2>1, <1>1, <3>1, <3>2 DEF PoolTyped
  <2>2. CASE g # f
    BY <2>2, <1>1, <1>6 DEF PinsMatchGuards, PoolTyped
  <2> QED
    BY <2>1, <2>2
<1>9. ReplacerSound'
  BY TakeFrameReplacer
<1>10. CleanMeansOnDisk'
  <2> SUFFICES ASSUME NEW g \in (Frames \ free_list)'
               PROVE  \/ pages'[g].is_dirty
                      \/ disk'[pages'[g].page_id] = pages'[g].data
                      \/ \E k \in Holders(g)' : guards'[k].is_dirty
    BY DEF CleanMeansOnDisk
  <2>1. CASE g = f
    BY <2>1, <1>1 DEF PoolTyped, Holders
  <2>2. CASE g # f
    <3>1. g \in Frames \ free_list /\ pages'[g] = pages[g]
      BY <2>2, <1>1 DEF PoolTyped
    <3>2. pages[g].page_id \in PageIds /\ page_table[pages[g].page_id] = g
      BY <3>1 DEF FramesAccountedFor
    <3>3. disk'[pages[g].page_id] = disk[pages[g].page_id]
      BY <2>2, <3>2, <1>3
    <3> QED
      BY <2>2, <1>6, <3>1, <3>3 DEF CleanMeansOnDisk
  <2> QED
    BY <2>1, <2>2
<1> QED
  BY <1>4, <1>5, <1>7, <1>8, <1>9, <1>10

\* A second guard on a page that is in a frame.
LEMMA FetchHitPool ==
  ASSUME Pool, NEW h \in Handles, ~Holds(h), NEW p \in PageIds, FetchHit(h, p)
  PROVE  /\ Pool'
         /\ \A q \in PageIds : Stored(q)' = Stored(q) /\ (Reachable(q) => Reachable(q)')
         /\ guards' = [guards EXCEPT ![h] = [page |-> page_table[p], is_dirty |-> FALSE, held |-> p]]
<1> USE DEF Pool
<1> DEFINE f == page_table[p]
<1>1. /\ Resident(p)
      /\ pages' = [pages EXCEPT ![f].pin_count = @ + 1]
      /\ guards' = [guards EXCEPT ![h] = [page |-> f, is_dirty |-> FALSE, held |-> p]]
      /\ replacer' = RecordAccess(SetEvictable(replacer, f, FALSE), f)
      /\ page_table' = page_table /\ free_list' = free_list /\ disk' = disk
  BY DEF FetchHit, Resident
<1>2. f \in Frames \ free_list /\ pages[f].page_id = p
  BY <1>1 DEF FramesAccountedFor
<1> HIDE DEF f
<1>3. /\ pages'[f] = [pages[f] EXCEPT !.pin_count = @ + 1]
      /\ \A g \in Frames \ {f} : pages'[g] = pages[g]
  BY <1>1, <1>2 DEF PoolTyped
<1>4. PoolTyped'
  BY <1>1, <1>2, <1>3 DEF PoolTyped, Page, Guard
<1>5. FramesAccountedFor'
  BY <1>1, <1>2, <1>3 DEF PoolTyped, FramesAccountedFor, Resident, Page
<1>6. GuardsKeepTheirPage'
  BY <1>1, <1>2, <1>3 DEF PoolTyped, GuardsKeepTheirPage, Holds, Page, Guard
<1>7. \A g \in Frames : /\ Holders(g)' = IF g = f THEN Holders(g) \cup {h} ELSE Holders(g)
                        /\ h \notin Holders(g)
                        /\ Holders(g) \in SUBSET Handles
                        /\ \A k \in Holders(g) : guards'[k] = guards[k]
  BY <1>1, PoolAssumption DEF Holders, Holds, PoolTyped
<1>8. PinsMatchGuards'
  <2> SUFFICES ASSUME NEW g \in Frames
               PROVE  pages'[g].pin_count = Cardinality(Holders(g)')
    BY DEF PinsMatchGuards
  <2>1. CASE g = f
    <3>1. Cardinality(Holders(g)') = Cardinality(Holders(g)) + 1
      BY <2>1, <1>7, OneMoreHolder
    <3> QED
      BY <2>1, <3>1, <1>3 DEF PinsMatchGuards, PoolTyped, Page
  <2>2. CASE g # f
    BY <2>2, <1>7, <1>3 DEF PinsMatchGuards
  <2> QED
    BY <2>1, <2>2
<1>9. ReplacerSound'
  <2> DEFINE r1 == SetEvictable(replacer, f, FALSE)
  <2>1. Sound(r1) /\ r1.tracked = replacer.tracked /\ r1.evictable = replacer.evictable \ {f}
    BY <1>2, SetEvictableSound DEF ReplacerSound
  <2> HIDE DEF r1
  <2>2. /\ Sound(replacer')
        /\ replacer'.tracked = r1.tracked \cup {f}
        /\ replacer'.evictable = r1.evictable
    <3>1. replacer' = RecordAccess(r1, f)
      BY <1>1 DEF r1
    <3> QED
      BY <3>1, <2>1, <1>2, RecordAccessSound
  <2>3. pages'[f].pin_count # 0
    BY <1>2, <1>3 DEF PoolTyped, Page
  <2> QED
    BY <2>1, <2>2, <2>3, <1>1, <1>2, <1>3 DEF ReplacerSound, PoolTyped
<1>10. CleanMeansOnDisk'
  <2> SUFFICES ASSUME NEW g \in Frames \ free_list
               PROVE  \/ pages'[g].is_dirty
                      \/ disk[pages'[g].page_id] = pages'[g].data
                      \/ \E k \in Holders(g)' : guards'[k].is_dirty
    BY <1>1 DEF CleanMeansOnDisk
  <2>1. /\ pages'[g].is_dirty = pages[g].is_dirty
        /\ pages'[g].page_id = pages[g].page_id
        /\ pages'[g].data = pages[g].data
    BY <1>3 DEF PoolTyped, Page
  <2> QED
    BY <2>1, <1>7 DEF CleanMeansOnDisk
<1>11. \A q \in PageIds : Stored(q)' = Stored(q) /\ (Reachable(q) => Reachable(q)')
  BY <1>1, <1>2, <1>3 DEF Stored, Resident, Reachable, PoolTyped, Page
<1> QED
  BY <1>1, <1>4, <1>5, <1>6, <1>8, <1>9, <1>10, <1>11 DEF f

-----------------------------------------------------------------------------
(***************************************************************************)
(* A guard goes.                                                           *)
(***************************************************************************)

\* The frame of a held guard.
LEMMA HeldFrame ==
  ASSUME Pool, NEW h \in Handles, Holds(h)
  PROVE  /\ guards[h].page \in Frames \ free_list
         /\ pages[guards[h].page].page_id = guards[h].held
         /\ guards[h].held \in PageIds
         /\ page_table[guards[h].held] = guards[h].page
         /\ pages[guards[h].page].pin_count \in Nat \ {0}
         /\ h \in Holders(guards[h].page)
<1>1. guards[h].page \in Frames \ free_list /\ h \in Holders(guards[h].page)
  BY DEF Pool, PoolTyped, Guard, Holds, GuardsKeepTheirPage, Holders
<1>2. pages[guards[h].page].pin_count \in Nat \ {0}
  BY <1>1, PinnedMeansHeld DEF Pool
<1> QED
  BY <1>1, <1>2 DEF Pool, GuardsKeepTheirPage, FramesAccountedFor

\* One pin less on frame f, which may take a dirty bit, and the replacer told.
Released(f, dirty, pgs, rep) ==
  /\ pgs \in [Frames -> Page]
  /\ pgs[f].page_id = pages[f].page_id
  /\ pgs[f].pin_count = pages[f].pin_count - 1
  /\ pgs[f].is_dirty = (pages[f].is_dirty \/ dirty)
  /\ \A g \in Frames \ {f} : pgs[g] = pages[g]
  /\ Sound(rep)
  /\ rep.tracked = replacer.tracked
  /\ rep.evictable = IF pages[f].pin_count = 1 THEN replacer.evictable \cup {f} ELSE replacer.evictable

LEMMA UnpinnedReleases ==
  ASSUME Pool, NEW h \in Handles, Holds(h),
         NEW g \in Guard, g.page = guards[h].page
  PROVE  /\ Released(g.page, g.is_dirty, Unpinned(g).pages, Unpinned(g).replacer)
         /\ Unpinned(g).pages[g.page].data = pages[g.page].data
<1> DEFINE f == guards[h].page
           new == OnePinLess(pages[f], g.is_dirty)
<1>1. /\ f \in Frames \ free_list
      /\ page_table[pages[f].page_id] = f
      /\ pages[f].pin_count \in Nat \ {0}
      /\ pages \in [Frames -> Page]
      /\ g.is_dirty \in BOOLEAN
      /\ g.page = f
  BY HeldFrame DEF Pool, PoolTyped, Guard
<1>2. f # NoFrame /\ ~(pages[f].pin_count <= 0)
  BY <1>1, PoolAssumption
<1>3. /\ new \in Page
      /\ new.page_id = pages[f].page_id
      /\ new.pin_count = pages[f].pin_count - 1
      /\ new.is_dirty = (pages[f].is_dirty \/ g.is_dirty)
      /\ new.data = pages[f].data
  <2>1. pages[f] \in Page
    BY <1>1
  <2> QED
    BY <1>1, <2>1 DEF Page, OnePinLess
<1> HIDE DEF f, new
<1>4. Unpinned(g) =
        [pages    |-> [pages EXCEPT ![f] = new],
         replacer |-> IF pages[f].pin_count = 1 THEN SetEvictable(replacer, f, TRUE) ELSE replacer]
  BY <1>1, <1>2 DEF Unpinned, new
<1>5. LET r == Unpinned(g).replacer
      IN /\ Sound(r)
         /\ r.tracked = replacer.tracked
         /\ r.evictable = IF pages[f].pin_count = 1 THEN replacer.evictable \cup {f} ELSE replacer.evictable
  <2>1. Sound(replacer) /\ f \in replacer.tracked
    BY <1>1 DEF Pool, ReplacerSound
  <2>2. /\ Sound(SetEvictable(replacer, f, TRUE))
        /\ SetEvictable(replacer, f, TRUE).tracked = replacer.tracked
        /\ SetEvictable(replacer, f, TRUE).evictable = replacer.evictable \cup {f}
    BY <2>1, SetEvictableSound
  <2>3. CASE pages[f].pin_count = 1
    <3>1. Unpinned(g).replacer = SetEvictable(replacer, f, TRUE)
      BY <2>3, <1>4
    <3> QED
      BY <2>2, <2>3, <3>1
  <2>4. CASE pages[f].pin_count # 1
    <3>1. Unpinned(g).replacer = replacer
      BY <2>4, <1>4
    <3> QED
      BY <2>1, <2>4, <3>1
  <2> QED
    BY <2>3, <2>4
<1>6. Unpinned(g).pages = [pages EXCEPT ![f] = new]
  BY <1>4
<1> QED
  BY <1>1, <1>3, <1>5, <1>6 DEF Released

\* The frames stay accounted for, and the replacer agrees.
LEMMA ReleasedAccounted ==
  ASSUME Pool, NEW h \in Handles, Holds(h), NEW dirty \in BOOLEAN,
         Released(guards[h].page, dirty, pages', replacer'),
         UNCHANGED <<page_table, free_list>>
  PROVE  FramesAccountedFor' /\ ReplacerSound'
<1> DEFINE f == guards[h].page
<1>1. f \in Frames \ free_list /\ pages[f].pin_count \in Nat \ {0}
  BY HeldFrame
<1> HIDE DEF f
<1>2. Released(f, dirty, pages', replacer')
  BY DEF f
<1>3. FramesAccountedFor'
  BY <1>1, <1>2 DEF Released, Pool, FramesAccountedFor, Resident
<1>4. ReplacerSound'
  <2>1. pages'[f].pin_count = 0 <=> pages[f].pin_count = 1
    BY <1>1, <1>2 DEF Released
  <2> QED
    BY <1>1, <1>2, <2>1 DEF Released, Pool, ReplacerSound
<1> QED
  BY <1>3, <1>4

\* Nothing else moves: what a page holds changes only for the page let go.
LEMMA ReleasedKeeps ==
  ASSUME Pool, NEW h \in Handles, Holds(h), NEW dirty \in BOOLEAN,
         Released(guards[h].page, dirty, pages', replacer'),
         UNCHANGED <<page_table, disk>>
  PROVE  /\ \A q \in PageIds : Reachable(q) => Reachable(q)'
         /\ \A q \in PageIds :
              Stored(q)' = IF q = guards[h].held THEN pages'[guards[h].page].data ELSE Stored(q)
         /\ Stored(guards[h].held) = pages[guards[h].page].data
<1>1. /\ guards[h].page \in Frames
      /\ guards[h].held \in PageIds
      /\ page_table[guards[h].held] = guards[h].page
      /\ \A q \in PageIds : page_table[q] = guards[h].page => q = guards[h].held
  BY HeldFrame, PoolAssumption DEF Pool, FramesAccountedFor, Resident
<1>2. \A g \in Frames \ {guards[h].page} : pages'[g] = pages[g]
  BY DEF Released
<1>3. page_table' = page_table /\ disk' = disk
  OBVIOUS
<1>4. \A q \in PageIds : Reachable(q) => Reachable(q)'
  BY <1>3 DEF Reachable, Resident
<1>5. ASSUME NEW q \in PageIds, q = guards[h].held PROVE Stored(q)' = pages'[guards[h].page].data
  BY <1>1, <1>3, <1>5, PoolAssumption DEF Stored, Resident
<1>6. Stored(guards[h].held) = pages[guards[h].page].data
  BY <1>1, PoolAssumption DEF Stored, Resident
<1>7. ASSUME NEW q \in PageIds \ {guards[h].held} PROVE Stored(q)' = Stored(q)
  <2>1. page_table[q] # guards[h].page /\ page_table[q] \in Frames \cup {NoFrame}
    BY <1>1 DEF Pool, PoolTyped
  <2> QED
    BY <2>1, <1>2, <1>3 DEF Stored, Resident
<1> QED
  BY <1>4, <1>5, <1>6, <1>7

LEMMA ReleasePool ==
  ASSUME Pool, NEW h \in Handles, Holds(h), NEW dirty \in BOOLEAN,
         guards[h].is_dirty => dirty,
         Released(guards[h].page, dirty, pages', replacer'),
         dirty \/ pages'[guards[h].page].data = pages[guards[h].page].data,
         UNCHANGED <<page_table, free_list, disk>>,
         guards' \in [Handles -> Guard],
         ~Holds(h)',
         \A k \in Handles \ {h} : IF Holds(k) THEN guards'[k] = guards[k] ELSE ~Holds(k)'
  PROVE  Pool'
<1> DEFINE f == guards[h].page
<1>1. f \in Frames \ free_list /\ h \in Holders(f)
  BY HeldFrame
<1>2. FramesAccountedFor' /\ ReplacerSound'
  BY ReleasedAccounted
<1>3. PoolTyped'
  BY DEF Pool, PoolTyped, Released
<1> HIDE DEF f
<1>4. Released(f, dirty, pages', replacer') /\ dirty \in BOOLEAN
  BY DEF f
<1>5. GuardsKeepTheirPage'
  BY <1>1, <1>4 DEF GuardsKeepTheirPage, Holds, Pool, PoolTyped, Released, Guard
<1>6. \A g \in Frames : /\ Holders(g) \in SUBSET Handles
                        /\ Holders(g)' = IF g = f THEN Holders(g) \ {h} ELSE Holders(g)
                        /\ \A k \in Holders(g) \ {h} : guards'[k] = guards[k]
  BY <1>1, PoolAssumption DEF Holders, Holds, f, Pool, PoolTyped
<1>7. PinsMatchGuards'
  <2> SUFFICES ASSUME NEW g \in Frames
               PROVE  pages'[g].pin_count = Cardinality(Holders(g)')
    BY DEF PinsMatchGuards
  <2>1. CASE g = f
    BY <2>1, <1>1, <1>4, <1>6, OneHolderLess DEF Pool, PinsMatchGuards, Released
  <2>2. CASE g # f
    BY <2>2, <1>1, <1>4, <1>6 DEF Pool, PinsMatchGuards, Released
  <2> QED
    BY <2>1, <2>2
<1>8. CleanMeansOnDisk'
  <2> SUFFICES ASSUME NEW g \in Frames \ free_list, ~pages'[g].is_dirty
               PROVE  \/ disk[pages'[g].page_id] = pages'[g].data
                      \/ \E k \in Holders(g)' : guards'[k].is_dirty
    BY DEF CleanMeansOnDisk
  <2>1. CASE g = f
    <3>1. ~dirty /\ ~pages[f].is_dirty /\ pages'[f].data = pages[f].data /\ ~guards[h].is_dirty
      BY <2>1, <1>4 DEF Released, f
    <3>2. pages'[f].page_id = pages[f].page_id
      BY <1>4 DEF Released
    <3>3. \/ disk[pages[f].page_id] = pages[f].data
          \/ \E k \in Holders(f) : guards[k].is_dirty
      BY <1>1, <3>1 DEF Pool, CleanMeansOnDisk
    <3> QED
      BY <2>1, <3>1, <3>2, <3>3, <1>1, <1>6
  <2>2. CASE g # f
    <3>1. pages'[g] = pages[g] /\ h \notin Holders(g)
      BY <2>2, <1>4 DEF Released, Holders, f
    <3> QED
      BY <2>2, <3>1, <1>6 DEF Pool, CleanMeansOnDisk
  <2> QED
    BY <2>1, <2>2
<1> QED
  BY <1>2, <1>3, <1>5, <1>7, <1>8 DEF Pool

\* Guard h takes over what k holds, having let go of its own page if it had one.
LEMMA MovePool ==
  ASSUME Pool, NEW h \in Handles, NEW k \in Handles, h # k, Holds(k),
         IF Holds(h) THEN Released(guards[h].page, guards[h].is_dirty, pages', replacer')
                     ELSE pages' = pages /\ replacer' = replacer,
         Holds(h) => pages'[guards[h].page].data = pages[guards[h].page].data,
         UNCHANGED <<page_table, free_list, disk>>,
         guards' = [guards EXCEPT ![h] = guards[k], ![k].page = NoFrame, ![k].held = NoPage]
  PROVE  Pool'
<1>1. guards \in [Handles -> Guard] /\ pages \in [Frames -> Page]
  BY DEF Pool, PoolTyped
<1>2. /\ guards' \in [Handles -> Guard]
      /\ guards'[h] = guards[k]
      /\ guards'[k].page = NoFrame
      /\ \A j \in Handles \ {h, k} : guards'[j] = guards[j]
  BY <1>1 DEF Guard
<1>3. \A g \in Frames : /\ pages'[g].page_id = pages[g].page_id
                        /\ pages'[g].data = pages[g].data
                        /\ pages'[g].is_dirty = (pages[g].is_dirty \/ (h \in Holders(g) /\ guards[h].is_dirty))
                        /\ pages'[g].pin_count = IF h \in Holders(g) THEN pages[g].pin_count - 1
                                                                     ELSE pages[g].pin_count
  <2>1. CASE Holds(h)
    BY <2>1, HeldFrame, <1>1 DEF Released, Holders, Page, Guard
  <2>2. CASE ~Holds(h)
    <3>1. \A g \in Frames : h \notin Holders(g)
      BY <2>2, PoolAssumption DEF Holders, Holds
    <3> QED
      BY <2>2, <3>1, <1>1 DEF Page
  <2> QED
    BY <2>1, <2>2
<1>4. FramesAccountedFor' /\ ReplacerSound' /\ pages' \in [Frames -> Page]
  <2>1. CASE Holds(h)
    <3>1. guards[h].is_dirty \in BOOLEAN
      BY <1>1 DEF Guard
    <3> QED
      BY <2>1, <3>1, ReleasedAccounted DEF Released
  <2>2. CASE ~Holds(h)
    BY <2>2, <1>1 DEF Pool, FramesAccountedFor, Resident, ReplacerSound
  <2> QED
    BY <2>1, <2>2
<1>5. PoolTyped'
  BY <1>2, <1>4 DEF Pool, PoolTyped
<1>6. GuardsKeepTheirPage'
  BY <1>2, <1>3, <1>1, PoolAssumption DEF GuardsKeepTheirPage, Holds, Pool, Guard
<1>7. \A g \in Frames :
        /\ Holders(g) \in SUBSET Handles
        /\ Holders(g)' = (Holders(g) \ {h, k}) \cup (IF k \in Holders(g) THEN {h} ELSE {})
  BY <1>1, <1>2, PoolAssumption DEF Holders
<1>8. PinsMatchGuards'
  <2> SUFFICES ASSUME NEW g \in Frames
               PROVE  pages'[g].pin_count = Cardinality(Holders(g)')
    BY DEF PinsMatchGuards
  <2> DEFINE H == Holders(g)
  <2>1. H \in SUBSET Handles /\ pages[g].pin_count = Cardinality(H)
    BY <1>7 DEF Pool, PinsMatchGuards
  <2>2. Holders(g)' = (H \ {h, k}) \cup (IF k \in H THEN {h} ELSE {})
    BY <1>7
  <2>3. pages'[g].pin_count = IF h \in H THEN pages[g].pin_count - 1 ELSE pages[g].pin_count
    BY <1>3
  <2> HIDE DEF H
  <2>4. CASE h \in H /\ k \in H
    <3>1. Holders(g)' = H \ {k}
      BY <2>2, <2>4
    <3> QED
      BY <2>1, <2>3, <2>4, <3>1, OneHolderLess
  <2>5. CASE h \in H /\ k \notin H
    <3>1. Holders(g)' = H \ {h}
      BY <2>2, <2>5
    <3> QED
      BY <2>1, <2>3, <2>5, <3>1, OneHolderLess
  <2>6. CASE h \notin H /\ k \in H
    <3>1. Holders(g)' = (H \ {k}) \cup {h}
      BY <2>2, <2>6
    <3> QED
      BY <2>1, <2>3, <2>6, <3>1, HolderReplaced
  <2>7. CASE h \notin H /\ k \notin H
    <3>1. Holders(g)' = H
      BY <2>2, <2>7
    <3> QED
      BY <2>1, <2>3, <2>7, <3>1
  <2> QED
    BY <2>4, <2>5, <2>6, <2>7
<1>9. CleanMeansOnDisk'
  <2> SUFFICES ASSUME NEW g \in Frames \ free_list, ~pages'[g].is_dirty
               PROVE  \/ disk[pages'[g].page_id] = pages'[g].data
                      \/ \E j \in Holders(g)' : guards'[j].is_dirty
    BY DEF CleanMeansOnDisk
  <2>1. /\ ~pages[g].is_dirty
        /\ h \in Holders(g) => ~guards[h].is_dirty
    BY <1>3
  <2>2. CASE \E j \in Holders(g) : guards[j].is_dirty
    <3> PICK j \in Holders(g) : guards[j].is_dirty
      BY <2>2
    <3>1. j # h
      BY <2>1
    <3>2. CASE j = k
      <4>1. h \in Holders(g)' /\ guards'[h].is_dirty
        BY <3>2, <1>2, <1>7
      <4> QED
        BY <4>1
    <3>3. CASE j # k
      <4>1. j \in Holders(g)' /\ guards'[j].is_dirty
        BY <3>1, <3>3, <1>2, <1>7
      <4> QED
        BY <4>1
    <3> QED
      BY <3>2, <3>3
  <2>3. CASE ~\E j \in Holders(g) : guards[j].is_dirty
    BY <2>1, <2>3, <1>3 DEF Pool, CleanMeansOnDisk
  <2> QED
    BY <2>2, <2>3
<1> QED
  BY <1>4, <1>5, <1>6, <1>8, <1>9 DEF Pool

-----------------------------------------------------------------------------
(***************************************************************************)
(* The remaining operations.                                               *)
(***************************************************************************)

\* A store through a guard that is out.
LEMMA WritePool ==
  ASSUME Pool, NEW h \in Handles, NEW b \in Bodies, Write(h, b)
  PROVE  /\ Pool'
         /\ \A q \in PageIds : Reachable(q) => Reachable(q)'
         /\ \A q \in PageIds :
              Stored(q)' = IF q = guards[h].held THEN [Stored(q) EXCEPT !.body = b] ELSE Stored(q)
<1> DEFINE f == guards[h].page
           new == [pages[f].data EXCEPT !.body = b]
<1>1. /\ f \in Frames \ free_list
      /\ guards[h].held \in PageIds
      /\ page_table[guards[h].held] = f
      /\ \A q \in PageIds : page_table[q] = f => q = guards[h].held
  BY HeldFrame, PoolAssumption DEF Write, Pool, FramesAccountedFor, Resident
<1>2. pages \in [Frames -> Page] /\ guards \in [Handles -> Guard]
  BY DEF Pool, PoolTyped
<1>3. guards[h].page = f /\ h \in Holders(f)
  BY <1>1 DEF Holders
<1> HIDE DEF f
<1>4. /\ new \in Data
      /\ pages' = [pages EXCEPT ![f].data = new]
  <2>1. pages[f].data \in Data
    BY <1>1, <1>2 DEF Page
  <2>2. new \in Data
    BY <2>1 DEF Data
  <2> QED
    BY <2>2, <1>2, <1>3 DEF Write
<1>13. UNCHANGED <<page_table, free_list, replacer, disk>>
  BY DEF Write
<1> HIDE DEF new
<1>5. /\ pages' \in [Frames -> Page]
      /\ pages'[f].data = new
      /\ \A g \in Frames \ {f} : pages'[g] = pages[g]
      /\ \A g \in Frames : /\ pages'[g].page_id = pages[g].page_id
                           /\ pages'[g].pin_count = pages[g].pin_count
                           /\ pages'[g].is_dirty = pages[g].is_dirty
  BY <1>1, <1>2, <1>4 DEF Page
<1>6. /\ guards' \in [Handles -> Guard]
      /\ \A k \in Handles : guards'[k].page = guards[k].page /\ guards'[k].held = guards[k].held
      /\ \A k \in Handles : guards[k].is_dirty => guards'[k].is_dirty
      /\ guards'[h].is_dirty
  BY <1>2 DEF Guard, Write
<1>7. \A g \in Frames : Holders(g)' = Holders(g)
  BY <1>6 DEF Holders
<1>8. PoolTyped' /\ FramesAccountedFor' /\ GuardsKeepTheirPage' /\ ReplacerSound'
  <2>1. PoolTyped'
    BY <1>13, <1>5, <1>6 DEF Pool, PoolTyped
  <2>2. FramesAccountedFor'
    BY <1>13, <1>5 DEF Pool, FramesAccountedFor, Resident
  <2>3. GuardsKeepTheirPage'
    BY <1>13, <1>2, <1>5, <1>6 DEF Pool, GuardsKeepTheirPage, Holds, Guard
  <2>4. ReplacerSound'
    BY <1>13, <1>5 DEF Pool, ReplacerSound
  <2> QED
    BY <2>1, <2>2, <2>3, <2>4
<1>9. PinsMatchGuards'
  BY <1>5, <1>7 DEF Pool, PinsMatchGuards
<1>10. CleanMeansOnDisk'
  <2> SUFFICES ASSUME NEW g \in Frames \ free_list, ~pages'[g].is_dirty
               PROVE  \/ disk[pages'[g].page_id] = pages'[g].data
                      \/ \E j \in Holders(g)' : guards'[j].is_dirty
    BY <1>13 DEF CleanMeansOnDisk
  <2>1. CASE g = f
    BY <2>1, <1>3, <1>6, <1>7
  <2>2. CASE g # f
    BY <2>2, <1>5, <1>6, <1>7 DEF Pool, CleanMeansOnDisk, Holders
  <2> QED
    BY <2>1, <2>2
<1>11. ASSUME NEW q \in PageIds, q = guards[h].held
       PROVE  Stored(q)' = new /\ Stored(q) = pages[f].data
  BY <1>13, <1>1, <1>5, <1>11, PoolAssumption DEF Stored, Resident
<1>12. ASSUME NEW q \in PageIds
       PROVE  (Reachable(q) => Reachable(q)') /\ (q # guards[h].held => Stored(q)' = Stored(q))
  <2>1. page_table[q] \in Frames \cup {NoFrame}
    BY DEF Pool, PoolTyped
  <2>2. page_table' = page_table /\ disk' = disk
    BY <1>13
  <2>3. Reachable(q) => Reachable(q)'
    BY <2>2 DEF Resident, Reachable
  <2>4. q # guards[h].held => page_table[q] # f
    BY <1>1
  <2>5. ASSUME q # guards[h].held PROVE Stored(q)' = Stored(q)
    BY <1>5, <2>1, <2>2, <2>4, <2>5 DEF Stored, Resident
  <2> QED
    BY <2>3, <2>5
<1> QED
  BY <1>8, <1>9, <1>10, <1>11, <1>12 DEF Pool, new

LEMMA DeleteFramePool ==
  ASSUME Pool, NEW p \in PageIds, Resident(p), DeletePage(p)
  PROVE  /\ Pool'
         /\ \A q \in PageIds \ {p} : Stored(q)' = Stored(q) /\ (Reachable(q) => Reachable(q)')
<1> DEFINE f == page_table[p]
<1>1. /\ f \in Frames \ free_list
      /\ \A q \in PageIds : page_table[q] = f => q = p
  BY PoolAssumption DEF Pool, FramesAccountedFor, Resident
<1>2. pages \in [Frames -> Page] /\ ZeroData \in Data
  BY PoolAssumption DEF Pool, PoolTyped, ZeroData, Data
<1>14. /\ pages[f].pin_count <= 0
      /\ replacer' = Remove(replacer, f)
      /\ page_table' = [page_table EXCEPT ![p] = NoFrame]
      /\ free_list' = free_list \cup {f}
      /\ pages' = [pages EXCEPT ![f].data = ZeroData, ![f].page_id = NoPage]
      /\ guards' = guards /\ disk' = disk
  BY DEF DeletePage, Resident
<1> HIDE DEF f
<1>3. /\ pages' \in [Frames -> Page]
      /\ \A g \in Frames \ {f} : pages'[g] = pages[g]
      /\ \A g \in Frames : pages'[g].pin_count = pages[g].pin_count
  BY <1>14, <1>1, <1>2 DEF Page
<1>4. pages[f].pin_count = 0 /\ Holders(f) = {}
  BY <1>14, <1>1, PinnedMeansHeld DEF Pool, PoolTyped
<1>5. /\ page_table' \in [PageIds -> Frames \cup {NoFrame}]
      /\ page_table'[p] = NoFrame
      /\ \A q \in PageIds \ {p} : page_table'[q] = page_table[q]
      /\ free_list' = free_list \cup {f}
  BY <1>14 DEF Pool, PoolTyped
<1>6. PoolTyped'
  BY <1>14, <1>1, <1>3, <1>5 DEF Pool, PoolTyped
<1>7. FramesAccountedFor'
  <2>1. \A q \in PageIds : Resident(q)' => q # p /\ page_table'[q] = page_table[q] /\ page_table[q] # f
    BY <1>1, <1>5 DEF Resident
  <2>2. \A g \in Frames \ free_list' : g # f /\ pages'[g] = pages[g] /\ g \in Frames \ free_list
    BY <1>3, <1>5
  <2>3. \A g \in Frames \ free_list' : pages[g].page_id # p
    BY <2>2 DEF Pool, FramesAccountedFor, f
  <2> QED
    BY <2>1, <2>2, <2>3, <1>3, <1>5 DEF Pool, FramesAccountedFor, Resident
<1>8. \A g \in Frames : Holders(g)' = Holders(g)
  BY <1>14 DEF Holders
<1>9. GuardsKeepTheirPage'
  BY <1>14, <1>3, <1>4, <1>5 DEF Pool, PoolTyped, GuardsKeepTheirPage, Holds, Holders, Guard
<1>10. PinsMatchGuards'
  BY <1>3, <1>8 DEF Pool, PinsMatchGuards
<1>11. ReplacerSound'
  <2>1. f \in replacer.evictable /\ f \in replacer.tracked /\ Sound(replacer)
    BY <1>1, <1>4 DEF Pool, ReplacerSound
  <2>2. replacer' = Forget(replacer, f)
    BY <1>14, <2>1 DEF Remove
  <2>3. /\ Sound(replacer')
        /\ replacer'.tracked = replacer.tracked \ {f}
        /\ replacer'.evictable = replacer.evictable \ {f}
    BY <2>1, <2>2, ForgetSound
  <2> QED
    BY <2>3, <1>3, <1>5 DEF Pool, ReplacerSound
<1>12. CleanMeansOnDisk'
  BY <1>14, <1>3, <1>5, <1>8 DEF Pool, CleanMeansOnDisk
<1>13. ASSUME NEW q \in PageIds \ {p}
       PROVE  Stored(q)' = Stored(q) /\ (Reachable(q) => Reachable(q)')
  <2>1. page_table[q] \in (Frames \ {f}) \cup {NoFrame}
    BY <1>1 DEF Pool, PoolTyped
  <2>2. page_table'[q] = page_table[q] /\ disk' = disk
    BY <1>14, <1>5
  <2>3. Reachable(q) => Reachable(q)'
    BY <2>2 DEF Resident, Reachable
  <2>4. Stored(q)' = Stored(q)
    BY <1>3, <2>1, <2>2 DEF Stored, Resident
  <2> QED
    BY <2>3, <2>4
<1> QED
  BY <1>6, <1>7, <1>9, <1>10, <1>11, <1>12, <1>13 DEF Pool

LEMMA FlushPagePool ==
  ASSUME Pool, NEW p \in PageIds, FlushPage(p)
  PROVE  /\ Pool'
         /\ \A q \in PageIds : Stored(q)' = Stored(q) /\ (Reachable(q) => Reachable(q)')
         /\ \A q \in PageIds : disk'[q] = IF q = p THEN Stored(p) ELSE disk[q]
<1> DEFINE f == page_table[p]
<1>1. f \in Frames \ free_list /\ pages[f].page_id = p /\ Resident(p)
  BY DEF FlushPage, Pool, FramesAccountedFor, Resident
<1>2. pages \in [Frames -> Page] /\ disk \in [PageIds -> Data \cup {NoData}]
  BY DEF Pool, PoolTyped
<1>3. disk' = [disk EXCEPT ![p] = pages[f].data] /\ pages' = [pages EXCEPT ![f].is_dirty = FALSE]
  BY <1>1 DEF FlushPage, WritePage
<1>4. UNCHANGED <<page_table, free_list, replacer, guards>>
  BY DEF FlushPage
<1> HIDE DEF f
<1>5. pages[f].data \in Data
  BY <1>1, <1>2 DEF Page
<1>6. /\ pages' \in [Frames -> Page]
      /\ \A g \in Frames : /\ pages'[g].page_id = pages[g].page_id
                           /\ pages'[g].pin_count = pages[g].pin_count
                           /\ pages'[g].data = pages[g].data
                           /\ g # f => pages'[g] = pages[g]
  BY <1>1, <1>2, <1>3 DEF Page
<1>7. \A g \in Frames : Holders(g)' = Holders(g)
  BY <1>4 DEF Holders
<1>8. PoolTyped'
  BY <1>2, <1>3, <1>4, <1>5, <1>6 DEF Pool, PoolTyped
<1>9. FramesAccountedFor' /\ GuardsKeepTheirPage' /\ ReplacerSound' /\ PinsMatchGuards'
  BY <1>4, <1>6, <1>7 DEF Pool, PoolTyped, FramesAccountedFor, Resident, GuardsKeepTheirPage, Holds,
                          ReplacerSound, PinsMatchGuards, Guard
<1>10. CleanMeansOnDisk'
  <2> SUFFICES ASSUME NEW g \in Frames \ free_list, ~pages'[g].is_dirty
               PROVE  \/ disk'[pages'[g].page_id] = pages'[g].data
                      \/ \E j \in Holders(g)' : guards'[j].is_dirty
    BY <1>4 DEF CleanMeansOnDisk
  <2>1. CASE g = f
    BY <2>1, <1>1, <1>2, <1>3, <1>6
  <2>2. CASE g # f
    <3>1. pages[g].page_id \in PageIds /\ pages[g].page_id # p
      BY <2>2 DEF Pool, FramesAccountedFor, f
    <3> QED
      BY <2>2, <3>1, <1>2, <1>3, <1>4, <1>6, <1>7 DEF Pool, CleanMeansOnDisk
  <2> QED
    BY <2>1, <2>2
<1>11. Stored(p) = pages[f].data
  BY <1>1 DEF Stored, f
<1>12. \A q \in PageIds : disk'[q] = IF q = p THEN Stored(p) ELSE disk[q]
  BY <1>2, <1>3, <1>11
<1>13. ASSUME NEW q \in PageIds
       PROVE  Stored(q)' = Stored(q) /\ (Reachable(q) => Reachable(q)')
  <2>1. page_table[q] \in Frames \cup {NoFrame}
    BY DEF Pool, PoolTyped
  <2> QED
    BY <2>1, <1>1, <1>4, <1>6, <1>12 DEF Stored, Resident, Reachable
<1> QED
  BY <1>8, <1>9, <1>10, <1>12, <1>13 DEF Pool

-----------------------------------------------------------------------------
(***************************************************************************)
(* The invariant holds initially and every step keeps it.                  *)
(***************************************************************************)

\* The memory of a pool nobody has opened.
Blank ==
  /\ pages = [f \in Frames |-> BlankPage]
  /\ page_table = [p \in PageIds |-> NoFrame]
  /\ free_list = Frames
  /\ replacer = EmptyReplacer
  /\ guards = [h \in Handles |-> NoGuard]

LEMMA BlankPool ==
  Blank /\ disk \in [PageIds -> Data \cup {NoData}]
    => Pool /\ Idle /\ \A p \in PageIds : ~Resident(p)
<1> SUFFICES ASSUME Blank, disk \in [PageIds -> Data \cup {NoData}]
             PROVE  Pool /\ Idle /\ \A p \in PageIds : ~Resident(p)
  OBVIOUS
<1> USE DEF Blank
<1>1. BlankPage \in Page /\ BlankPage.pin_count = 0
  BY PoolAssumption DEF BlankPage, Page, ZeroData, Data, PageIds
<1>2. NoGuard \in Guard /\ NoGuard.page = NoFrame
  BY PoolAssumption DEF NoGuard, Guard, PageIds
<1>3. PoolTyped
  BY <1>1, <1>2 DEF PoolTyped
<1>4. Idle /\ GuardsKeepTheirPage
  BY <1>2 DEF Idle, Holds, GuardsKeepTheirPage
<1>5. FramesAccountedFor /\ CleanMeansOnDisk /\ \A p \in PageIds : ~Resident(p)
  BY DEF FramesAccountedFor, CleanMeansOnDisk, Resident
<1>6. PinsMatchGuards
  <2> SUFFICES ASSUME NEW f \in Frames PROVE pages[f].pin_count = Cardinality(Holders(f))
    BY DEF PinsMatchGuards
  <2>1. Holders(f) = {}
    BY <1>2, PoolAssumption DEF Holders
  <2> QED
    BY <1>1, <2>1, FS_EmptySet
<1>7. ReplacerSound
  BY EmptySound DEF ReplacerSound, EmptyReplacer
<1> QED
  BY <1>3, <1>4, <1>5, <1>6, <1>7 DEF Pool

LEMMA InitIInv == Init => IInv
<1> SUFFICES ASSUME Init PROVE IInv
  OBVIOUS
<1>1. Blank /\ disk \in [PageIds -> Data \cup {NoData}]
  BY DEF Init, Blank
<1>2. Pool /\ Idle /\ \A p \in PageIds : ~Resident(p)
  BY <1>1, BlankPool
<1>3. HeaderId \in PageIds
  BY PoolAssumption DEF HeaderId, PageIds
<1> QED
  BY <1>2, <1>3, PoolAssumption
  DEF Init, IInv, Typed, Status, ResidentAreLive, LivePagesStored, LiveIdsUsed, HeaderFirst,
      FirstVisit, Phase, HangsOnlyWhenAllPinned

\* A step between two running states that neither allocates nor deletes, and
\* leaves what was within reach within reach.
LEMMA QuietStep ==
  ASSUME IInv, status = "running", HeaderId \in live,
         Pool',
         UNCHANGED <<next_page_id, live, status>>,
         \A q \in PageIds : Resident(q)' => q \in live,
         \A q \in PageIds : Reachable(q) => Reachable(q)'
  PROVE  IInv'
<1>1. Typed' /\ ResidentAreLive'
  BY DEF IInv, Typed, ResidentAreLive
<1>2. LivePagesStored'
  BY DEF IInv, Typed, LivePagesStored, Reachable
<1>3. LiveIdsUsed' /\ HeaderFirst' /\ Phase' /\ HangsOnlyWhenAllPinned'
  BY DEF IInv, LiveIdsUsed, NextId, Starting, HeaderFirst, Phase, HangsOnlyWhenAllPinned
<1> QED
  BY <1>1, <1>2, <1>3 DEF IInv

LEMMA HeaderIsPage == HeaderId \in PageIds /\ HeaderId = 0
  BY PoolAssumption DEF HeaderId, PageIds

\* Nobody holds anything before the header exists.
LEMMA HeldMeansHeader ==
  ASSUME IInv, status = "running", \E p \in live : TRUE
  PROVE  HeaderId \in live
  BY DEF IInv, HeaderFirst

LEMMA HoldsMeansHeader ==
  ASSUME IInv, status = "running", NEW h \in Handles, Holds(h)
  PROVE  HeaderId \in live
<1>1. guards[h].held \in live
  BY HeldFrame, PoolAssumption DEF IInv, ResidentAreLive, Resident, Pool
<1> QED
  BY <1>1, HeldMeansHeader

\* FetchPage, by whichever way it finds the page.
LEMMA FetchPool ==
  ASSUME Pool, NEW h \in Handles, ~Holds(h), NEW p \in PageIds,
         Reachable(p), FetchPage(h, p)
  PROVE  /\ Pool'
         /\ \A q \in PageIds : Stored(q)' = Stored(q) /\ (Reachable(q) => Reachable(q)')
         /\ \A q \in PageIds : Resident(q)' => q = p \/ Resident(q)
         /\ \A k \in Handles \ {h} : guards'[k] = guards[k]
         /\ guards'[h].held = p
<1>0. guards \in [Handles -> Guard]
  BY DEF Pool, PoolTyped
<1>1. CASE FetchHit(h, p)
  <2>1. page_table' = page_table
    BY <1>1 DEF FetchHit
  <2> QED
    BY <1>0, <1>1, <2>1, FetchHitPool DEF Resident
<1>2. CASE FetchMiss(h, p)
  <2>0. ~Resident(p) /\ disk[p] \in Data /\ Stored(p) = disk[p]
    BY <1>2, DataAssumption DEF FetchMiss, Resident, Reachable, Pool, PoolTyped, Stored
  <2> PICK f \in Frames :
           \/ TakeFree(h, p, f, ReadPage(disk, p, pages[f].data), FALSE)
           \/ TakeVictim(h, p, f, ReadPage(WrittenBack(f), p, pages[f].data), FALSE)
    BY <1>2 DEF FetchMiss
  <2>1. TakeFrame(h, p, f, disk[p], FALSE)
    <3>1. CASE TakeFree(h, p, f, ReadPage(disk, p, pages[f].data), FALSE)
      <4>1. ReadPage(disk, p, pages[f].data) = disk[p]
        BY <2>0, DataAssumption DEF ReadPage
      <4> QED
        BY <3>1, <4>1 DEF TakeFrame
    <3>2. CASE TakeVictim(h, p, f, ReadPage(WrittenBack(f), p, pages[f].data), FALSE)
      <4>1. f \in Frames \ free_list
        BY <3>2 DEF TakeVictim
      <4>2. pages[f].page_id # p
        BY <2>0, <4>1, PoolAssumption DEF Pool, FramesAccountedFor, Resident
      <4>3. WrittenBack(f)[p] = disk[p]
        BY <4>2 DEF WrittenBack, WritePage, Pool, PoolTyped
      <4>4. ReadPage(WrittenBack(f), p, pages[f].data) = disk[p]
        BY <2>0, <4>3, DataAssumption DEF ReadPage
      <4> QED
        BY <3>2, <4>4 DEF TakeFrame
    <3> QED
      BY <3>1, <3>2
  <2>2. disk'[p] = disk[p]
    <3>1. page_table[p] # f
      BY <2>0, PoolAssumption DEF Resident
    <3> QED
      BY <2>0, <2>1, <3>1, TakeFrameDisk
  <2>3. Pool'
    BY <2>0, <2>1, <2>2, TakeFramePool
  <2>4. /\ \A q \in PageIds \ {p} : Stored(q)' = Stored(q) /\ (Reachable(q) => Reachable(q)')
        /\ Resident(p)' /\ Stored(p)' = disk[p]
    BY <2>0, <2>1, TakeFrameKeeps
  <2>5. \A q \in PageIds \ {p} : Resident(q)' => Resident(q)
    BY <2>0, <2>1, TakeFrameTable DEF Resident
  <2>6. guards' = [guards EXCEPT ![h] = [page |-> f, is_dirty |-> FALSE, held |-> p]]
    BY <2>0, <2>1, TakeFrameInstalls
  <2> QED
    BY <1>0, <2>0, <2>3, <2>4, <2>5, <2>6 DEF Reachable
<1> QED
  BY <1>1, <1>2 DEF FetchPage

\* Each action in turn: opening.
LEMMA OpenStep == IInv /\ Open => IInv'
<1> SUFFICES ASSUME IInv, Open PROVE IInv'
  OBVIOUS
<1>1. /\ status = "down"
      /\ status' = IF FirstVisit THEN "running" ELSE "opening"
      /\ next_page_id' = 0
      /\ UNCHANGED <<pages, page_table, free_list, replacer, guards, disk, live>>
  BY DEF Open
<1>2. Pool'
  BY <1>1 DEF IInv, Pool, PoolTyped, FramesAccountedFor, Resident, PinsMatchGuards, Holders,
              GuardsKeepTheirPage, Holds, ReplacerSound, CleanMeansOnDisk
<1>3. Typed' /\ ResidentAreLive' /\ LivePagesStored'
  BY <1>1, PoolAssumption DEF IInv, Typed, Status, ResidentAreLive, LivePagesStored, Resident
<1>4. \A p \in PageIds : ~Resident(p)
  BY <1>1 DEF IInv, Phase
<1>5. HeaderId \in live => ~FirstVisit
  BY <1>4, HeaderIsPage DEF IInv, LivePagesStored, FirstVisit
<1>6. HeaderFirst'
  BY <1>1, <1>5 DEF IInv, HeaderFirst, FirstVisit
<1>7. LiveIdsUsed'
  <2>1. CASE HeaderId \in live
    BY <1>1, <1>5, <2>1 DEF IInv, LiveIdsUsed, NextId, Starting, SavedCount, FirstVisit
  <2>2. CASE HeaderId \notin live
    BY <1>1, <2>2 DEF IInv, HeaderFirst, LiveIdsUsed
  <2> QED
    BY <2>1, <2>2
<1>8. Phase' /\ HangsOnlyWhenAllPinned'
  BY <1>1, <1>4, <1>5 DEF IInv, Phase, HangsOnlyWhenAllPinned, HeaderFirst, Idle, Holds, Resident
<1> QED
  BY <1>2, <1>3, <1>6, <1>7, <1>8 DEF IInv

\* The fetch of the header into an empty pool writes nothing back.
LEMMA FirstFetchKeepsFile ==
  ASSUME IInv, NEW h \in Handles, FetchHeader(h)
  PROVE  disk' = disk
<1>1. status = "opening" /\ FetchPage(h, HeaderId)
  BY DEF FetchHeader
<1>2. \A p \in PageIds : ~Resident(p)
  BY <1>1 DEF IInv, Phase
<1>3. free_list = Frames
  <2> SUFFICES ASSUME NEW f \in Frames \ free_list PROVE FALSE
    BY DEF IInv, Pool, PoolTyped
  <2>1. pages[f].page_id \in PageIds /\ page_table[pages[f].page_id] = f
    BY DEF IInv, Pool, FramesAccountedFor
  <2> QED
    BY <1>2, <2>1, PoolAssumption DEF Resident
<1> QED
  BY <1>1, <1>2, <1>3, HeaderIsPage, FramesAssumption
  DEF FetchPage, FetchHit, FetchMiss, TakeFree, TakeVictim, Resident

LEMMA FetchHeaderStep == \A h \in Handles : IInv /\ FetchHeader(h) => IInv'
<1> SUFFICES ASSUME NEW h \in Handles, IInv, FetchHeader(h) PROVE IInv'
  OBVIOUS
<1>1. /\ status = "opening" /\ status' = "restoring"
      /\ next_page_id' = next_page_id /\ live' = live
      /\ FetchPage(h, HeaderId)
  BY DEF FetchHeader
<1>2. /\ \A p \in PageIds : ~Resident(p)
      /\ \A k \in Handles : ~Holds(k)
      /\ HeaderId \in live
      /\ Reachable(HeaderId)
  BY <1>1, HeaderIsPage DEF IInv, Phase, Idle, LivePagesStored, Reachable
<1>3. /\ Pool'
      /\ \A q \in PageIds : Stored(q)' = Stored(q) /\ (Reachable(q) => Reachable(q)')
      /\ \A q \in PageIds : Resident(q)' => q = HeaderId \/ Resident(q)
      /\ \A k \in Handles \ {h} : guards'[k] = guards[k]
      /\ guards'[h].held = HeaderId
  BY <1>1, <1>2, HeaderIsPage, FetchPool DEF IInv
<1>4. disk' = disk
  BY FirstFetchKeepsFile
<1>5. Typed' /\ ResidentAreLive' /\ LivePagesStored'
  BY <1>1, <1>2, <1>3 DEF IInv, Typed, Status, ResidentAreLive, LivePagesStored, Reachable
<1>6. LiveIdsUsed' /\ HeaderFirst' /\ HangsOnlyWhenAllPinned'
  BY <1>1, <1>2, <1>4
  DEF IInv, LiveIdsUsed, NextId, Starting, SavedCount, FirstVisit, HeaderFirst, HangsOnlyWhenAllPinned
<1>7. Phase'
  <2> SUFFICES ASSUME NEW k \in Handles, Holds(k)'
               PROVE  /\ guards'[k].held = HeaderId
                      /\ pages'[guards'[k].page].data = disk'[HeaderId]
                      /\ \A j \in Handles : Holds(j)' => j = k
    BY <1>1 DEF Phase
  <2>1. \A j \in Handles : Holds(j)' => j = h
    BY <1>2, <1>3 DEF Holds
  <2>2. page_table'[HeaderId] = guards'[h].page /\ Resident(HeaderId)'
    <3>1. Holds(h)'
      BY <2>1
    <3>2. guards'[h].page \in Frames /\ pages'[guards'[h].page].page_id = HeaderId /\ guards'[h].page \notin free_list'
      BY <1>3, <3>1 DEF Pool, GuardsKeepTheirPage, PoolTyped, Guard, Holds
    <3> QED
      BY <1>3, <3>2, PoolAssumption DEF Pool, FramesAccountedFor, Resident
  <2>3. pages'[guards'[h].page].data = disk[HeaderId]
    <3>1. Stored(HeaderId)' = disk[HeaderId]
      <4>1. Stored(HeaderId) = disk[HeaderId]
        BY <1>2, HeaderIsPage DEF Stored
      <4> QED
        BY <1>3, <4>1, HeaderIsPage
    <3> QED
      BY <2>2, <3>1 DEF Stored
  <2> QED
    BY <1>3, <1>4, <2>1, <2>3
<1> QED
  BY <1>3, <1>5, <1>6, <1>7 DEF IInv

\* Drop, and what RestoreCount and SaveCount do besides.
LEMMA UnpinnedGuard ==
  ASSUME Pool, NEW h \in Handles, Holds(h)
  PROVE  /\ Released(guards[h].page, guards[h].is_dirty,
                     Unpinned(guards[h]).pages, Unpinned(guards[h]).replacer)
         /\ Unpinned(guards[h]).pages[guards[h].page].data = pages[guards[h].page].data
         /\ guards[h].is_dirty \in BOOLEAN
         /\ guards[h] \in Guard
<1>1. guards[h] \in Guard
  BY DEF Pool, PoolTyped
<1>2. guards[h].is_dirty \in BOOLEAN
  BY <1>1 DEF Guard
<1> QED
  BY <1>1, <1>2, UnpinnedReleases

LEMMA RestoreCountStep == \A h \in Handles : IInv /\ RestoreCount(h) => IInv'
<1> SUFFICES ASSUME NEW h \in Handles, IInv, RestoreCount(h) PROVE IInv'
  OBVIOUS
<1>1. /\ status = "restoring" /\ status' = "running"
      /\ Holds(h)
      /\ next_page_id' = pages[guards[h].page].data.allocate_cnt
      /\ pages' = Unpinned(guards[h]).pages
      /\ replacer' = Unpinned(guards[h]).replacer
      /\ guards' = [guards EXCEPT ![h] = NoGuard]
      /\ UNCHANGED <<page_table, free_list, disk, live>>
  BY DEF RestoreCount
<1>2. /\ guards[h].page \in Frames
      /\ guards[h].held = HeaderId
      /\ pages[guards[h].page].data = disk[HeaderId]
  BY <1>1, HeldFrame DEF IInv, Phase
<1>3. Released(guards[h].page, guards[h].is_dirty, pages', replacer')
  BY <1>1, UnpinnedGuard DEF IInv
<1>4. guards \in [Handles -> Guard] /\ NoGuard \in Guard /\ NoGuard.page = NoFrame
  BY DEF IInv, Pool, PoolTyped, NoGuard, Guard
<1>5. Pool'
  <2>1. guards' \in [Handles -> Guard] /\ ~Holds(h)' /\ \A k \in Handles \ {h} : guards'[k] = guards[k]
    BY <1>1, <1>4 DEF Holds
  <2>2. guards[h].is_dirty \in BOOLEAN
    BY <1>4 DEF Guard
  <2>3. pages'[guards[h].page].data = pages[guards[h].page].data
    BY <1>1, UnpinnedGuard DEF IInv
  <2>4. \A k \in Handles \ {h} : IF Holds(k) THEN guards'[k] = guards[k] ELSE ~Holds(k)'
    BY <2>1 DEF Holds
  <2> QED
    BY <1>1, <1>3, <2>1, <2>2, <2>3, <2>4, ReleasePool DEF IInv
<1>6. HeaderId \in live
  BY <1>1 DEF IInv, HeaderFirst
<1>7. disk[HeaderId] \in Data /\ ~FirstVisit
  <2>1. pages[guards[h].page].data \in Data
    BY <1>2 DEF IInv, Pool, PoolTyped, Page
  <2> QED
    BY <1>2, <2>1, DataAssumption DEF FirstVisit
<1>8. next_page_id' = SavedCount /\ next_page_id' \in 0 .. MaxPageId + 1
  BY <1>1, <1>2, <1>7 DEF SavedCount, Data
<1>9. Typed' /\ ResidentAreLive' /\ LivePagesStored'
  BY <1>1, <1>8 DEF IInv, Typed, Status, ResidentAreLive, LivePagesStored, Resident
<1>10. LiveIdsUsed' /\ HeaderFirst' /\ HangsOnlyWhenAllPinned' /\ Phase'
  BY <1>1, <1>6, <1>8
  DEF IInv, LiveIdsUsed, NextId, Starting, HeaderFirst, HangsOnlyWhenAllPinned, Phase
<1> QED
  BY <1>5, <1>9, <1>10 DEF IInv

\* The clients' steps.
LEMMA FetchStep == \A h \in Handles, p \in PageIds : IInv /\ Fetch(h, p) => IInv'
<1> SUFFICES ASSUME NEW h \in Handles, NEW p \in PageIds, IInv, Fetch(h, p) PROVE IInv'
  OBVIOUS
<1>1. /\ status = "running" /\ ~Holds(h) /\ p \in live /\ FetchPage(h, p)
      /\ UNCHANGED <<next_page_id, live, status>>
  BY DEF Fetch
<1>2. Reachable(p) /\ HeaderId \in live
  BY <1>1, HeldMeansHeader DEF IInv, LivePagesStored, Reachable
<1>3. /\ Pool'
      /\ \A q \in PageIds : Reachable(q) => Reachable(q)'
      /\ \A q \in PageIds : Resident(q)' => q = p \/ Resident(q)
  BY <1>1, <1>2, FetchPool DEF IInv
<1> QED
  BY <1>1, <1>2, <1>3, QuietStep DEF IInv, ResidentAreLive

LEMMA NewPageStep == \A h \in Handles : IInv /\ NewPage(h) => IInv'
<1> SUFFICES ASSUME NEW h \in Handles, IInv, NewPage(h) PROVE IInv'
  OBVIOUS
<1> DEFINE p == next_page_id
<1>1. /\ status = "running" /\ status' = "running" /\ ~Holds(h) /\ p \in PageIds
      /\ next_page_id' = p + 1 /\ live' = live \cup {p}
  BY DEF NewPage
<1>2. PICK f \in Frames : TakeFrame(h, p, f, ZeroData, TRUE)
  BY DEF NewPage, TakeFrame
<1>3. ZeroData \in Data
  BY PoolAssumption DEF ZeroData, Data
<1>4. ~Resident(p)
  BY <1>1 DEF IInv, ResidentAreLive, LiveIdsUsed, NextId, Starting, PageIds
<1>5. PICK r \in PageIds : r = p
  BY <1>1
<1>6. TakeFrame(h, r, f, ZeroData, TRUE) /\ ~Resident(r)
  BY <1>2, <1>4, <1>5
<1>7. /\ Pool'
      /\ \A q \in PageIds \ {r} : Reachable(q) => Reachable(q)'
      /\ Resident(r)'
      /\ \A q \in PageIds \ {r} : Resident(q)' => Resident(q)
  <2>1. Pool'
    BY <1>1, <1>3, <1>6, TakeFramePool DEF IInv
  <2>2. /\ \A q \in PageIds \ {r} : Reachable(q) => Reachable(q)'
        /\ Resident(r)'
    BY <1>3, <1>6, TakeFrameKeeps DEF IInv
  <2>3. \A q \in PageIds \ {r} : Resident(q)' => Resident(q)
    BY <1>3, <1>6, TakeFrameTable DEF IInv, Resident
  <2> QED
    BY <2>1, <2>2, <2>3
<1> HIDE DEF p
<1>8. Typed'
  BY <1>1, PoolAssumption DEF IInv, Typed, PageIds
<1>9. ResidentAreLive' /\ LivePagesStored'
  BY <1>1, <1>5, <1>7 DEF IInv, Typed, ResidentAreLive, LivePagesStored, Reachable
<1>10. LiveIdsUsed' /\ HeaderFirst' /\ HangsOnlyWhenAllPinned' /\ Phase'
  <2>1. \A q \in live : q \in PageIds /\ q < p
    BY <1>1 DEF IInv, Typed, LiveIdsUsed, NextId, Starting, p
  <2>2. LiveIdsUsed'
    BY <1>1, <2>1, PoolAssumption DEF LiveIdsUsed, NextId, Starting, PageIds
  <2>3. HeaderId \in live'
    BY <1>1, HeaderIsPage DEF IInv, HeaderFirst, p
  <2> QED
    BY <1>1, <2>2, <2>3 DEF HeaderFirst, HangsOnlyWhenAllPinned, Phase
<1> QED
  BY <1>7, <1>8, <1>9, <1>10 DEF IInv

LEMMA WriteStep == \A h \in Handles, b \in Bodies : IInv /\ Write(h, b) => IInv'
<1> SUFFICES ASSUME NEW h \in Handles, NEW b \in Bodies, IInv, Write(h, b) PROVE IInv'
  OBVIOUS
<1>1. /\ status = "running" /\ Holds(h) /\ UNCHANGED <<page_table, next_page_id, live, status>>
  BY DEF Write
<1>2. HeaderId \in live
  BY <1>1, HoldsMeansHeader
<1>3. Pool' /\ \A q \in PageIds : Reachable(q) => Reachable(q)'
  BY WritePool DEF IInv
<1> QED
  BY <1>1, <1>2, <1>3, QuietStep DEF IInv, ResidentAreLive, Resident

\* Drop and DropThenAppend differ in the data they leave in the frame.
LEMMA GuardGoesStep ==
  ASSUME IInv, status = "running", NEW h \in Handles, Holds(h),
         Released(guards[h].page, guards[h].is_dirty, pages', replacer'),
         guards[h].is_dirty \/ pages'[guards[h].page].data = pages[guards[h].page].data,
         guards' = [guards EXCEPT ![h].page = NoFrame, ![h].held = NoPage],
         UNCHANGED <<page_table, free_list, next_page_id, disk, live, status>>
  PROVE  IInv'
<1>1. guards \in [Handles -> Guard]
  BY DEF IInv, Pool, PoolTyped
<1>2. guards' \in [Handles -> Guard] /\ ~Holds(h)' /\ \A k \in Handles \ {h} : guards'[k] = guards[k]
  BY <1>1 DEF Holds, Guard
<1>3. guards[h].is_dirty \in BOOLEAN
  BY <1>1 DEF Guard
<1>4. \A k \in Handles \ {h} : IF Holds(k) THEN guards'[k] = guards[k] ELSE ~Holds(k)'
  BY <1>2 DEF Holds
<1>5. Pool'
  BY <1>2, <1>3, <1>4, ReleasePool DEF IInv
<1>6. \A q \in PageIds : Reachable(q) => Reachable(q)'
  BY <1>3, ReleasedKeeps DEF IInv
<1>7. HeaderId \in live
  BY HoldsMeansHeader
<1> QED
  BY <1>5, <1>6, <1>7, QuietStep DEF IInv, ResidentAreLive, Resident

LEMMA DropStep == \A h \in Handles : IInv /\ Drop(h) => IInv'
<1> SUFFICES ASSUME NEW h \in Handles, IInv, Drop(h) PROVE IInv'
  OBVIOUS
<1> QED
  BY UnpinnedGuard, GuardGoesStep DEF Drop, IInv

\* What an append through the dangling pointer adds to the unpinning.
LEMMA AppendReleases ==
  ASSUME Pool, NEW h \in Handles, NEW b \in Bodies, DropThenAppend(h, b)
  PROVE  /\ Released(guards[h].page, guards[h].is_dirty, pages', replacer')
         /\ pages'[guards[h].page].data = [pages[guards[h].page].data EXCEPT !.body = b]
<1> DEFINE f == guards[h].page
           u == Unpinned(guards[h]).pages
<1>1. /\ Released(f, guards[h].is_dirty, u, Unpinned(guards[h]).replacer)
      /\ u[f].data = pages[f].data
      /\ Holds(h)
  BY UnpinnedGuard DEF DropThenAppend
<1>2. f \in Frames /\ replacer' = Unpinned(guards[h]).replacer /\ pages' = [u EXCEPT ![f].data.body = b]
  BY <1>1, HeldFrame DEF DropThenAppend
<1> HIDE DEF f, u
<1> DEFINE new == [u[f].data EXCEPT !.body = b]
<1>3. u \in [Frames -> Page]
  BY <1>1 DEF Released
<1>4. u[f].data \in Data
  BY <1>2, <1>3 DEF Page
<1>5. new \in Data
  BY <1>4 DEF Data
<1>6. pages' = [u EXCEPT ![f].data = new]
  BY <1>2, <1>3
<1> HIDE DEF new
<1>7. /\ pages' \in [Frames -> Page]
      /\ pages'[f].data = new
      /\ pages'[f].page_id = u[f].page_id
      /\ pages'[f].pin_count = u[f].pin_count
      /\ pages'[f].is_dirty = u[f].is_dirty
      /\ \A g \in Frames \ {f} : pages'[g] = u[g]
  BY <1>2, <1>3, <1>5, <1>6 DEF Page
<1>8. Released(f, guards[h].is_dirty, pages', replacer')
  BY <1>1, <1>2, <1>7 DEF Released
<1> QED
  BY <1>1, <1>7, <1>8 DEF f, new

LEMMA DropThenAppendStep == \A h \in Handles, b \in Bodies : IInv /\ DropThenAppend(h, b) => IInv'
<1> SUFFICES ASSUME NEW h \in Handles, NEW b \in Bodies, IInv, DropThenAppend(h, b) PROVE IInv'
  OBVIOUS
<1> QED
  BY AppendReleases, GuardGoesStep DEF DropThenAppend, IInv

LEMMA MoveAssignStep == \A h, k \in Handles : IInv /\ MoveAssign(h, k) => IInv'
<1> SUFFICES ASSUME NEW h \in Handles, NEW k \in Handles, IInv, MoveAssign(h, k) PROVE IInv'
  OBVIOUS
<1>1. /\ status = "running" /\ h # k /\ (Holds(h) \/ Holds(k))
      /\ pages' = IF Holds(h) THEN Unpinned(guards[h]).pages ELSE pages
      /\ replacer' = IF Holds(h) THEN Unpinned(guards[h]).replacer ELSE replacer
      /\ guards' = [guards EXCEPT ![h] = guards[k], ![k].page = NoFrame, ![k].held = NoPage]
      /\ UNCHANGED <<page_table, free_list, next_page_id, disk, live, status>>
  BY DEF MoveAssign
<1>2. HeaderId \in live
  BY <1>1, HoldsMeansHeader
<1>3. guards \in [Handles -> Guard]
  BY DEF IInv, Pool, PoolTyped
<1>4. Holds(h) => /\ Released(guards[h].page, guards[h].is_dirty, pages', replacer')
                  /\ pages'[guards[h].page].data = pages[guards[h].page].data
  BY <1>1, UnpinnedGuard DEF IInv
<1>5. Pool'
  <2>1. CASE Holds(k)
    BY <1>1, <1>4, <2>1, MovePool DEF IInv
  <2>2. CASE ~Holds(k)
    <3>1. Holds(h) /\ guards[h].is_dirty \in BOOLEAN
      BY <1>1, <1>3, <2>2 DEF Guard
    <3>2. guards' \in [Handles -> Guard] /\ ~Holds(h)' /\ ~Holds(k)'
          /\ \A j \in Handles \ {h, k} : guards'[j] = guards[j]
      BY <1>1, <1>3, <2>2 DEF Holds, Guard
    <3>3. \A j \in Handles \ {h} : IF Holds(j) THEN guards'[j] = guards[j] ELSE ~Holds(j)'
      BY <2>2, <3>2 DEF Holds
    <3> QED
      BY <1>1, <1>4, <3>1, <3>2, <3>3, ReleasePool DEF IInv
  <2> QED
    BY <2>1, <2>2
<1>6. \A q \in PageIds : Reachable(q) => Reachable(q)'
  BY <1>1 DEF Reachable, Resident
<1> QED
  BY <1>1, <1>2, <1>5, <1>6, QuietStep DEF IInv, ResidentAreLive, Resident

LEMMA DeletePageStep == \A p \in PageIds : IInv /\ DeletePage(p) => IInv'
<1> SUFFICES ASSUME NEW p \in PageIds, IInv, DeletePage(p) PROVE IInv'
  OBVIOUS
<1>1. /\ status = "running" /\ p \in live \ {HeaderId} /\ live' = live \ {p}
      /\ UNCHANGED <<next_page_id, guards, disk, status>>
  BY DEF DeletePage
<1>2. HeaderId \in live
  BY <1>1, HeldMeansHeader
<1>3. /\ Pool' /\ ~Resident(p)'
      /\ \A q \in PageIds \ {p} : Resident(q)' => Resident(q)
      /\ \A q \in PageIds \ {p} : Reachable(q) => Reachable(q)'
  <2>1. CASE Resident(p)
    <3>1. page_table' = [page_table EXCEPT ![p] = NoFrame]
      BY <2>1 DEF DeletePage, Resident
    <3> QED
      BY <2>1, <3>1, DeleteFramePool DEF IInv, Pool, PoolTyped, Resident
  <2>2. CASE ~Resident(p)
    <3>1. UNCHANGED <<pages, page_table, free_list, replacer, guards, disk>>
      BY <2>2 DEF DeletePage, Resident
    <3>2. Pool'
      BY <3>1 DEF IInv, Pool, PoolTyped, FramesAccountedFor, Resident, PinsMatchGuards, Holders,
                  GuardsKeepTheirPage, Holds, ReplacerSound, CleanMeansOnDisk
    <3> QED
      BY <2>2, <3>1, <3>2 DEF Resident, Reachable
  <2> QED
    BY <2>1, <2>2
<1>4. Typed' /\ ResidentAreLive' /\ LivePagesStored'
  BY <1>1, <1>3 DEF IInv, Typed, ResidentAreLive, LivePagesStored, Reachable
<1>5. LiveIdsUsed' /\ HeaderFirst' /\ HangsOnlyWhenAllPinned' /\ Phase'
  BY <1>1, <1>2 DEF IInv, LiveIdsUsed, NextId, Starting, HeaderFirst, HangsOnlyWhenAllPinned, Phase
<1> QED
  BY <1>3, <1>4, <1>5 DEF IInv

LEMMA FlushPageStep == \A p \in PageIds : IInv /\ FlushPage(p) => IInv'
<1> SUFFICES ASSUME NEW p \in PageIds, IInv, FlushPage(p) PROVE IInv'
  OBVIOUS
<1>1. /\ status = "running" /\ Resident(p)
      /\ UNCHANGED <<page_table, next_page_id, live, status>>
  BY DEF FlushPage, Resident
<1>2. HeaderId \in live
  BY <1>1, HeldMeansHeader DEF IInv, ResidentAreLive
<1> QED
  BY <1>1, <1>2, FlushPagePool, QuietStep DEF IInv, ResidentAreLive, Resident

\* All frames are pinned when none can be taken.
LEMMA NothingToTake ==
  ASSUME Pool, NoFrameToTake
  PROVE  \A f \in Frames : Holders(f) # {}
<1>1. replacer.evictable = {} /\ free_list = {}
  <2>1. replacer.evictable \in SUBSET Frames /\ replacer.size = Cardinality(replacer.evictable)
    BY DEF Pool, ReplacerSound, Sound, ReplacerType
  <2>2. replacer.size = 0 => replacer.evictable = {}
    BY <2>1, FrameSetsFinite, FS_EmptySet
  <2> QED
    BY <2>2 DEF NoFrameToTake, Victims
<1>2. \A f \in Frames : pages[f].pin_count # 0
  BY <1>1 DEF Pool, ReplacerSound
<1> QED
  BY <1>2, PinnedMeansHeld DEF Pool

LEMMA HangStep ==
  \A h \in Handles : IInv /\ (NewPageHangs(h) \/ \E p \in PageIds : FetchHangs(h, p)) => IInv'
<1> SUFFICES ASSUME NEW h \in Handles, IInv,
                    NewPageHangs(h) \/ \E p \in PageIds : FetchHangs(h, p)
             PROVE  IInv'
  OBVIOUS
<1>1. /\ status = "running" /\ status' = "hung" /\ NoFrameToTake
      /\ next_page_id' = next_page_id \/ (next_page_id \in PageIds /\ next_page_id' = next_page_id + 1)
      /\ UNCHANGED <<pages, page_table, free_list, replacer, guards, disk, live>>
  BY DEF NewPageHangs, FetchHangs
<1>2. Pool'
  BY <1>1 DEF IInv, Pool, PoolTyped, FramesAccountedFor, Resident, PinsMatchGuards, Holders,
              GuardsKeepTheirPage, Holds, ReplacerSound, CleanMeansOnDisk
<1>3. HangsOnlyWhenAllPinned'
  BY <1>1, NothingToTake DEF IInv, HangsOnlyWhenAllPinned, Holders
<1>4. Typed' /\ ResidentAreLive' /\ LivePagesStored'
  BY <1>1, PoolAssumption DEF IInv, Typed, Status, PageIds, ResidentAreLive, LivePagesStored, Resident
<1>5. LiveIdsUsed' /\ HeaderFirst' /\ Phase'
  BY <1>1 DEF IInv, Typed, LiveIdsUsed, NextId, Starting, HeaderFirst, Phase, PageIds
<1> QED
  BY <1>2, <1>3, <1>4, <1>5 DEF IInv

\* Closing.
LEMMA FetchHeaderToCloseStep == \A h \in Handles : IInv /\ FetchHeaderToClose(h) => IInv'
<1> SUFFICES ASSUME NEW h \in Handles, IInv, FetchHeaderToClose(h) PROVE IInv'
  OBVIOUS
<1>1. /\ status = "running" /\ status' = "closing" /\ Idle /\ HeaderId \in live
      /\ next_page_id' = next_page_id /\ live' = live
      /\ FetchPage(h, HeaderId)
  BY DEF FetchHeaderToClose
<1>2. ~Holds(h) /\ Reachable(HeaderId)
  BY <1>1 DEF Idle, IInv, LivePagesStored, Reachable
<1>3. /\ Pool'
      /\ \A q \in PageIds : Stored(q)' = Stored(q) /\ (Reachable(q) => Reachable(q)')
      /\ \A q \in PageIds : Resident(q)' => q = HeaderId \/ Resident(q)
      /\ \A k \in Handles \ {h} : guards'[k] = guards[k]
      /\ guards'[h].held = HeaderId
  BY <1>1, <1>2, HeaderIsPage, FetchPool DEF IInv
<1>4. Typed' /\ ResidentAreLive' /\ LivePagesStored'
  BY <1>1, <1>3 DEF IInv, Typed, Status, ResidentAreLive, LivePagesStored, Reachable
<1>5. LiveIdsUsed' /\ HeaderFirst' /\ HangsOnlyWhenAllPinned'
  BY <1>1 DEF IInv, LiveIdsUsed, NextId, Starting, HeaderFirst, HangsOnlyWhenAllPinned
<1>6. \A k \in Handles : Holds(k)' => k = h
  BY <1>1, <1>3 DEF Idle, Holds
<1>7. Phase'
  BY <1>1, <1>3, <1>6 DEF Phase
<1> QED
  BY <1>3, <1>4, <1>5, <1>7 DEF IInv

LEMMA SaveCountReleases ==
  ASSUME Pool, next_page_id \in 0 .. MaxPageId + 1, NEW h \in Handles, SaveCount(h)
  PROVE  /\ Released(guards[h].page, TRUE, pages', replacer')
         /\ pages'[guards[h].page].data = [pages[guards[h].page].data EXCEPT !.allocate_cnt = next_page_id]
<1> DEFINE f == guards[h].page
           g == [guards[h] EXCEPT !.is_dirty = TRUE]
           u == Unpinned(g).pages
<1>0. Holds(h) /\ guards[h] \in Guard
  BY DEF SaveCount, Pool, PoolTyped
<1>1. g \in Guard /\ g.page = f /\ g.is_dirty = TRUE
  BY <1>0 DEF Guard
<1>2. /\ Released(f, TRUE, u, Unpinned(g).replacer)
      /\ u[f].data = pages[f].data
  <2> HIDE DEF g
  <2>1. Released(g.page, g.is_dirty, Unpinned(g).pages, Unpinned(g).replacer)
        /\ Unpinned(g).pages[g.page].data = pages[g.page].data
    BY <1>0, <1>1, UnpinnedReleases
  <2> QED
    BY <1>1, <2>1
<1>3. f \in Frames /\ replacer' = Unpinned(g).replacer /\ pages' = [u EXCEPT ![f].data.allocate_cnt = next_page_id]
  BY <1>0, HeldFrame DEF SaveCount
<1> HIDE DEF f, g, u
<1> DEFINE new == [u[f].data EXCEPT !.allocate_cnt = next_page_id]
<1>4. u \in [Frames -> Page]
  BY <1>2 DEF Released
<1>5. u[f].data \in Data
  BY <1>3, <1>4 DEF Page
<1>6. new \in Data
  BY <1>5 DEF Data
<1>7. pages' = [u EXCEPT ![f].data = new]
  BY <1>3, <1>4
<1> HIDE DEF new
<1>8. /\ pages' \in [Frames -> Page]
      /\ pages'[f].data = new
      /\ pages'[f].page_id = u[f].page_id
      /\ pages'[f].pin_count = u[f].pin_count
      /\ pages'[f].is_dirty = u[f].is_dirty
      /\ \A e \in Frames \ {f} : pages'[e] = u[e]
  BY <1>3, <1>4, <1>6, <1>7 DEF Page
<1>9. Released(f, TRUE, pages', replacer')
  BY <1>2, <1>3, <1>8 DEF Released
<1> QED
  BY <1>2, <1>8, <1>9 DEF f, new

LEMMA SaveCountStep == \A h \in Handles : IInv /\ SaveCount(h) => IInv'
<1> SUFFICES ASSUME NEW h \in Handles, IInv, SaveCount(h) PROVE IInv'
  OBVIOUS
<1>1. /\ status = "closing" /\ status' = "flushing" /\ Holds(h)
      /\ guards' = [guards EXCEPT ![h] = NoGuard]
      /\ UNCHANGED <<page_table, free_list, next_page_id, disk, live>>
  BY DEF SaveCount
<1>2. /\ Released(guards[h].page, TRUE, pages', replacer')
      /\ pages'[guards[h].page].data = [pages[guards[h].page].data EXCEPT !.allocate_cnt = next_page_id]
  BY SaveCountReleases DEF IInv, Typed
<1>3. /\ guards[h].held = HeaderId
      /\ \A k \in Handles : Holds(k) => k = h
      /\ guards[h].page \in Frames
      /\ page_table[HeaderId] = guards[h].page
      /\ HeaderId \in live
  BY <1>1, HeldFrame DEF IInv, Phase, HeaderFirst
<1>4. guards \in [Handles -> Guard] /\ NoGuard \in Guard /\ NoGuard.page = NoFrame
  BY DEF IInv, Pool, PoolTyped, NoGuard, Guard
<1>5. /\ guards' \in [Handles -> Guard] /\ ~Holds(h)'
      /\ \A k \in Handles \ {h} : guards'[k] = guards[k]
      /\ Idle'
  BY <1>1, <1>3, <1>4 DEF Holds, Idle
<1>6. Pool'
  <2>1. \A k \in Handles \ {h} : IF Holds(k) THEN guards'[k] = guards[k] ELSE ~Holds(k)'
    BY <1>5 DEF Holds
  <2> QED
    BY <1>1, <1>2, <1>5, <2>1, ReleasePool DEF IInv
<1>7. \A q \in PageIds : Reachable(q) => Reachable(q)'
  BY <1>1 DEF Reachable, Resident
<1>8. Typed' /\ ResidentAreLive' /\ LivePagesStored'
  BY <1>1, <1>7 DEF IInv, Typed, Status, ResidentAreLive, Resident, LivePagesStored, Reachable
<1>9. Resident(HeaderId)' /\ Stored(HeaderId)'.allocate_cnt = next_page_id
  <2>1. Resident(HeaderId)'
    BY <1>1, <1>3, PoolAssumption DEF Resident
  <2>2. Stored(HeaderId)' = pages'[guards[h].page].data
    BY <1>1, <1>3, <2>1 DEF Stored
  <2>3. pages[guards[h].page].data \in Data
    BY <1>3 DEF IInv, Pool, PoolTyped, Page
  <2> QED
    BY <1>2, <2>1, <2>2, <2>3 DEF Data
<1>10. LiveIdsUsed' /\ HeaderFirst' /\ HangsOnlyWhenAllPinned' /\ Phase'
  BY <1>1, <1>3, <1>5, <1>9
  DEF IInv, LiveIdsUsed, NextId, Starting, HeaderFirst, HangsOnlyWhenAllPinned, Phase
<1> QED
  BY <1>6, <1>8, <1>10 DEF IInv

LEMMA FlushedIsStored ==
  ASSUME Pool
  PROVE  Flushed \in [PageIds -> Data \cup {NoData}] /\ \A p \in PageIds : Flushed[p] = Stored(p)
  BY DEF Pool, PoolTyped, Flushed, Stored, Resident, Page

LEMMA FlushAllPagesStep == IInv /\ FlushAllPages => IInv'
<1> SUFFICES ASSUME IInv, FlushAllPages PROVE IInv'
  OBVIOUS
<1>1. /\ status = "flushing" /\ status' = "down" /\ disk' = Flushed /\ live' = live /\ next_page_id' = 0
      /\ Blank'
  BY DEF FlushAllPages, Blank
<1>2. disk' \in [PageIds -> Data \cup {NoData}] /\ \A p \in PageIds : disk'[p] = Stored(p)
  BY <1>1, FlushedIsStored DEF IInv
<1>3. Pool' /\ Idle' /\ \A p \in PageIds : ~Resident(p)'
  <2>1. (Blank /\ disk \in [PageIds -> Data \cup {NoData}])'
         => (Pool /\ Idle /\ \A p \in PageIds : ~Resident(p))'
    BY BlankPool, PTL
  <2> QED
    BY <1>1, <1>2, <2>1
<1>4. \A p \in live : disk'[p] # NoData
  <2> SUFFICES ASSUME NEW p \in live PROVE Stored(p) # NoData
    BY <1>2 DEF IInv, Typed
  <2>1. CASE Resident(p)
    BY <2>1, DataAssumption DEF IInv, Typed, Pool, PoolTyped, Resident, Stored, Page
  <2>2. CASE ~Resident(p)
    BY <2>2 DEF IInv, LivePagesStored, Stored
  <2> QED
    BY <2>1, <2>2
<1>5. HeaderId \in live
  BY <1>1 DEF IInv, Phase, ResidentAreLive, HeaderFirst
<1>6. SavedCount' = next_page_id
  <2>1. disk'[HeaderId] = Stored(HeaderId) /\ Stored(HeaderId).allocate_cnt = next_page_id
    BY <1>1, <1>2, HeaderIsPage DEF IInv, Phase
  <2>2. ~FirstVisit'
    BY <1>4, <1>5 DEF FirstVisit
  <2> QED
    BY <2>1, <2>2 DEF SavedCount
<1>7. Typed' /\ ResidentAreLive' /\ LivePagesStored'
  BY <1>1, <1>3, <1>4, PoolAssumption DEF IInv, Typed, Status, ResidentAreLive, LivePagesStored
<1>8. LiveIdsUsed' /\ HeaderFirst' /\ HangsOnlyWhenAllPinned' /\ Phase'
  BY <1>1, <1>3, <1>5, <1>6
  DEF IInv, LiveIdsUsed, NextId, Starting, HeaderFirst, HangsOnlyWhenAllPinned, Phase
<1> QED
  BY <1>3, <1>7, <1>8 DEF IInv

LEMMA NextIInv == IInv /\ [Next]_poolVars => IInv'
<1> SUFFICES ASSUME IInv, [Next]_poolVars PROVE IInv'
  OBVIOUS
<1>1. CASE Open
  BY <1>1, OpenStep
<1>2. CASE FlushAllPages
  BY <1>2, FlushAllPagesStep
<1>3. ASSUME NEW h \in Handles, FetchHeader(h) \/ RestoreCount(h) PROVE IInv'
  BY <1>3, FetchHeaderStep, RestoreCountStep
<1>4. ASSUME NEW h \in Handles, NewPage(h) \/ NewPageHangs(h) PROVE IInv'
  BY <1>4, NewPageStep, HangStep
<1>5. ASSUME NEW h \in Handles, Drop(h) PROVE IInv'
  BY <1>5, DropStep
<1>6. ASSUME NEW h \in Handles, FetchHeaderToClose(h) \/ SaveCount(h) PROVE IInv'
  BY <1>6, FetchHeaderToCloseStep, SaveCountStep
<1>7. ASSUME NEW h \in Handles, NEW k \in Handles, MoveAssign(h, k) PROVE IInv'
  BY <1>7, MoveAssignStep
<1>8. ASSUME NEW h \in Handles, NEW b \in Bodies, Write(h, b) \/ DropThenAppend(h, b) PROVE IInv'
  BY <1>8, WriteStep, DropThenAppendStep
<1>9. ASSUME NEW h \in Handles, NEW p \in PageIds, Fetch(h, p) \/ FetchHangs(h, p) PROVE IInv'
  BY <1>9, FetchStep, HangStep
<1>10. ASSUME NEW p \in PageIds, DeletePage(p) \/ FlushPage(p) PROVE IInv'
  BY <1>10, DeletePageStep, FlushPageStep
<1>11. CASE UNCHANGED poolVars
  <2>1. /\ UNCHANGED <<pages, page_table, free_list, replacer, guards, disk>>
        /\ UNCHANGED <<next_page_id, live, status>>
    BY <1>11 DEF poolVars
  <2>2. Pool'
    BY <2>1 DEF IInv, Pool, PoolTyped, FramesAccountedFor, Resident, PinsMatchGuards, Holders,
                GuardsKeepTheirPage, Holds, ReplacerSound, CleanMeansOnDisk
  <2>3. Typed' /\ ResidentAreLive' /\ LivePagesStored' /\ LiveIdsUsed' /\ HeaderFirst'
    BY <2>1 DEF IInv, Typed, ResidentAreLive, Resident, LivePagesStored, LiveIdsUsed, NextId,
                Starting, SavedCount, FirstVisit, HeaderFirst
  <2>4. Phase' /\ HangsOnlyWhenAllPinned'
    BY <2>1 DEF IInv, Phase, Idle, Holds, Resident, Stored, HangsOnlyWhenAllPinned, Holders
  <2> QED
    BY <2>2, <2>3, <2>4 DEF IInv
<1> QED
  BY <1>1, <1>2, <1>3, <1>4, <1>5, <1>6, <1>7, <1>8, <1>9, <1>10, <1>11 DEF Next

-----------------------------------------------------------------------------
(***************************************************************************)
(* The theorems.                                                           *)
(***************************************************************************)

LEMMA SpecIInv == Spec => []IInv
  BY InitIInv, NextIInv, PTL DEF Spec

\* Every variable keeps its type; pin counts and the replacer's counter, which
\* the code decrements, never go below zero.
THEOREM TypeCorrect == Spec => []TypeOK
<1>1. IInv => TypeOK
  BY DEF IInv, Pool, PoolTyped, ReplacerSound, Sound, Typed, TypeOK
<1> QED
  BY <1>1, SpecIInv, PTL

\* Frames, page_table_, free_list_, pin counts, guards and the replacer agree
\* in every reachable state, for any number of frames and guards.
THEOREM BooksKept == Spec => []BooksAgree
<1>1. IInv => BooksAgree
  BY DEF IInv, Pool, ReplacerSound, Sound, ReplacerAgrees, BooksAgree
<1> QED
  BY <1>1, SpecIInv, PTL

\* No write is lost to an eviction and no fetch reads past the end of the file.
THEOREM WritesKept == Spec => []NothingLost
<1>1. IInv => NothingLost
  BY DEF IInv, Pool, NothingLost
<1> QED
  BY <1>1, SpecIInv, PTL

\* A pool that hangs has every frame pinned: eviction never gives up early.
THEOREM HangJustified == Spec => []HangsOnlyWhenAllPinned
<1>1. IInv => HangsOnlyWhenAllPinned
  BY DEF IInv
<1> QED
  BY <1>1, SpecIInv, PTL

\* By the pigeonhole principle, all frames pinned and a guard to spare takes
\* more guards than frames.
LEMMA AllPinnedTakesGuards ==
  ASSUME \A f \in Frames : Holders(f) # {}, NEW h \in Handles, ~Holds(h)
  PROVE  Cardinality(Frames) < Cardinality(Handles)
<1> SUFFICES ASSUME ~(Cardinality(Frames) < Cardinality(Handles)) PROVE FALSE
  OBVIOUS
<1> DEFINE T == Handles \ {h}
           holder == [f \in Frames |-> CHOOSE k \in Holders(f) : TRUE]
<1>1. \A f \in Frames : holder[f] \in Holders(f)
  OBVIOUS
<1>2. h \notin UNION {Holders(f) : f \in Frames}
  BY PoolAssumption DEF Holders, Holds
<1>3. holder \in [Frames -> T]
  BY <1>1, <1>2 DEF Holders
<1>4. /\ Cardinality(T) = Cardinality(Handles) - 1
      /\ IsFiniteSet(T)
      /\ Cardinality(T) \in Nat /\ Cardinality(Handles) \in Nat
  BY HandleSetsFinite, OneHolderLess
<1>5. IsFiniteSet(Frames) /\ Cardinality(Frames) \in Nat
  BY FrameSetsFinite
<1>6. Cardinality(T) < Cardinality(Frames)
  BY <1>4, <1>5
<1> HIDE DEF T, holder
<1>7. PICK x \in Frames, y \in Frames : x # y /\ holder[x] = holder[y]
  BY <1>3, <1>4, <1>5, <1>6, FS_PigeonHole
<1> QED
  BY <1>1, <1>7 DEF Holders

\* Callers that never have more guards than the pool has frames never spin in
\* FetchPageRead, FetchPageWrite or NewPageGuarded.
THEOREM NoHang ==
  ASSUME Cardinality(Handles) <= Cardinality(Frames)
  PROVE  Spec => []NeverHung
<1>1. Init => NeverHung
  BY DEF Init, NeverHung
<1>2. IInv /\ NeverHung /\ [Next]_poolVars => NeverHung'
  <2> SUFFICES ASSUME IInv, NeverHung, [Next]_poolVars PROVE NeverHung'
    OBVIOUS
  <2>1. ASSUME NEW h \in Handles, ~Holds(h), NoFrameToTake PROVE FALSE
    <3>1. Cardinality(Frames) < Cardinality(Handles)
      BY <2>1, NothingToTake, AllPinnedTakesGuards DEF IInv
    <3>2. Cardinality(Frames) \in Nat /\ Cardinality(Handles) \in Nat
      BY HandleSetsFinite, FrameSetsFinite
    <3> QED
      BY <3>1, <3>2
  <2>2. CASE UNCHANGED poolVars
    BY <2>2 DEF poolVars, NeverHung
  <2>3. CASE Open \/ FlushAllPages
    BY <2>3 DEF Open, FlushAllPages, NeverHung
  <2>4. ASSUME NEW h \in Handles, FetchHeader(h) \/ RestoreCount(h) \/ NewPage(h) \/ Drop(h)
                                  \/ FetchHeaderToClose(h) \/ SaveCount(h)
        PROVE  NeverHung'
    BY <2>4 DEF FetchHeader, RestoreCount, NewPage, Drop, FetchHeaderToClose, SaveCount, NeverHung
  <2>5. ASSUME NEW h \in Handles, NEW k \in Handles, MoveAssign(h, k) PROVE NeverHung'
    BY <2>5 DEF MoveAssign, NeverHung
  <2>6. ASSUME NEW h \in Handles, NEW b \in Bodies, Write(h, b) \/ DropThenAppend(h, b)
        PROVE  NeverHung'
    BY <2>6 DEF Write, DropThenAppend, NeverHung
  <2>7. ASSUME NEW h \in Handles, NEW p \in PageIds, Fetch(h, p) PROVE NeverHung'
    BY <2>7 DEF Fetch, NeverHung
  <2>8. ASSUME NEW p \in PageIds, DeletePage(p) \/ FlushPage(p) PROVE NeverHung'
    BY <2>8 DEF DeletePage, FlushPage, NeverHung
  <2>9. ASSUME NEW h \in Handles, NewPageHangs(h) \/ \E p \in PageIds : FetchHangs(h, p)
        PROVE  NeverHung'
    BY <2>1, <2>9 DEF NewPageHangs, FetchHangs
  <2> QED
    BY <2>2, <2>3, <2>4, <2>5, <2>6, <2>7, <2>8, <2>9 DEF Next
<1> QED
  BY <1>1, <1>2, SpecIInv, PTL DEF Spec

-----------------------------------------------------------------------------
(***************************************************************************)
(* BufferPool implements PageStore: a step of the pool either leaves every *)
(* page as the client knows it, or is the PageStore operation it is meant  *)
(* to be.                                                                  *)
(***************************************************************************)
StoreView == <<StoredContent, NextId, ~Starting>>

\* Pages the client knows keep their content.
LEMMA SameContent ==
  ASSUME Typed, live' = live, \A q \in PageIds : Stored(q)' = Stored(q)
  PROVE  StoredContent' = StoredContent
  BY DEF Typed, StoredContent

\* A step between running states that touches no content is a stuttering step.
LEMMA QuietStutters ==
  ASSUME Typed, status = "running", status' \in {"running", "closing", "hung"},
         live' = live, next_page_id' = next_page_id,
         \A q \in PageIds : Stored(q)' = Stored(q)
  PROVE  UNCHANGED StoreView
  BY SameContent DEF StoreView, NextId, Starting

\* The content of a live page has a body.
LEMMA LiveData ==
  ASSUME IInv, NEW p \in live
  PROVE  Stored(p) \in Data /\ BodyOf(Stored(p)) = Stored(p).body
<1>1. p \in PageIds
  BY DEF IInv, Typed
<1>2. CASE Resident(p)
  <2>1. Stored(p) \in Data
    BY <1>1, <1>2 DEF IInv, Pool, PoolTyped, Resident, Stored, Page
  <2> QED
    BY <2>1, DataAssumption DEF BodyOf
<1>3. CASE ~Resident(p)
  <2>1. Stored(p) \in Data
    BY <1>1, <1>3 DEF IInv, LivePagesStored, Pool, PoolTyped, Stored
  <2> QED
    BY <2>1, DataAssumption DEF BodyOf
<1> QED
  BY <1>2, <1>3

\* A step that changes the body of one live page is a Put.
LEMMA PutStep ==
  ASSUME IInv, status = "running", status' = "running",
         UNCHANGED <<next_page_id, live>>,
         NEW p \in live, NEW b \in Bodies,
         \A q \in PageIds : Stored(q)' = IF q = p THEN [Stored(q) EXCEPT !.body = b] ELSE Stored(q)
  PROVE  Store!Put(p, b)
<1>1. live \in SUBSET PageIds
  BY DEF IInv, Typed
<1>2. BodyOf([Stored(p) EXCEPT !.body = b]) = b
  <2>1. Stored(p) \in Data
    BY LiveData
  <2>2. [Stored(p) EXCEPT !.body = b] \in Data /\ [Stored(p) EXCEPT !.body = b].body = b
    BY <2>1 DEF Data
  <2> QED
    BY <2>2, DataAssumption DEF BodyOf
<1>3. StoredContent' = [StoredContent EXCEPT ![p] = b]
  <2>1. \A q \in live : BodyOf(Stored(q)') = IF q = p THEN b ELSE BodyOf(Stored(q))
    BY <1>1, <1>2
  <2>2. StoredContent' = [q \in live |-> BodyOf(Stored(q)')]
    BY DEF StoredContent, BodyOf
  <2> QED
    BY <2>1, <2>2 DEF StoredContent
<1> QED
  BY <1>3 DEF Store!Put, Starting

LEMMA InitStore == Init => Store!StoreInit
<1> SUFFICES ASSUME Init PROVE Store!StoreInit
  OBVIOUS
<1>1. StoredContent = [p \in {} |-> Zero]
  BY DEF Init, StoredContent
<1>2. FirstVisit /\ Starting
  BY HeaderIsPage DEF Init, FirstVisit, Starting
<1> QED
  BY <1>1, <1>2 DEF Store!StoreInit, SavedCount

\* Opening: the ids go on where the last process stopped.
LEMMA OpenStore == IInv /\ Open => Store!Start \/ UNCHANGED StoreView
<1> SUFFICES ASSUME IInv, Open PROVE Store!Start \/ UNCHANGED StoreView
  OBVIOUS
<1>1. /\ status = "down"
      /\ status' = IF FirstVisit THEN "running" ELSE "opening"
      /\ next_page_id' = 0
      /\ UNCHANGED <<pages, page_table, disk, live>>
  BY DEF Open
<1>2. StoredContent' = StoredContent /\ SavedCount' = SavedCount
  <2>1. \A q \in PageIds : Stored(q)' = Stored(q)
    BY <1>1 DEF Stored, Resident
  <2> QED
    BY <1>1, <2>1, SameContent DEF IInv, SavedCount, FirstVisit
<1>3. CASE FirstVisit
  BY <1>1, <1>2, <1>3 DEF Store!Start, Starting, SavedCount
<1>4. CASE ~FirstVisit
  BY <1>1, <1>2, <1>4 DEF StoreView, Starting, NextId
<1> QED
  BY <1>3, <1>4

LEMMA FetchHeaderStore == \A h \in Handles : IInv /\ FetchHeader(h) => UNCHANGED StoreView
<1> SUFFICES ASSUME NEW h \in Handles, IInv, FetchHeader(h) PROVE UNCHANGED StoreView
  OBVIOUS
<1>1. /\ status = "opening" /\ status' = "restoring" /\ live' = live
      /\ FetchPage(h, HeaderId)
  BY DEF FetchHeader
<1>2. /\ \A p \in PageIds : ~Resident(p)
      /\ ~Holds(h)
      /\ Reachable(HeaderId)
  BY <1>1, HeaderIsPage DEF IInv, Phase, Idle, LivePagesStored, Reachable
<1>3. \A q \in PageIds : Stored(q)' = Stored(q)
  BY <1>1, <1>2, HeaderIsPage, FetchPool DEF IInv
<1>4. disk' = disk
  BY FirstFetchKeepsFile
<1> QED
  BY <1>1, <1>3, <1>4, SameContent DEF IInv, StoreView, NextId, Starting, SavedCount, FirstVisit

LEMMA RestoreCountStore == \A h \in Handles : IInv /\ RestoreCount(h) => Store!Start
<1> SUFFICES ASSUME NEW h \in Handles, IInv, RestoreCount(h) PROVE Store!Start
  OBVIOUS
<1>1. /\ status = "restoring" /\ status' = "running" /\ Holds(h)
      /\ next_page_id' = pages[guards[h].page].data.allocate_cnt
      /\ pages' = Unpinned(guards[h]).pages
      /\ replacer' = Unpinned(guards[h]).replacer
      /\ UNCHANGED <<page_table, disk, live>>
  BY DEF RestoreCount
<1>2. /\ guards[h].page \in Frames
      /\ pages[guards[h].page].data = disk[HeaderId]
  BY <1>1, HeldFrame DEF IInv, Phase
<1>3. /\ Released(guards[h].page, guards[h].is_dirty, pages', replacer')
      /\ pages'[guards[h].page].data = pages[guards[h].page].data
      /\ guards[h].is_dirty \in BOOLEAN
  BY <1>1, UnpinnedGuard DEF IInv
<1>4. \A q \in PageIds : Stored(q)' = Stored(q)
  BY <1>1, <1>3, ReleasedKeeps DEF IInv
<1>5. next_page_id' = SavedCount
  <2>1. pages[guards[h].page].data \in Data
    BY <1>2 DEF IInv, Pool, PoolTyped, Page
  <2> QED
    BY <1>1, <1>2, <2>1, DataAssumption DEF SavedCount, FirstVisit
<1> QED
  BY <1>1, <1>4, <1>5, SameContent DEF IInv, Store!Start, Starting

\* The clients' steps.
LEMMA FetchStore == \A h \in Handles, p \in PageIds : IInv /\ Fetch(h, p) => UNCHANGED StoreView
<1> SUFFICES ASSUME NEW h \in Handles, NEW p \in PageIds, IInv, Fetch(h, p) PROVE UNCHANGED StoreView
  OBVIOUS
<1>1. /\ status = "running" /\ ~Holds(h) /\ p \in live /\ FetchPage(h, p)
      /\ UNCHANGED <<next_page_id, live, status>>
  BY DEF Fetch
<1>2. Reachable(p)
  BY <1>1 DEF IInv, LivePagesStored, Reachable
<1>3. \A q \in PageIds : Stored(q)' = Stored(q)
  BY <1>1, <1>2, FetchPool DEF IInv
<1> QED
  BY <1>1, <1>3, QuietStutters DEF IInv

LEMMA NewPageStore == \A h \in Handles : IInv /\ NewPage(h) => Store!Allocate
<1> SUFFICES ASSUME NEW h \in Handles, IInv, NewPage(h) PROVE Store!Allocate
  OBVIOUS
<1>1. /\ status = "running" /\ status' = "running" /\ next_page_id \in PageIds
      /\ next_page_id' = next_page_id + 1 /\ live' = live \cup {next_page_id}
  BY DEF NewPage
<1>2. PICK r \in PageIds : r = next_page_id
  BY <1>1
<1>3. PICK f \in Frames : TakeFrame(h, r, f, ZeroData, TRUE)
  BY <1>2 DEF NewPage, TakeFrame
<1>4. ZeroData \in Data /\ ZeroData.body = Zero
  BY PoolAssumption DEF ZeroData, Data
<1>5. r \notin live /\ ~Resident(r)
  BY <1>1, <1>2 DEF IInv, ResidentAreLive, LiveIdsUsed, NextId, Starting, PageIds
<1>6. /\ \A q \in PageIds \ {r} : Stored(q)' = Stored(q)
      /\ Stored(r)' = ZeroData
  BY <1>3, <1>4, <1>5, TakeFrameKeeps DEF IInv
<1>7. \A q \in live' : BodyOf(Stored(q)') = IF q = r THEN Zero ELSE BodyOf(Stored(q))
  <2>1. BodyOf(ZeroData) = Zero
    BY <1>4, DataAssumption DEF BodyOf
  <2> QED
    BY <1>1, <1>2, <1>6, <2>1 DEF IInv, Typed
<1>8. StoredContent' = [q \in live' |-> BodyOf(Stored(q)')]
  BY DEF StoredContent, BodyOf
<1>9. StoredContent' = [q \in DOMAIN StoredContent \cup {r} |->
                          IF q = r THEN Zero ELSE StoredContent[q]]
  BY <1>1, <1>2, <1>7, <1>8 DEF StoredContent
<1> QED
  BY <1>1, <1>2, <1>9 DEF Store!Allocate, Store!PageIds, PageIds, Starting

LEMMA WriteStore ==
  \A h \in Handles, b \in Bodies :
    IInv /\ (Write(h, b) \/ DropThenAppend(h, b)) => \E p \in live : Store!Put(p, b)
<1> SUFFICES ASSUME NEW h \in Handles, NEW b \in Bodies, IInv,
                    Write(h, b) \/ DropThenAppend(h, b)
             PROVE  \E p \in live : Store!Put(p, b)
  OBVIOUS
<1>1. /\ status = "running" /\ status' = "running" /\ Holds(h)
      /\ UNCHANGED <<next_page_id, live>>
  BY DEF Write, DropThenAppend
<1>2. guards[h].held \in PageIds /\ guards[h].held \in live
  BY <1>1, HeldFrame, PoolAssumption DEF IInv, ResidentAreLive, Resident
<1>3. PICK p \in live : p = guards[h].held
  BY <1>2
<1>4. \A q \in PageIds : Stored(q)' = IF q = p THEN [Stored(q) EXCEPT !.body = b] ELSE Stored(q)
  <2>1. CASE Write(h, b)
    BY <1>3, <2>1, WritePool DEF IInv
  <2>2. CASE DropThenAppend(h, b)
    <3>1. /\ Released(guards[h].page, guards[h].is_dirty, pages', replacer')
          /\ pages'[guards[h].page].data = [pages[guards[h].page].data EXCEPT !.body = b]
      BY <2>2, AppendReleases DEF IInv
    <3>2. guards[h].is_dirty \in BOOLEAN /\ UNCHANGED <<page_table, disk>>
      BY <1>1, <2>2, UnpinnedGuard DEF IInv, DropThenAppend
    <3>3. /\ \A q \in PageIds :
               Stored(q)' = IF q = guards[h].held THEN pages'[guards[h].page].data ELSE Stored(q)
          /\ Stored(guards[h].held) = pages[guards[h].page].data
      BY <1>1, <3>1, <3>2, ReleasedKeeps DEF IInv
    <3> QED
      BY <1>3, <3>1, <3>3
  <2> QED
    BY <2>1, <2>2
<1> QED
  BY <1>1, <1>3, <1>4, PutStep

LEMMA GuardGoesStore ==
  \A h \in Handles :
    IInv /\ (Drop(h) \/ \E k \in Handles : MoveAssign(h, k)) => UNCHANGED StoreView
<1> SUFFICES ASSUME NEW h \in Handles, IInv,
                    Drop(h) \/ \E k \in Handles : MoveAssign(h, k)
             PROVE  UNCHANGED StoreView
  OBVIOUS
<1>1. /\ status = "running" /\ UNCHANGED <<page_table, next_page_id, disk, live, status>>
  BY DEF Drop, MoveAssign
<1>2. \A q \in PageIds : Stored(q)' = Stored(q)
  <2>1. CASE Holds(h)
    <3>1. pages' = Unpinned(guards[h]).pages /\ replacer' = Unpinned(guards[h]).replacer
      BY <2>1 DEF Drop, MoveAssign
    <3>2. /\ Released(guards[h].page, guards[h].is_dirty, pages', replacer')
          /\ pages'[guards[h].page].data = pages[guards[h].page].data
          /\ guards[h].is_dirty \in BOOLEAN
      BY <2>1, <3>1, UnpinnedGuard DEF IInv
    <3> QED
      BY <1>1, <2>1, <3>2, ReleasedKeeps DEF IInv
  <2>2. CASE ~Holds(h)
    BY <1>1, <2>2 DEF Drop, MoveAssign, Stored, Resident
  <2> QED
    BY <2>1, <2>2
<1> QED
  BY <1>1, <1>2, QuietStutters DEF IInv

LEMMA DeletePageStore == \A p \in PageIds : IInv /\ DeletePage(p) => p \in live /\ Store!Discard(p)
<1> SUFFICES ASSUME NEW p \in PageIds, IInv, DeletePage(p) PROVE p \in live /\ Store!Discard(p)
  OBVIOUS
<1>1. /\ status = "running" /\ p \in live /\ live' = live \ {p}
      /\ UNCHANGED <<next_page_id, disk, status>>
  BY DEF DeletePage
<1>2. \A q \in PageIds \ {p} : Stored(q)' = Stored(q)
  <2>1. CASE Resident(p)
    BY <2>1, DeleteFramePool DEF IInv
  <2>2. CASE ~Resident(p)
    BY <1>1, <2>2 DEF DeletePage, Resident, Stored
  <2> QED
    BY <2>1, <2>2
<1>3. StoredContent' = [q \in live' |-> BodyOf(Stored(q)')]
  BY DEF StoredContent, BodyOf
<1>4. StoredContent' = [q \in DOMAIN StoredContent \ {p} |-> StoredContent[q]]
  BY <1>1, <1>2, <1>3 DEF StoredContent, IInv, Typed
<1> QED
  BY <1>1, <1>4 DEF Store!Discard, Starting

LEMMA FlushPageStore == \A p \in PageIds : IInv /\ FlushPage(p) => UNCHANGED StoreView
<1> SUFFICES ASSUME NEW p \in PageIds, IInv, FlushPage(p) PROVE UNCHANGED StoreView
  OBVIOUS
<1>1. /\ status = "running" /\ UNCHANGED <<next_page_id, live, status>>
  BY DEF FlushPage
<1> QED
  BY <1>1, FlushPagePool, QuietStutters DEF IInv

LEMMA HangStore ==
  \A h \in Handles :
    IInv /\ (NewPageHangs(h) \/ \E p \in PageIds : FetchHangs(h, p))
      => Store!WasteId \/ UNCHANGED StoreView
<1> SUFFICES ASSUME NEW h \in Handles, IInv,
                    NewPageHangs(h) \/ \E p \in PageIds : FetchHangs(h, p)
             PROVE  Store!WasteId \/ UNCHANGED StoreView
  OBVIOUS
<1>1. /\ status = "running" /\ status' = "hung"
      /\ UNCHANGED <<pages, page_table, disk, live>>
  BY DEF NewPageHangs, FetchHangs
<1>2. StoredContent' = StoredContent
  BY <1>1, SameContent DEF IInv, Stored, Resident
<1>3. CASE NewPageHangs(h)
  BY <1>1, <1>2, <1>3 DEF NewPageHangs, Store!WasteId, Store!PageIds, PageIds, Starting
<1>4. CASE \E p \in PageIds : FetchHangs(h, p)
  BY <1>1, <1>2, <1>4 DEF FetchHangs, StoreView, NextId, Starting
<1> QED
  BY <1>3, <1>4

\* Closing: the flush puts every page and the id counter in the file.
LEMMA FetchHeaderToCloseStore == \A h \in Handles : IInv /\ FetchHeaderToClose(h) => UNCHANGED StoreView
<1> SUFFICES ASSUME NEW h \in Handles, IInv, FetchHeaderToClose(h) PROVE UNCHANGED StoreView
  OBVIOUS
<1>1. /\ status = "running" /\ status' = "closing" /\ Idle /\ HeaderId \in live
      /\ UNCHANGED <<next_page_id, live>>
      /\ FetchPage(h, HeaderId)
  BY DEF FetchHeaderToClose
<1>2. ~Holds(h) /\ Reachable(HeaderId)
  BY <1>1 DEF Idle, IInv, LivePagesStored, Reachable
<1>3. \A q \in PageIds : Stored(q)' = Stored(q)
  BY <1>1, <1>2, HeaderIsPage, FetchPool DEF IInv
<1> QED
  BY <1>1, <1>3, QuietStutters DEF IInv

LEMMA SaveCountStore == \A h \in Handles : IInv /\ SaveCount(h) => UNCHANGED StoreView
<1> SUFFICES ASSUME NEW h \in Handles, IInv, SaveCount(h) PROVE UNCHANGED StoreView
  OBVIOUS
<1>1. /\ status = "closing" /\ status' = "flushing" /\ Holds(h)
      /\ UNCHANGED <<page_table, next_page_id, disk, live>>
  BY DEF SaveCount
<1>2. /\ Released(guards[h].page, TRUE, pages', replacer')
      /\ pages'[guards[h].page].data = [pages[guards[h].page].data EXCEPT !.allocate_cnt = next_page_id]
  BY SaveCountReleases DEF IInv, Typed
<1>3. /\ \A q \in PageIds :
           Stored(q)' = IF q = guards[h].held THEN pages'[guards[h].page].data ELSE Stored(q)
      /\ Stored(guards[h].held) = pages[guards[h].page].data
  BY <1>1, <1>2, ReleasedKeeps DEF IInv
<1>4. ASSUME NEW q \in live PROVE BodyOf(Stored(q)') = BodyOf(Stored(q))
  <2>1. q \in PageIds
    BY DEF IInv, Typed
  <2>2. CASE q = guards[h].held
    <3>1. Stored(q)' = [Stored(q) EXCEPT !.allocate_cnt = next_page_id]
      BY <1>2, <1>3, <2>1, <2>2
    <3>2. Stored(q) \in Data /\ next_page_id \in 0 .. MaxPageId + 1
      BY LiveData DEF IInv, Typed
    <3>3. Stored(q)' \in Data /\ Stored(q)'.body = Stored(q).body
      BY <3>1, <3>2 DEF Data
    <3> QED
      BY <3>2, <3>3, DataAssumption DEF BodyOf
  <2>3. CASE q # guards[h].held
    BY <1>3, <2>1, <2>3
  <2> QED
    BY <2>2, <2>3
<1>5. StoredContent' = [q \in live' |-> BodyOf(Stored(q)')]
  BY DEF StoredContent, BodyOf
<1> QED
  BY <1>1, <1>4, <1>5 DEF StoreView, StoredContent, NextId, Starting

LEMMA FlushAllPagesStore == IInv /\ FlushAllPages => Store!Stop
<1> SUFFICES ASSUME IInv, FlushAllPages PROVE Store!Stop
  OBVIOUS
<1>1. /\ status = "flushing" /\ status' = "down" /\ disk' = Flushed /\ live' = live
      /\ \A p \in PageIds : page_table'[p] = NoFrame
  BY DEF FlushAllPages
<1>2. \A q \in PageIds : Stored(q)' = Stored(q) /\ disk'[q] = Stored(q)
  BY <1>1, FlushedIsStored DEF IInv, Stored, Resident
<1>3. HeaderId \in live /\ Stored(HeaderId).allocate_cnt = next_page_id
  BY <1>1 DEF IInv, Phase, HeaderFirst
<1>4. SavedCount' = next_page_id
  <2>1. disk'[HeaderId] = Stored(HeaderId) /\ Stored(HeaderId) # NoData
    BY <1>2, <1>3, HeaderIsPage, LiveData, DataAssumption
  <2> QED
    BY <1>3, <2>1 DEF SavedCount, FirstVisit
<1> QED
  BY <1>1, <1>2, <1>4, SameContent DEF IInv, Store!Stop, Starting

\* What a client reads is what it last wrote, whatever the pool evicted in the
\* meantime and through any number of clean restarts, and no page id is handed
\* out twice: for any number of frames, guards, pages and contents.
THEOREM Persistence == Spec => PagesPersist
<1>1. IInv /\ [Next]_poolVars => [Store!StoreNext]_StoreView
  <2> SUFFICES ASSUME IInv, [Next]_poolVars PROVE [Store!StoreNext]_StoreView
    OBVIOUS
  <2>0. DOMAIN StoredContent = live
    BY DEF StoredContent
  <2>1. CASE Open
    BY <2>1, OpenStore DEF Store!StoreNext
  <2>2. CASE FlushAllPages
    BY <2>2, FlushAllPagesStore DEF Store!StoreNext
  <2>3. ASSUME NEW h \in Handles, FetchHeader(h) \/ RestoreCount(h)
        PROVE  [Store!StoreNext]_StoreView
    BY <2>3, FetchHeaderStore, RestoreCountStore DEF Store!StoreNext
  <2>4. ASSUME NEW h \in Handles, NewPage(h) \/ NewPageHangs(h)
        PROVE  [Store!StoreNext]_StoreView
    BY <2>4, NewPageStore, HangStore DEF Store!StoreNext
  <2>5. ASSUME NEW h \in Handles, Drop(h) \/ \E k \in Handles : MoveAssign(h, k)
        PROVE  [Store!StoreNext]_StoreView
    BY <2>5, GuardGoesStore
  <2>6. ASSUME NEW h \in Handles, FetchHeaderToClose(h) \/ SaveCount(h)
        PROVE  [Store!StoreNext]_StoreView
    BY <2>6, FetchHeaderToCloseStore, SaveCountStore
  <2>7. ASSUME NEW h \in Handles, NEW b \in Bodies, Write(h, b) \/ DropThenAppend(h, b)
        PROVE  [Store!StoreNext]_StoreView
    BY <2>0, <2>7, WriteStore DEF Store!StoreNext
  <2>8. ASSUME NEW h \in Handles, NEW p \in PageIds, Fetch(h, p) \/ FetchHangs(h, p)
        PROVE  [Store!StoreNext]_StoreView
    BY <2>8, FetchStore, HangStore DEF Store!StoreNext
  <2>9. ASSUME NEW p \in PageIds, DeletePage(p) \/ FlushPage(p)
        PROVE  [Store!StoreNext]_StoreView
    BY <2>0, <2>9, DeletePageStore, FlushPageStore DEF Store!StoreNext
  <2>10. CASE UNCHANGED poolVars
    <3>1. UNCHANGED <<pages, page_table, disk, live, next_page_id, status>>
      BY <2>10 DEF poolVars
    <3>2. StoredContent' = StoredContent
      BY <3>1, SameContent DEF IInv, Stored, Resident
    <3> QED
      BY <3>1, <3>2 DEF StoreView, NextId, Starting, SavedCount, FirstVisit
  <2> QED
    BY <2>1, <2>2, <2>3, <2>4, <2>5, <2>6, <2>7, <2>8, <2>9, <2>10 DEF Next
<1>2. IInv /\ [Next]_poolVars => [Store!StoreNext]_(Store!storeVars)
  BY <1>1 DEF StoreView, NextId, Store!storeVars
<1> QED
  BY <1>2, InitStore, SpecIInv, PTL DEF Spec, PagesPersist, Store!StoreSpec
=============================================================================
