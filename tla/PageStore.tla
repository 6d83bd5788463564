------------------------------ MODULE PageStore ------------------------------
(***************************************************************************)
(* What a BufferPoolManager promises the index and the ticket lists built  *)
(* on it: numbered pages that keep what was written to them, across        *)
(* evictions and across a clean exit and restart, and page numbers that    *)
(* are never handed out twice.  No frames, no pins, no disk.               *)
(***************************************************************************)
EXTENDS Integers

CONSTANTS Bodies,       \* contents a page can have
          Zero,         \* the content of a fresh page
          MaxPageId     \* bound on the page ids handed out

VARIABLES content,      \* the live pages and what they hold
          nextId,       \* the next page id to hand out
          up            \* a process has the store open

storeVars == <<content, nextId, up>>

PageIds == 0 .. MaxPageId

StoreInit == content = [p \in {} |-> Zero] /\ nextId = 0 /\ up = FALSE

Start == ~up /\ up' = TRUE /\ UNCHANGED <<content, nextId>>

Stop == up /\ up' = FALSE /\ UNCHANGED <<content, nextId>>

\* Fresh pages are zero; their id has never been used before.
Allocate ==
  /\ up
  /\ nextId \in PageIds
  /\ content' = [p \in DOMAIN content \cup {nextId} |->
                   IF p = nextId THEN Zero ELSE content[p]]
  /\ nextId' = nextId + 1
  /\ UNCHANGED up

\* An allocation that finds no frame still uses up its id.
WasteId == up /\ nextId \in PageIds /\ nextId' = nextId + 1 /\ UNCHANGED <<content, up>>

Put(p, b) ==
  /\ up
  /\ content' = [content EXCEPT ![p] = b]
  /\ UNCHANGED <<nextId, up>>

Discard(p) ==
  /\ up
  /\ content' = [q \in DOMAIN content \ {p} |-> content[q]]
  /\ UNCHANGED <<nextId, up>>

StoreNext ==
  \/ Start \/ Stop \/ Allocate \/ WasteId
  \/ \E p \in DOMAIN content : Discard(p) \/ \E b \in Bodies : Put(p, b)

StoreSpec == StoreInit /\ [][StoreNext]_storeVars
==============================================================================
