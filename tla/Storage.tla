------------------------------ MODULE Storage -------------------------------
(***************************************************************************)
(* The storage manager (storage.c): numbered pages in one file, a cache of *)
(* at most MaxCache of them, and a doubly linked list that orders the      *)
(* cached pages by last use.  One process at a time has the file open; its *)
(* calls arrive one after the other.  A call is one step, except sm_close, *)
(* which writes page after page: the process may die between two writes.   *)
(***************************************************************************)
EXTENDS Naturals, Sequences, FiniteSets, SequencesExt

CONSTANTS
  Frames,     \* the Page structs malloc can return
  NULL,       \* the null pointer
  WILD,       \* a pointer read from memory nobody initialised
  MaxCache,   \* MAX_CACHE_PAGES
  MaxPages,   \* bound of the model: page ids are 0 .. MaxPages-1
  Content,    \* what the bytes of a page can be
  Zero,       \* PAGE_SIZE zero bytes
  ClearLast   \* ClearLast[c]: c with its last byte set to zero

PageIds == 0 .. MaxPages - 1

ASSUME StorageAssumption ==
  /\ MaxCache \in Nat \ {0}
  /\ MaxPages \in Nat \ {0}
  /\ Zero \in Content
  /\ ClearLast \in [Content -> Content]
  /\ ClearLast[Zero] = Zero
  /\ \A c \in Content : ClearLast[ClearLast[c]] = ClearLast[c]
  /\ NULL \notin Frames
  /\ WILD \notin Frames \cup {NULL}

VARIABLES
  proc,        \* "down", "running" or "closing" (inside sm_close)
  page_count,  \* header.page_count in memory; 0 while the process is down
  pages,       \* pages[0 .. cache_size-1]; the first element is pages[0]
  frame,       \* the Page structs: page_id, data, is_dirty
  lru,         \* lru_head, lru_tail and the prev and next of every Page
  pending,     \* page just allocated and not fetched yet, 0 if none
  held,        \* the Page that sm_get_page returned last
  disk,        \* the pages in the file
  disk_pages,  \* pages below this one are complete in the file
  disk_count,  \* page_count in the file's header; 0 while the file is empty
  fresh,       \* history: cached pages that lru_touch has not reached yet
  crashed      \* history: some process ended without finishing sm_close

vars == <<proc, page_count, pages, frame, lru, pending, held,
          disk, disk_pages, disk_count, fresh, crashed>>

Cached == ToSet(pages)

\* The scan of pages[]: the first entry with this page id.
Hits(id) == {i \in DOMAIN pages : frame[pages[i]].page_id = id}
Find(id) == pages[CHOOSE i \in Hits(id) : \A j \in Hits(id) : i <= j]

\* The number of pages handed out, page 0 included.
Count == IF proc = "down" THEN disk_count ELSE page_count

\* What a caller that fetched page id now would read.
Logical(id) ==
  IF id \in PageIds /\ Hits(id) # {} THEN frame[Find(id)].data ELSE disk[id]

-----------------------------------------------------------------------------
(* The list operations, on a record of the four kinds of pointers.         *)

Pointers == Frames \cup {NULL, WILD}

EmptyList ==
  [head |-> NULL, tail |-> NULL,
   prev |-> [f \in Frames |-> NULL], next |-> [f \in Frames |-> NULL]]

LruRemoveKeepsTail(l, f) ==
  [head |-> IF l.head = f THEN l.next[f] ELSE l.head,
   tail |-> l.tail,
   prev |-> [g \in Frames |-> IF g = f THEN NULL
                              ELSE IF g = l.next[f] THEN l.prev[f] ELSE l.prev[g]],
   next |-> [g \in Frames |-> IF g = f THEN NULL
                              ELSE IF g = l.prev[f] THEN l.next[f] ELSE l.next[g]]]

LruRemove(l, f) ==
  [head |-> IF l.head = f THEN l.next[f] ELSE l.head,
   tail |-> IF l.tail = f THEN l.prev[f] ELSE l.tail,
   prev |-> [g \in Frames |-> IF g = f THEN NULL
                              ELSE IF g = l.next[f] THEN l.prev[f] ELSE l.prev[g]],
   next |-> [g \in Frames |-> IF g = f THEN NULL
                              ELSE IF g = l.prev[f] THEN l.next[f] ELSE l.next[g]]]

LruInsertFront(l, f) ==
  [head |-> f,
   tail |-> IF l.tail = NULL THEN f ELSE l.tail,
   prev |-> [g \in Frames |-> IF g = f THEN NULL
                              ELSE IF g = l.head THEN f ELSE l.prev[g]],
   next |-> [l.next EXCEPT ![f] = l.head]]

NoTouch(l, f) == IF l.head = NULL THEN LruInsertFront(l, f) ELSE l

LruTouch(l, f) == LruInsertFront(LruRemove(l, f), f)

-----------------------------------------------------------------------------
(* Disk and cache.                                                         *)

Blank == [page_id |-> 0, data |-> Zero, is_dirty |-> FALSE]

Later(a, b) == IF a < b THEN b ELSE a

\* sm_persist_page: the file grows when the page lies beyond its end.
PersistPastEnd(d, f) ==
  IF frame[f].is_dirty
  THEN [disk  |-> [d.disk EXCEPT ![frame[f].page_id] = frame[f].data],
        pages |-> Later(d.pages, frame[f].page_id + 2)]
  ELSE d

PersistTo(d, f) ==
  IF frame[f].is_dirty
  THEN [disk  |-> [d.disk EXCEPT ![frame[f].page_id] = frame[f].data],
        pages |-> Later(d.pages, frame[f].page_id + 1)]
  ELSE d

OnDisk == [disk |-> disk, pages |-> disk_pages]

\* pages[i] = pages[--cache_size] where pages[i] is the victim.
ShrinkOnly(s, f) == [i \in 1 .. Len(s) - 1 |-> s[i]]
SwapOnly(s, f) == [i \in 1 .. Len(s) |-> IF s[i] = f THEN s[Len(s)] ELSE s[i]]
SwapRemove(s, f) ==
  [i \in 1 .. Len(s) - 1 |-> IF s[i] = f THEN s[Len(s)] ELSE s[i]]

RoomForOneMore == Len(pages) <= MaxCache
Room == Len(pages) < MaxCache

Unchanged == [pages |-> pages, lru |-> lru, file |-> OnDisk, freed |-> {}]

EvictDroppingData(victim) ==
  [pages |-> SwapRemove(pages, victim),
   lru   |-> LruRemove(lru, victim),
   file  |-> OnDisk,
   freed |-> {victim}]

Evict(victim) ==
  [pages |-> SwapRemove(pages, victim),
   lru   |-> LruRemove(lru, victim),
   file  |-> PersistTo(OnDisk, victim),
   freed |-> {victim}]

\* evict_lru_page, called when the cache is full; an empty list leaves it so.
MadeRoom == IF Room \/ lru.tail = NULL THEN Unchanged ELSE Evict(lru.tail)

-----------------------------------------------------------------------------

TypeOK ==
  /\ proc \in {"down", "running", "closing"}
  /\ page_count \in 0 .. MaxPages
  /\ pages \in Seq(Frames)
  /\ frame \in [Frames -> [page_id : PageIds, data : Content, is_dirty : BOOLEAN]]
  /\ lru \in [head : Pointers, tail : Pointers,
              prev : [Frames -> Pointers], next : [Frames -> Pointers]]
  /\ pending \in PageIds
  /\ held \in Frames \cup {NULL}
  /\ disk \in [PageIds -> Content]
  /\ disk_pages \in 0 .. MaxPages
  /\ disk_count \in 0 .. MaxPages
  /\ fresh \in SUBSET Frames
  /\ crashed \in BOOLEAN

Init ==
  /\ proc = "down"
  /\ page_count = 0
  /\ pages = <<>>
  /\ frame = [f \in Frames |-> Blank]
  /\ lru = EmptyList
  /\ pending = 0
  /\ held = NULL
  /\ disk = [p \in PageIds |-> Zero]
  /\ disk_pages = 0
  /\ disk_count = 0
  /\ fresh = {}
  /\ crashed = FALSE

\* Everything the process had in memory is gone.
MemoryLost ==
  /\ proc' = "down"
  /\ page_count' = 0
  /\ pages' = <<>>
  /\ frame' = [f \in Frames |-> Blank]
  /\ lru' = EmptyList
  /\ pending' = 0
  /\ held' = NULL
  /\ fresh' = {}

\* sm_open: an empty file gets a header that counts page 0.
SmOpen ==
  /\ proc = "down"
  /\ proc' = "running"
  /\ page_count' = IF disk_count = 0 THEN 1 ELSE disk_count
  /\ disk_count' = page_count'
  /\ UNCHANGED <<pages, frame, lru, pending, held, disk, disk_pages, fresh, crashed>>

\* A caller fetches a page it has just allocated before anything else.
MayFetch(id) == proc = "running" /\ pending \in {0, id}

\* sm_get_page finds the page in the cache.  A page that was allocated has
\* whatever prev and next its memory held: lru_remove writes through them.
CacheHit(id) ==
  /\ MayFetch(id)
  /\ Hits(id) # {}
  /\ LET f == Find(id)
     IN IF WILD \in {lru.prev[f], lru.next[f]}
        THEN MemoryLost /\ crashed' = TRUE
        ELSE /\ lru' = LruTouch(lru, f)
             /\ held' = f
             /\ pending' = 0
             /\ fresh' = fresh \ {f}
             /\ UNCHANGED <<proc, page_count, pages, frame, crashed>>
  /\ UNCHANGED <<disk, disk_pages, disk_count>>

\* sm_get_page reads the page from the file, after evicting if need be.
CacheMiss(id) ==
  /\ MayFetch(id)
  /\ Hits(id) = {}
  /\ id < MadeRoom.file.pages
  /\ \E f \in Frames \ ToSet(MadeRoom.pages) :
       /\ pages' = Append(MadeRoom.pages, f)
       /\ lru' = LruInsertFront(MadeRoom.lru, f)
       /\ frame' = [g \in Frames |->
            IF g = f THEN [page_id |-> id, data |-> MadeRoom.file.disk[id], is_dirty |-> FALSE]
            ELSE IF g \in MadeRoom.freed THEN Blank ELSE frame[g]]
       /\ held' = f
  /\ disk' = MadeRoom.file.disk
  /\ disk_pages' = MadeRoom.file.pages
  /\ pending' = 0
  /\ UNCHANGED <<proc, page_count, disk_count, fresh, crashed>>

\* The file has no such page: sm_get_page returns NULL, after evicting if
\* need be.  A caller that has just allocated the page uses the NULL.
ShortRead(id) ==
  /\ MayFetch(id)
  /\ Hits(id) = {}
  /\ id >= MadeRoom.file.pages
  /\ disk' = MadeRoom.file.disk
  /\ disk_pages' = MadeRoom.file.pages
  /\ IF pending # 0
     THEN MemoryLost /\ crashed' = TRUE
     ELSE /\ pages' = MadeRoom.pages
          /\ lru' = MadeRoom.lru
          /\ frame' = [g \in Frames |-> IF g \in MadeRoom.freed THEN Blank ELSE frame[g]]
          /\ held' = NULL
          /\ UNCHANGED <<proc, page_count, pending, fresh, crashed>>
  /\ UNCHANGED disk_count

CleanPage(n) == [page_id |-> n, data |-> Zero, is_dirty |-> FALSE]
NewPage(n) == [page_id |-> n, data |-> Zero, is_dirty |-> TRUE]

\* sm_allocate_page: the write of one byte before the new page's offset
\* lands on the last byte of the page before it.  A full cache has no place
\* for the new page, which is then lost.
SmAllocatePage ==
  LET n == page_count
  IN /\ proc = "running"
     /\ pending = 0
     /\ n < MaxPages
     /\ disk' = [disk EXCEPT ![n - 1] = ClearLast[@]]
     /\ disk_pages' = Later(disk_pages, n)
     /\ page_count' = n + 1
     /\ pending' = n
     /\ IF Room
        THEN \E f \in Frames \ Cached : \E garbage \in {NULL, WILD} :
               /\ pages' = Append(pages, f)
               /\ frame' = [frame EXCEPT ![f] = NewPage(n)]
               /\ lru' = [lru EXCEPT !.prev[f] = garbage, !.next[f] = garbage]
               /\ fresh' = fresh \cup {f}
        ELSE UNCHANGED <<pages, frame, lru, fresh>>
     /\ UNCHANGED <<proc, held, disk_count, crashed>>

Modified(pg, c) == [pg EXCEPT !.data = c, !.is_dirty = TRUE]

\* The executor or the B-tree writes the page it fetched last; the executor
\* also does between an allocation and the fetch of the new page.  (The B-tree
\* would write through older pointers, btree.c:146 and 183, when the insert into
\* a child returns: module BTree shows that it never does.)
WritePage ==
  /\ proc = "running"
  /\ held # NULL
  /\ \E c \in Content : frame' = [frame EXCEPT ![held] = Modified(@, c)]
  /\ UNCHANGED <<proc, page_count, pages, lru, pending, held,
                 disk, disk_pages, disk_count, fresh, crashed>>

\* sm_close: the list is not used any more.
BeginClose ==
  /\ proc = "running"
  /\ pending = 0
  /\ proc' = "closing"
  /\ lru' = EmptyList
  /\ held' = NULL
  /\ fresh' = {}
  /\ UNCHANGED <<page_count, pages, frame, pending, disk, disk_pages, disk_count, crashed>>

ClosePage ==
  LET f == Head(pages)
  IN /\ proc = "closing"
     /\ pages # <<>>
     /\ disk' = PersistTo(OnDisk, f).disk
     /\ disk_pages' = PersistTo(OnDisk, f).pages
     /\ pages' = Tail(pages)
     /\ frame' = [frame EXCEPT ![f] = Blank]
     /\ UNCHANGED <<proc, page_count, lru, pending, held, disk_count, fresh, crashed>>

HeaderAsOpened == disk_count
HeaderCount == page_count

CloseHeader ==
  /\ proc = "closing"
  /\ pages = <<>>
  /\ disk_count' = HeaderCount
  /\ proc' = "down"
  /\ page_count' = 0
  /\ UNCHANGED <<pages, frame, lru, pending, held, disk, disk_pages, fresh, crashed>>

\* A signal, a failed statement or exit() ends the process at any point.
Crash ==
  /\ proc # "down"
  /\ MemoryLost
  /\ crashed' = TRUE
  /\ UNCHANGED <<disk, disk_pages, disk_count>>

Next ==
  \/ SmOpen
  \/ \E id \in PageIds : CacheHit(id) \/ CacheMiss(id) \/ ShortRead(id)
  \/ SmAllocatePage
  \/ WritePage
  \/ BeginClose
  \/ ClosePage
  \/ CloseHeader
  \/ Crash

Spec == Init /\ [][Next]_vars

-----------------------------------------------------------------------------
(* The list.                                                               *)

Listed == Cached \ fresh

\* The pointers of l thread the pages S in the order s.
IsList(l, s, S) ==
  /\ l.head = IF s = <<>> THEN NULL ELSE s[1]
  /\ l.tail = IF s = <<>> THEN NULL ELSE s[Len(s)]
  /\ \A i \in DOMAIN s :
       /\ l.prev[s[i]] = IF i = 1 THEN NULL ELSE s[i - 1]
       /\ l.next[s[i]] = IF i = Len(s) THEN NULL ELSE s[i + 1]
  /\ \A i, j \in DOMAIN s : s[i] = s[j] => i = j
  /\ ToSet(s) = S

\* The pages that were fetched are exactly the ones on the list: the two ends
\* are NULL together, each link has its opposite, and no pointer leads to a
\* page that is not cached (lru_remove, lru_insert_front, evict_lru_page).
ListLinked ==
  proc = "running" =>
    /\ fresh \subseteq Cached
    /\ lru.head \in Listed \cup {NULL}
    /\ lru.tail \in Listed \cup {NULL}
    /\ (lru.head = NULL) <=> (Listed = {})
    /\ (lru.tail = NULL) <=> (Listed = {})
    /\ \A f \in Listed :
         /\ lru.prev[f] \in Listed \cup {NULL}
         /\ lru.next[f] \in Listed \cup {NULL}
         /\ (lru.prev[f] = NULL) <=> (lru.head = f)
         /\ (lru.next[f] = NULL) <=> (lru.tail = f)
         /\ lru.next[f] # NULL => lru.prev[lru.next[f]] = f
         /\ lru.prev[f] # NULL => lru.next[lru.prev[f]] = f

\* The order in which the pointers of l thread the pages S, and none where they
\* do not, as in sm_close.
OrderOf(l, S) ==
  LET threads == {s \in [1 .. Cardinality(S) -> S] : IsList(l, s, S)}
  IN IF threads = {} THEN <<>> ELSE CHOOSE s \in threads : TRUE

ListOrder == OrderOf(lru, Listed)

Order == INSTANCE LruOrder WITH order <- ListOrder, recent <- held

\* The list orders the pages by last use, and eviction takes the oldest.
LruSpec == Order!Spec

-----------------------------------------------------------------------------
(* The cache.                                                              *)

\* No Page struct is in the array twice (sm_get_page, evict_lru_page).
NoFrameTwice ==
  \A i, j \in DOMAIN pages : pages[i] = pages[j] => i = j

\* As long as no process has died, a page number has at most one copy in the
\* cache, so what is written to it is what the next fetch reads.
UniqueIds ==
  ~crashed => \A f, g \in Cached : frame[f].page_id = frame[g].page_id => f = g

\* pages[] is never written past its end: a full cache has a page on the list
\* to evict, in spite of the pages that sm_allocate_page leaves off it.
CacheBounded == Len(pages) <= MaxCache

\* The caller's pointer to the page it fetched last stays good until its
\* next fetch: it is cached, and a fetch of its number finds that copy.
HeldIsCurrent ==
  (~crashed /\ held # NULL) => held \in Cached /\ Find(frame[held].page_id) = held

-----------------------------------------------------------------------------
(* The file.                                                               *)

\* Every page that was handed out can be read: from the file, or the cache
\* has a copy to write back.  Only a page whose allocation found the cache
\* full cannot.
AllocatedPagesReadable ==
  ~crashed =>
    \A p \in 1 .. Count - 1 :
      \/ p < disk_pages
      \/ \E f \in Cached : frame[f].page_id = p /\ frame[f].is_dirty
      \/ p = pending /\ ~Room

\* No page has this number.
NoPage == MaxPages

Store == INSTANCE PageStore WITH
  content <- [p \in PageIds |-> ClearLast[Logical(p)]],
  count   <- Count,
  open    <- proc # "down",
  fetched <- IF held = NULL THEN NoPage ELSE frame[held].page_id,
  died    <- crashed

\* The manager keeps what PageStore promises, as long as no process died and
\* up to the last byte of a page.
StoreSpec == Store!Spec

=============================================================================
