------------------------------- MODULE Tables -------------------------------
(***************************************************************************)
(* The executor (executor.c) over the pages of one file: the catalog on    *)
(* page 1 and the rows on the heap, a root page and what its link leads    *)
(* to.  All tables share the heap.  A table has one 4-byte column, so all  *)
(* rows have one size.  CREATE TABLE and INSERT are one step; a scan       *)
(* (SELECT, UPDATE, DELETE) takes a step for each page.                    *)
(*                                                                         *)
(* A session uses fewer pages than the cache holds, so nothing is written  *)
(* to the file before sm_close: module Storage models the cache itself.    *)
(* A schema that a scan has written over is not followed further: the      *)
(* statements on its table wait for a CREATE TABLE that writes it anew.    *)
(***************************************************************************)
EXTENDS Integers, Sequences, SequencesExt, FiniteSets

CONSTANTS
  Names,         \* table names
  Garbled,       \* a name that a scan wrote over, none of Names
  Values,        \* column values a statement can name, 0 among them
  Slots,         \* row slots on a page
  CatalogSlots,  \* TableSchema slots on the schema page
  Keyed,         \* bound of the model: whether the tables created have a primary key
  MaxPages,      \* bound of the model: page ids are 0 .. MaxPages-1
  NoOverlap,     \* the last slot ends before the link, which lies in the last 4 bytes
  LinkOf         \* otherwise: the link that a column value in the last slot spells

ASSUME TablesAssumption ==
  /\ Garbled \notin Names
  /\ 0 \in Values /\ Values \subseteq Nat
  /\ Slots \in Nat \ {0}
  /\ CatalogSlots \in Nat \ {0}
  /\ Keyed \subseteq BOOLEAN
  /\ MaxPages \in Nat \ {0, 1}
  /\ NoOverlap \in BOOLEAN
  /\ LinkOf \in [Values -> Nat]

PageIds == 0 .. MaxPages - 1
SchemaPage == 1

VARIABLES
  proc,          \* "down", "running" or "closing" (inside sm_close)
  header,        \* sm->header: page_count, root_page, schema_page
  catalog,       \* page 1 in memory: the schemas before the first empty slot
  page,          \* the heap pages in memory: row slots and link
  array,         \* sm->pages: the page ids cached in this session, and is_dirty
  scan,          \* the scan under way: kind, filter, current_page, rows
  unsaved,       \* while closing: the next entry of array to write
  file_header, file_catalog, file_page,   \* the file
  file_pages,    \* pages below this one are complete in the file
  committed,     \* history: the tables of the last sm_close that finished
  crashed,       \* history: some process ended without finishing sm_close
  damaged        \* history: some UPDATE or DELETE ran over the schema page

memory == <<header, catalog, page, array>>
file == <<file_header, file_catalog, file_page, file_pages>>
history == <<committed, crashed, damaged>>
vars == <<proc, memory, scan, unsaved, file, history>>

-----------------------------------------------------------------------------

\* A row slot: the deleted flag, the row id and the column.  Empty space is
\* a slot of zeros.
EmptySlot == [deleted |-> FALSE, row_id |-> 0, val |-> 0]
EmptyPage == [slot |-> [i \in 1 .. Slots |-> EmptySlot], link |-> 0]

\* A column whose bytes the link was written over, and what a column can hold.
Torn == -1
Cells == IF NoOverlap THEN Values ELSE Values \cup {Torn}

NoHeader == [page_count |-> 0, root_page |-> 0, schema_page |-> 0]
NoScan == [kind |-> "none", filter |-> {}, cursor |-> 0, hits |-> 0, rows |-> {}, junk |-> FALSE,
           alive |-> 0]

Later(a, b) == IF a < b THEN b ELSE a

\* load_schema: no table before the schema page is assigned, then the first
\* schema of that name.  Known: it is there, and no scan has written over it.
Schemas == IF header.schema_page = 0 THEN <<>> ELSE catalog
Named(c, name) == {i \in DOMAIN c : c[i].name = name}
FirstNamed(c, name) == {i \in Named(c, name) : \A j \in Named(c, name) : i <= j}
Known(name) == \E i \in FirstNamed(Schemas, name) : Schemas[i].whole
SchemaOf(name) == Schemas[CHOOSE i \in FirstNamed(Schemas, name) : TRUE]

\* The cache: sm_get_page adds a page it does not have, sm_allocate_page adds
\* one of zeros that is dirty from the start.
Cached == {array[i].id : i \in DOMAIN array}
Fetch(arr, p) ==
  IF \E i \in DOMAIN arr : arr[i].id = p THEN arr ELSE Append(arr, [id |-> p, dirty |-> FALSE])
Allocate(arr, p) == Append(arr, [id |-> p, dirty |-> TRUE])
MarkDirty(arr, p) ==
  [i \in DOMAIN arr |-> [arr[i] EXCEPT !.dirty = @ \/ arr[i].id = p]]

\* sm_get_page returns a page: the cache has it, or the file.
Readable(p) == p \in Cached \/ p < file_pages

\* serialize_row leaves the row id zero.
SerializeRow(v) == [deleted |-> FALSE, row_id |-> 0, val |-> v]

\* Writing a row into the last slot may write the link with it.
PutRow(pg, i, v) ==
  [slot |-> [pg.slot EXCEPT ![i] = SerializeRow(v)],
   link |-> IF i = Slots /\ ~NoOverlap THEN LinkOf[v] ELSE pg.link]

\* The first slot whose first byte, the deleted flag, is not set.
FreeOrNot(pg) == 1 .. Slots
Free(pg) == {i \in 1 .. Slots : ~pg.slot[i].deleted}
FirstFree(pg) == CHOOSE i \in Free(pg) : \A j \in Free(pg) : i <= j

\* The link in the last bytes of a page, which may be bytes of the last slot.
TornBy(pg) == IF NoOverlap THEN pg.slot ELSE [pg.slot EXCEPT ![Slots].val = Torn]
LinkLost(pg, n) == pg
LinkToItself(pg, n) == [slot |-> TornBy(pg), link |-> header.root_page]
LinkTo(pg, n) == [slot |-> TornBy(pg), link |-> n]

\* A page handed out is zero, unless a link led to it earlier in the session:
\* sm_get_page then finds that copy first.
FreshInFront(p) ==
  IF header.root_page = 0 THEN EmptyPage ELSE [EmptyPage EXCEPT !.link = page[header.root_page].link]
Fresh(p) == IF p \in Cached THEN page[p] ELSE EmptyPage

\* SELECT and UPDATE pass over a slot whose first 8 bytes are zero.
Skipped(s) == ~s.deleted /\ s.row_id = 0

\* WHERE as the set of column values that pass: all of them without a WHERE
\* or on a column that is unknown or not 4 bytes wide (for UPDATE: none),
\* otherwise the one value compared with; the operator is not looked at.
Filters == {Cells, {}} \cup {{v} : v \in Cells}

-----------------------------------------------------------------------------

Headers == [page_count : 0 .. MaxPages, root_page : PageIds, schema_page : {0, SchemaPage}]
Rows == [deleted : BOOLEAN, row_id : {0}, val : Cells]
HeapPages == [slot : [1 .. Slots -> Rows], link : Nat]
Entries == [name : Names \cup {Garbled}, pk : BOOLEAN, whole : BOOLEAN]

Kinds == {"none", "select", "update", "delete"}
Scans == [kind : Kinds, filter : SUBSET Cells, cursor : Nat, hits : Nat, rows : SUBSET Cells,
          junk : BOOLEAN, alive : Nat]

TypeOK ==
  /\ proc \in {"down", "running", "closing"}
  /\ header \in Headers /\ file_header \in Headers
  /\ catalog \in Seq(Entries) /\ Len(catalog) <= CatalogSlots
  /\ file_catalog \in Seq(Entries) /\ Len(file_catalog) <= CatalogSlots
  /\ page \in [PageIds -> HeapPages] /\ file_page \in [PageIds -> HeapPages]
  /\ array \in Seq([id : PageIds, dirty : BOOLEAN])
  /\ scan \in Scans
  /\ unsaved \in Nat
  /\ file_pages \in 0 .. MaxPages
  /\ committed \subseteq Names \cup {Garbled}
  /\ crashed \in BOOLEAN
  /\ damaged \in BOOLEAN

Init ==
  /\ proc = "down"
  /\ header = NoHeader
  /\ catalog = <<>>
  /\ page = [p \in PageIds |-> EmptyPage]
  /\ array = <<>>
  /\ scan = NoScan
  /\ unsaved = 0
  /\ file_header = NoHeader
  /\ file_catalog = <<>>
  /\ file_page = [p \in PageIds |-> EmptyPage]
  /\ file_pages = 0
  /\ committed = {}
  /\ crashed = FALSE
  /\ damaged = FALSE

\* The process ends: what is in memory is lost and the file stays.
Dies ==
  /\ proc' = "down"
  /\ header' = NoHeader
  /\ catalog' = <<>>
  /\ page' = [p \in PageIds |-> EmptyPage]
  /\ array' = <<>>
  /\ scan' = NoScan
  /\ unsaved' = 0
  /\ crashed' = TRUE
  /\ UNCHANGED <<file_header, file_catalog, file_page, committed, damaged>>

Open ==
  /\ proc = "down"
  /\ proc' = "running"
  /\ header' = IF file_header = NoHeader THEN [NoHeader EXCEPT !.page_count = 1]
               ELSE file_header
  /\ file_header' = header'
  /\ catalog' = file_catalog
  /\ page' = file_page
  /\ UNCHANGED <<array, scan, unsaved, file_catalog, file_page, file_pages, history>>

Idle == proc = "running" /\ scan.kind = "none"

\* save_schema takes the first slot that is empty or has the name, and marks
\* the schema page dirty.
NameFoundNever(c, name) == {}
NameFound(c, name) == FirstNamed(c, name)

SchemaNotDirty(arr) == arr
SchemaDirty(arr) == MarkDirty(arr, SchemaPage)

RoomForExtra(c) == Len(c) <= CatalogSlots
RoomFor(c) == Len(c) < CatalogSlots

\* execute_create_table: the first table also allocates the schema page.
CreateTable(name, pk) ==
  LET grow == header.schema_page = 0 /\ header.page_count <= SchemaPage
      old == IF grow THEN <<>> ELSE catalog
      fetched == IF grow THEN Allocate(array, header.page_count) ELSE Fetch(array, SchemaPage)
      entry == [name |-> name, pk |-> pk, whole |-> TRUE]
      same == NameFound(old, name)
  IN /\ Idle
     /\ header' = [header EXCEPT !.schema_page = SchemaPage,
                                 !.page_count = IF grow THEN @ + 1 ELSE @]
     /\ file_pages' = IF grow THEN Later(file_pages, header.page_count) ELSE file_pages
     /\ \/ /\ same # {}
           /\ catalog' = [i \in DOMAIN old |-> IF i \in same THEN entry ELSE old[i]]
           /\ array' = SchemaDirty(fetched)
        \/ /\ same = {} /\ RoomFor(old)
           /\ catalog' = Append(old, entry)
           /\ array' = SchemaDirty(fetched)
        \/ /\ same = {} /\ ~RoomFor(old)
           /\ catalog' = old
           /\ array' = fetched
     /\ UNCHANGED <<proc, page, scan, unsaved, file_header, file_catalog, file_page, history>>

\* execute_insert into a table with one integer column: the first slot of the
\* root page that is not marked deleted takes the row; when all are, a new
\* page does, and the root page's link leads to it from now on.
Insert(name, v) ==
  /\ Idle
  /\ Known(name)
  /\ ~SchemaOf(name).pk
  /\ LET n == header.page_count
         empty == header.root_page = 0
         root == IF empty THEN n ELSE header.root_page
         rootPage == IF empty THEN Fresh(n) ELSE page[root]
         new == IF empty THEN n + 1 ELSE n
         full == Free(rootPage) = {}
         schema == Fetch(array, SchemaPage)
         fetched == IF empty THEN Allocate(schema, n) ELSE Fetch(schema, root)
     IN /\ (IF full THEN new + 1 ELSE new) <= MaxPages
        /\ header' = [header EXCEPT !.root_page = root,
                                    !.page_count = IF full THEN new + 1 ELSE new]
        /\ array' = IF full
                     THEN MarkDirty(MarkDirty(Allocate(fetched, new), root), new)
                     ELSE MarkDirty(fetched, root)
        /\ page' = IF full
                   THEN [page EXCEPT ![root] = LinkTo(rootPage, new),
                                     ![new] = PutRow(Fresh(new), 1, v)]
                   ELSE [page EXCEPT ![root] = PutRow(rootPage, FirstFree(rootPage), v)]
        /\ file_pages' = Later(file_pages, IF full THEN new ELSE IF empty THEN n ELSE 0)
  /\ UNCHANGED <<proc, catalog, scan, unsaved, file_header, file_catalog, file_page, history>>

\* execute_insert into a table with a primary key never returns, as module
\* BTree finds: btree_search takes the heap's root page for an inner node and
\* loops on page 0, or finds no page behind it; then the row is written and
\* btree_insert recurses on page 0, or uses the NULL page.  Neither changes
\* another page, and no sm_close comes after it.
InsertWithKey(name) ==
  /\ Idle
  /\ Known(name)
  /\ SchemaOf(name).pk
  /\ file_pages' \in {file_pages, Later(file_pages, header.page_count)}
  /\ Dies

\* Rows a reader of the SQL expects: written, not deleted, and on the chain.
Chain == {header.root_page} \cup
         IF header.root_page = 0 THEN {} ELSE {page[header.root_page].link}
Live ==
  {x \in (Chain \cap 2 .. MaxPages - 1) \X (1 .. Slots) :
     LET s == page[x[1]].slot[x[2]] IN ~s.deleted /\ s.val # 0}

\* SELECT, UPDATE and DELETE ... WHERE start at the root page; DELETE without
\* WHERE does nothing.  (SELECT also stops after 100 rows, more than any
\* instance holds.)
StartScan(kind, name, filter) ==
  /\ Idle
  /\ Known(name)
  /\ scan' = [kind |-> kind, filter |-> filter, cursor |-> header.root_page,
              hits |-> 0, rows |-> {}, junk |-> FALSE,
              alive |-> IF kind = "select"
                        THEN Cardinality({x \in Live : page[x[1]].slot[x[2]].val \in filter})
                        ELSE 0]
  /\ array' = Fetch(array, SchemaPage)
  /\ UNCHANGED <<proc, header, catalog, page, unsaved, file, history>>

\* The slots of a page that the statement finds.
Found(kind, pg, filter) ==
  {i \in 1 .. Slots :
     /\ ~pg.slot[i].deleted
     /\ kind # "delete" => ~Skipped(pg.slot[i])
     /\ pg.slot[i].val \in filter}

MarkDeleted(pg, found) ==
  [pg EXCEPT !.slot = [i \in 1 .. Slots |->
     IF i \in found THEN [pg.slot[i] EXCEPT !.deleted = TRUE] ELSE pg.slot[i]]]

SetColumn(pg, found, v) ==
  [slot |-> [i \in 1 .. Slots |->
     IF i \in found THEN [pg.slot[i] EXCEPT !.val = v] ELSE pg.slot[i]],
   link |-> IF Slots \in found /\ ~NoOverlap THEN LinkOf[v] ELSE pg.link]

\* One round of the page loop.
ScanPage ==
  LET p == scan.cursor
      found == Found(scan.kind, page[p], scan.filter)
      shown == IF scan.kind = "delete" THEN {} ELSE found
      fetched == Fetch(array, p)
  IN /\ proc = "running"
     /\ scan.kind # "none"
     /\ p \notin {0, SchemaPage}
     /\ p \in PageIds
     /\ Readable(p)
     /\ IF scan.kind = "delete" THEN page' = [page EXCEPT ![p] = MarkDeleted(@, found)]
        ELSE IF scan.kind = "update"
        THEN \E v \in Values : page' = [page EXCEPT ![p] = SetColumn(@, found, v)]
        ELSE page' = page
     /\ array' = IF scan.kind # "select" /\ found # {} THEN MarkDirty(fetched, p) ELSE fetched
     /\ scan' = [scan EXCEPT !.cursor = page'[p].link,
                             !.hits = @ + Cardinality(shown),
                             !.rows = @ \cup {page[p].slot[i].val : i \in shown}]
     /\ UNCHANGED <<proc, header, catalog, unsaved, file, history>>

\* What a catalog can be after bytes of it were taken for rows: the names may
\* be others, or the columns and sizes, but the first byte of a name is never
\* in reach of the flag or the column of a row.
Overwritten(c) ==
  {d \in [DOMAIN c -> Entries] :
     \A i \in DOMAIN c : d[i] = c[i] \/ (~d[i].whole /\ d[i].pk = c[i].pk)}

\* One round on the schema page, where a row in the last slot can make a link
\* lead: SELECT takes bytes of schemas for rows, UPDATE and DELETE write to
\* them.  The last bytes of that page are zero, so the scan ends.
ScanSchemaPage ==
  /\ proc = "running"
  /\ scan.kind # "none"
  /\ scan.cursor = SchemaPage
  /\ \/ /\ scan.kind = "select"
        /\ \E junk \in BOOLEAN : scan' = [scan EXCEPT !.cursor = 0, !.junk = junk]
        /\ UNCHANGED <<catalog, array, damaged>>
     \/ /\ scan.kind # "select"
        /\ scan' = [scan EXCEPT !.cursor = 0]
        /\ catalog' \in Overwritten(catalog)
        /\ damaged' = (damaged \/ catalog' # catalog)
        /\ array' \in {array, MarkDirty(array, SchemaPage)}
        /\ catalog' # catalog => array' = MarkDirty(array, SchemaPage)
  /\ UNCHANGED <<proc, header, page, unsaved, file, committed, crashed>>

\* The link is zero, or leads to a page that is not there: then DELETE uses
\* the NULL pointer, SELECT and UPDATE stop.
NoMorePages == scan.cursor = 0 \/ ~Readable(scan.cursor)

LostLink ==
  /\ proc = "running"
  /\ scan.kind = "delete"
  /\ NoMorePages /\ scan.cursor # 0
  /\ UNCHANGED file_pages
  /\ Dies

EndScan ==
  /\ proc = "running"
  /\ scan.kind # "none"
  /\ NoMorePages /\ (scan.kind = "delete" => scan.cursor = 0)
  /\ scan' = NoScan
  /\ UNCHANGED <<proc, memory, unsaved, file, history>>

\* sm_close between statements: the cached pages one by one, then the header.
BeginClose ==
  /\ Idle
  /\ proc' = "closing"
  /\ unsaved' = 1
  /\ UNCHANGED <<memory, scan, file, history>>

\* A page allocated after a link had led to it is in the cache twice, and the
\* copy of zeros is written last.  (The schema page is not: it is allocated
\* before anything is cached.)
Again(k) == \E i \in 1 .. k - 1 : array[i].id = array[k].id

ClosePage ==
  /\ proc = "closing"
  /\ unsaved <= Len(array)
  /\ unsaved' = unsaved + 1
  /\ LET p == array[unsaved].id
     IN \/ /\ ~array[unsaved].dirty
           /\ UNCHANGED <<file_catalog, file_page, file_pages>>
        \/ /\ array[unsaved].dirty /\ p = SchemaPage
           /\ file_catalog' = catalog
           /\ file_pages' = Later(file_pages, p + 1)
           /\ UNCHANGED file_page
        \/ /\ array[unsaved].dirty /\ p # SchemaPage
           /\ file_page' = [file_page EXCEPT ![p] = IF Again(unsaved) THEN EmptyPage ELSE page[p]]
           /\ file_pages' = Later(file_pages, p + 1)
           /\ UNCHANGED file_catalog
  /\ UNCHANGED <<proc, memory, scan, file_header, history>>

CloseHeader ==
  /\ proc = "closing"
  /\ unsaved > Len(array)
  /\ file_header' = header
  /\ committed' = {Schemas[i].name : i \in DOMAIN Schemas}
  /\ proc' = "down"
  /\ header' = NoHeader
  /\ catalog' = <<>>
  /\ page' = [p \in PageIds |-> EmptyPage]
  /\ array' = <<>>
  /\ unsaved' = 0
  /\ UNCHANGED <<scan, file_catalog, file_page, file_pages, crashed, damaged>>

Crash ==
  /\ proc # "down"
  /\ UNCHANGED file_pages
  /\ Dies

Next ==
  \/ Open
  \/ \E name \in Names :
       \/ \E pk \in Keyed : CreateTable(name, pk)
       \/ \E v \in Values \ {0} : Insert(name, v)
       \/ InsertWithKey(name)
       \/ \E kind \in {"select", "update", "delete"} : \E filter \in Filters :
            StartScan(kind, name, filter)
  \/ ScanPage
  \/ ScanSchemaPage
  \/ LostLink
  \/ EndScan
  \/ BeginClose
  \/ ClosePage
  \/ CloseHeader
  \/ Crash

\* The loop of a statement runs on: one step of it is always taken.
Fairness == WF_vars(ScanPage \/ ScanSchemaPage \/ EndScan \/ LostLink)

Spec == Init /\ [][Next]_vars /\ Fairness

-----------------------------------------------------------------------------
(* Properties.                                                             *)

Tables == {Schemas[i].name : i \in DOMAIN Schemas}

\* The schemas lie one after the other without a gap, a name once, so the
\* loops that stop at the first empty slot miss none: until an UPDATE or a
\* DELETE follows a link to the schema page, as only rows that reach into the
\* link can make it do.
NamesUnique ==
  (\A i, j \in DOMAIN Schemas : Schemas[i].name = Schemas[j].name => i = j)
  \/ (damaged /\ ~NoOverlap)

\* The tables of a session that closed are there in every later one, whatever
\* happens in between: no other order of page writes and header write loses
\* them, and no statement but that UPDATE or DELETE.
CommittedTablesSurvive ==
  proc = "running" => committed \subseteq Tables \/ (damaged /\ ~NoOverlap)

\* The heap is the root page and at most one more, so a scan of a file that
\* no process died on ends.
ChainShort ==
  (~crashed /\ header.root_page # 0) =>
    LET link == page[header.root_page].link
    IN /\ header.root_page \in 2 .. header.page_count - 1
       /\ link # 0 => /\ link \in 2 .. header.page_count - 1
                      /\ link # header.root_page
                      /\ page[link].link = 0

\* A slot once marked deleted stays so, for the life of the process: a row
\* that was deleted is never seen again.
TombstonesStay ==
  [][proc = "running" /\ proc' = "running" =>
       \A p \in 2 .. header.page_count - 1 : \A i \in 1 .. Slots :
         page[p].slot[i].deleted => page'[p].slot[i].deleted]_vars

\* The row of an INSERT is on the chain that scans follow.
InsertIsReachable ==
  [][\A v \in Values : (\E name \in Names : Insert(name, v)) =>
       \E p \in Chain' : \E i \in 1 .. Slots : page'[p].slot[i] = SerializeRow(v)]_vars

\* Every statement that scans the heap ends.
ScansEnd == scan.kind # "none" ~> scan.kind = "none"

=============================================================================
