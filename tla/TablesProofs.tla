---------------------------- MODULE TablesProofs ----------------------------
(***************************************************************************)
(* Theorems about the catalog and the row heap, for any number of tables,  *)
(* values, row slots, catalog slots and pages.                             *)
(***************************************************************************)
EXTENDS Tables, SequenceLemmas, FiniteSetTheorems

-----------------------------------------------------------------------------
(* Pages.                                                                  *)

\* The page of zeros is a heap page, as is a row's slot a row.
LEMMA ZeroPage ==
  /\ EmptyPage \in HeapPages
  /\ EmptyPage.link = 0
  /\ Free(EmptyPage) # {}
  /\ \A v \in Values : SerializeRow(v) \in Rows /\ v \in Cells
<1>0. Values \subseteq Cells
  BY DEF Cells
<1>1. EmptySlot \in Rows
  BY <1>0, TablesAssumption DEF EmptySlot, Rows
<1>2. EmptyPage \in HeapPages
  BY <1>1, Zenon, TablesAssumption DEF EmptyPage, HeapPages
<1>3. 1 \in Free(EmptyPage)
  BY TablesAssumption DEF Free, EmptyPage, EmptySlot
<1> QED BY <1>0, <1>2, <1>3 DEF EmptyPage, SerializeRow, Rows

\* The slot execute_insert takes is one whose deleted flag is not set.
LEMMA FirstFreeIsFree ==
  ASSUME NEW pg, Free(pg) # {}
  PROVE  FirstFree(pg) \in Free(pg) /\ FirstFree(pg) \in 1 .. Slots
<1>1. Free(pg) \subseteq Nat
  BY DEF Free
<1>2. \E i \in Free(pg) : \A j \in Free(pg) : i <= j
  BY <1>1, LeastPosition
<1> QED BY <1>2 DEF FirstFree, Free

\* Writing a row changes its slot, and the link only where the two overlap.
LEMMA PutRowWrites ==
  ASSUME NEW pg \in HeapPages, NEW i \in 1 .. Slots, NEW v \in Values
  PROVE  /\ PutRow(pg, i, v) \in HeapPages
         /\ PutRow(pg, i, v).slot[i] = SerializeRow(v)
         /\ \A j \in 1 .. Slots : j # i => PutRow(pg, i, v).slot[j] = pg.slot[j]
         /\ NoOverlap => PutRow(pg, i, v).link = pg.link
<1>1. pg.slot \in [1 .. Slots -> Rows] /\ pg.link \in Nat
  BY DEF HeapPages
<1>2. SerializeRow(v) \in Rows
  BY ZeroPage
<1>3. LinkOf[v] \in Nat
  BY TablesAssumption
<1> QED BY <1>1, <1>2, <1>3 DEF PutRow, HeapPages

\* Writing the link leaves the marks of the rows alone.
LEMMA LinkToWrites ==
  ASSUME NEW pg \in HeapPages, NEW n \in Nat
  PROVE  /\ LinkTo(pg, n) \in HeapPages
         /\ \A i \in 1 .. Slots : LinkTo(pg, n).slot[i].deleted = pg.slot[i].deleted
         /\ LinkTo(pg, n).link = n
<1>1. pg.slot \in [1 .. Slots -> Rows] /\ Slots \in 1 .. Slots
  BY TablesAssumption DEF HeapPages
<1>2. CASE NoOverlap
  BY <1>1, <1>2 DEF LinkTo, TornBy, HeapPages
<1>3. CASE ~NoOverlap
  <2>1. /\ [pg.slot[Slots] EXCEPT !.val = Torn] \in Rows
        /\ [pg.slot[Slots] EXCEPT !.val = Torn].deleted = pg.slot[Slots].deleted
    BY <1>1, <1>3 DEF Rows, Cells
  <2>2. TornBy(pg) = [pg.slot EXCEPT ![Slots] = [pg.slot[Slots] EXCEPT !.val = Torn]]
    BY <1>3 DEF TornBy
  <2>3. TornBy(pg) \in [1 .. Slots -> Rows]
        /\ \A i \in 1 .. Slots : TornBy(pg)[i].deleted = pg.slot[i].deleted
    BY <1>1, <2>1, <2>2
  <2> QED BY <2>3 DEF LinkTo, HeapPages
<1> QED BY <1>2, <1>3

\* DELETE marks rows and UPDATE sets columns; neither clears a mark, and
\* neither touches a link that lies apart from the rows.
LEMMA ScanWrites ==
  ASSUME NEW pg \in HeapPages, NEW found, NEW v \in Values
  PROVE  /\ MarkDeleted(pg, found) \in HeapPages
         /\ MarkDeleted(pg, found).link = pg.link
         /\ SetColumn(pg, found, v) \in HeapPages
         /\ NoOverlap => SetColumn(pg, found, v).link = pg.link
         /\ found = {} => MarkDeleted(pg, found) = pg /\ SetColumn(pg, found, v) = pg
         /\ \A i \in 1 .. Slots : pg.slot[i].deleted =>
              MarkDeleted(pg, found).slot[i].deleted /\ SetColumn(pg, found, v).slot[i].deleted
<1>1. pg.slot \in [1 .. Slots -> Rows] /\ pg.link \in Nat /\ LinkOf[v] \in Nat
      /\ pg = [slot |-> pg.slot, link |-> pg.link]
  BY TablesAssumption DEF HeapPages
<1>2. \A i \in 1 .. Slots : /\ [pg.slot[i] EXCEPT !.deleted = TRUE] \in Rows
                            /\ [pg.slot[i] EXCEPT !.val = v] \in Rows
  BY <1>1, ZeroPage DEF Rows
<1>3. /\ MarkDeleted(pg, found) \in HeapPages
      /\ MarkDeleted(pg, found).link = pg.link
  BY <1>1, <1>2 DEF MarkDeleted, HeapPages
<1>4. /\ SetColumn(pg, found, v) \in HeapPages
      /\ NoOverlap => SetColumn(pg, found, v).link = pg.link
  BY <1>1, <1>2 DEF SetColumn, HeapPages
<1>5. ASSUME NEW i \in 1 .. Slots, pg.slot[i].deleted
      PROVE  MarkDeleted(pg, found).slot[i].deleted /\ SetColumn(pg, found, v).slot[i].deleted
  BY <1>1, <1>5 DEF MarkDeleted, SetColumn, HeapPages, Rows
<1>6. ASSUME found = {}
      PROVE  MarkDeleted(pg, found) = pg /\ SetColumn(pg, found, v) = pg
  <2>1. pg.slot = [i \in 1 .. Slots |-> pg.slot[i]]
    BY <1>1
  <2>2. SetColumn(pg, found, v) = [slot |-> [i \in 1 .. Slots |-> pg.slot[i]], link |-> pg.link]
    BY <1>6 DEF SetColumn
  <2>3. MarkDeleted(pg, found) = [pg EXCEPT !.slot = [i \in 1 .. Slots |-> pg.slot[i]]]
    BY <1>6 DEF MarkDeleted
  <2>4. [pg EXCEPT !.slot = pg.slot] = [slot |-> pg.slot, link |-> pg.link]
    BY <1>1
  <2> QED BY <1>1, <2>1, <2>2, <2>3, <2>4
<1> QED BY <1>3, <1>4, <1>5, <1>6

\* How many rows there are is a number.
LEMMA RowsAreFinite ==
  /\ \A S \in SUBSET (1 .. Slots) : Cardinality(S) \in Nat
  /\ \A S \in SUBSET Live : Cardinality(S) \in Nat
<1>1. IsFiniteSet(1 .. Slots) /\ IsFiniteSet(2 .. MaxPages - 1)
  BY FS_Interval, TablesAssumption
<1>2. IsFiniteSet((2 .. MaxPages - 1) \X (1 .. Slots))
  BY <1>1, FS_Product
<1>3. Live \subseteq (2 .. MaxPages - 1) \X (1 .. Slots)
  BY DEF Live
<1> QED BY <1>1, <1>2, <1>3, FS_Subset, FS_CardinalityType

-----------------------------------------------------------------------------
(* The array of cached pages.                                              *)

Arrays == Seq([id : PageIds, dirty : BOOLEAN])

\* What any call leaves: the entries stay where they are, dirty ones dirty.
Extends(arr, new) ==
  /\ DOMAIN arr \subseteq DOMAIN new
  /\ \A i \in DOMAIN arr : new[i].id = arr[i].id /\ (arr[i].dirty => new[i].dirty)

Holds(arr, p) == \E i \in DOMAIN arr : arr[i].id = p
HoldsDirty(arr, p) == \E i \in DOMAIN arr : arr[i].id = p /\ arr[i].dirty

\* No page twice, and none that is not allocated.
Tidy(arr, n) ==
  /\ \A i \in DOMAIN arr : arr[i].id < n
  /\ \A i, j \in DOMAIN arr : arr[i].id = arr[j].id => i = j

\* What is cached are pages.
LEMMA CachedIds ==
  ASSUME NEW arr \in Arrays
  PROVE  /\ PageIds \subseteq Nat
         /\ Len(arr) \in Nat /\ DOMAIN arr = 1 .. Len(arr)
         /\ \A i \in DOMAIN arr : arr[i].id \in PageIds /\ arr[i].dirty \in BOOLEAN
<1>1. PageIds \subseteq Nat
  BY TablesAssumption DEF PageIds
<1>2. \A i \in DOMAIN arr : arr[i] \in [id : PageIds, dirty : BOOLEAN]
  BY ElementOfSeq, LenProperties DEF Arrays
<1>3. Len(arr) \in Nat /\ DOMAIN arr = 1 .. Len(arr)
  BY LenProperties DEF Arrays
<1> QED BY <1>1, <1>2, <1>3

\* Adding an entry behind the others.
LEMMA EntryAdded ==
  ASSUME NEW arr \in Arrays, NEW p \in PageIds, NEW d \in BOOLEAN
  PROVE  LET new == Append(arr, [id |-> p, dirty |-> d])
         IN /\ new \in Arrays
            /\ Extends(arr, new)
            /\ Holds(new, p) /\ (d => HoldsDirty(new, p))
            /\ \A n \in Nat : (Tidy(arr, n) /\ p < n /\ ~Holds(arr, p)) => Tidy(new, n)
<1> DEFINE e == [id |-> p, dirty |-> d]
           new == Append(arr, e)
<1>1. /\ new \in Arrays /\ Len(arr) \in Nat
      /\ DOMAIN arr = 1 .. Len(arr) /\ DOMAIN new = 1 .. Len(arr) + 1
      /\ \A i \in 1 .. Len(arr) : new[i] = arr[i]
      /\ new[Len(arr) + 1] = e /\ e.id = p /\ e.dirty = d
  BY AppendProperties, LenProperties DEF Arrays
<1> HIDE DEF new, e
<1>2. Extends(arr, new) /\ Holds(new, p) /\ (d => HoldsDirty(new, p))
  BY <1>1 DEF Extends, Holds, HoldsDirty
<1>3. ASSUME NEW n \in Nat, Tidy(arr, n), p < n, ~Holds(arr, p) PROVE Tidy(new, n)
  <2>1. \A i \in DOMAIN new : new[i].id < n
    BY <1>1, <1>3 DEF Tidy
  <2>2. ASSUME NEW i \in DOMAIN new, NEW j \in DOMAIN new, new[i].id = new[j].id PROVE i = j
    <3>1. CASE i \in DOMAIN arr /\ j \in DOMAIN arr
      BY <1>1, <1>3, <2>2, <3>1 DEF Tidy
    <3>2. CASE ~(i \in DOMAIN arr /\ j \in DOMAIN arr)
      BY <1>1, <1>3, <2>2, <3>2 DEF Holds
    <3> QED BY <3>1, <3>2
  <2> QED BY <2>1, <2>2 DEF Tidy
<1> QED BY <1>1, <1>2, <1>3 DEF new, e

\* sm_get_page.
LEMMA FetchKeeps ==
  ASSUME NEW arr \in Arrays, NEW p \in PageIds
  PROVE  /\ Fetch(arr, p) \in Arrays
         /\ Extends(arr, Fetch(arr, p))
         /\ Holds(Fetch(arr, p), p)
         /\ \A n \in Nat : (Tidy(arr, n) /\ p < n) => Tidy(Fetch(arr, p), n)
<1>1. CASE Holds(arr, p)
  BY <1>1 DEF Fetch, Holds, Extends
<1>2. CASE ~Holds(arr, p)
  <2>1. Fetch(arr, p) = Append(arr, [id |-> p, dirty |-> FALSE])
    BY <1>2 DEF Fetch, Holds
  <2> QED BY <1>2, <2>1, EntryAdded
<1> QED BY <1>1, <1>2

\* sm_allocate_page.
LEMMA AllocateKeeps ==
  ASSUME NEW arr \in Arrays, NEW p \in PageIds
  PROVE  /\ Allocate(arr, p) \in Arrays
         /\ Extends(arr, Allocate(arr, p))
         /\ HoldsDirty(Allocate(arr, p), p)
         /\ Tidy(arr, p) => Tidy(Allocate(arr, p), p + 1)
<1>1. Tidy(arr, p) => Tidy(arr, p + 1) /\ ~Holds(arr, p) /\ p + 1 \in Nat /\ p < p + 1
  <2>1. p \in Nat /\ \A i \in DOMAIN arr : arr[i].id \in Nat
    BY CachedIds
  <2> QED BY <2>1 DEF Tidy, Holds
<1> QED BY <1>1, EntryAdded DEF Allocate

\* page->is_dirty = true.
LEMMA MarkKeeps ==
  ASSUME NEW arr \in Arrays, NEW p \in PageIds
  PROVE  /\ MarkDirty(arr, p) \in Arrays
         /\ Extends(arr, MarkDirty(arr, p))
         /\ \A q \in PageIds : Holds(arr, q) => Holds(MarkDirty(arr, p), q)
         /\ Holds(arr, p) => HoldsDirty(MarkDirty(arr, p), p)
         /\ \A n \in Nat : Tidy(arr, n) => Tidy(MarkDirty(arr, p), n)
<1> DEFINE new == MarkDirty(arr, p)
<1>1. Len(arr) \in Nat /\ DOMAIN arr = 1 .. Len(arr)
      /\ \A i \in 1 .. Len(arr) : arr[i] \in [id : PageIds, dirty : BOOLEAN]
  BY LenProperties, ElementOfSeq DEF Arrays
<1>2. /\ DOMAIN new = DOMAIN arr
      /\ \A i \in DOMAIN arr : new[i] = [arr[i] EXCEPT !.dirty = arr[i].dirty \/ arr[i].id = p]
  BY <1>1 DEF MarkDirty
<1>3. new \in [1 .. Len(arr) -> [id : PageIds, dirty : BOOLEAN]]
  BY <1>1 DEF MarkDirty
<1>4. \A i \in DOMAIN arr : /\ new[i].id = arr[i].id
                            /\ new[i].dirty = (arr[i].dirty \/ arr[i].id = p)
  BY <1>1, <1>2
<1> HIDE DEF new
<1>5. new \in Arrays
  BY <1>1, <1>3 DEF Arrays
<1>6. /\ Extends(arr, new)
      /\ \A q \in PageIds : Holds(arr, q) => Holds(new, q)
      /\ Holds(arr, p) => HoldsDirty(new, p)
      /\ \A n \in Nat : Tidy(arr, n) => Tidy(new, n)
  BY <1>2, <1>4, Zenon DEF Extends, Holds, HoldsDirty, Tidy
<1> QED BY <1>5, <1>6 DEF new

\* A page that was dirty in an array is so in a longer one.
LEMMA DirtyStays ==
  ASSUME NEW a1, NEW a2, Extends(a1, a2)
  PROVE  /\ \A p : HoldsDirty(a1, p) => HoldsDirty(a2, p)
         /\ \A p : Holds(a1, p) => Holds(a2, p)
         /\ \A a3 : Extends(a2, a3) => Extends(a1, a3)
BY DEF Extends, Holds, HoldsDirty

-----------------------------------------------------------------------------
(* The inductive invariant.                                                *)

NamesIn(schemas) == {schemas[i].name : i \in DOMAIN schemas}
UniqueNames(schemas) ==
  \A i, j \in DOMAIN schemas : schemas[i].name = schemas[j].name => i = j

\* A header knows the schema page before the heap, and the heap lies behind it.
HeaderShape(h) ==
  /\ h.schema_page = 0 => h.root_page = 0 /\ h.page_count <= 1
  /\ h.schema_page # 0 => h.page_count >= 2
  /\ h.root_page # 0 => h.root_page \in 2 .. h.page_count - 1

HeaderInv ==
  /\ HeaderShape(header) /\ HeaderShape(file_header)
  /\ proc # "down" => header.page_count >= 1
  /\ proc = "down" => header = NoHeader /\ array = <<>>

CatalogInv == damaged \/ (UniqueNames(catalog) /\ UniqueNames(file_catalog))

\* A page that sm_close still has to write.
Pending(p) ==
  \E i \in DOMAIN array : array[i].id = p /\ array[i].dirty /\ (proc = "closing" => unsaved <= i)

\* The catalog in memory is the one in the file, or its page is to be written;
\* a statement has fetched that page before it scans.
SchemaInv ==
  /\ header.schema_page = 0 => array = <<>>
  /\ (proc # "down" /\ header.schema_page # 0) => Pending(SchemaPage) \/ file_catalog = catalog
  /\ proc = "closing" => unsaved >= 1
  /\ scan.kind # "none" =>
       proc = "running" /\ header.schema_page # 0 /\ Holds(array, SchemaPage)

\* The committed tables are in the file at every moment, and in the memory of
\* whoever has it open, until a scan writes over the schemas.
CommittedInv ==
  /\ committed # {} => file_header.schema_page # 0
  /\ ~damaged => /\ committed \subseteq NamesIn(file_catalog)
                 /\ proc # "down" => committed \subseteq Tables

\* Where the link lies apart from the rows it never leads to the schema page,
\* so no scan reads or writes a schema.
LinkInv ==
  NoOverlap =>
    /\ ~damaged /\ ~scan.junk /\ scan.cursor # SchemaPage
    /\ \A p \in PageIds : page[p].link # SchemaPage /\ file_page[p].link # SchemaPage

\* The heap that a header and its pages describe: a root and at most one more.
ShortHeap(h, pg) ==
  h.root_page # 0 =>
    LET link == pg[h.root_page].link
    IN link # 0 => /\ link \in 2 .. h.page_count - 1
                   /\ link # h.root_page
                   /\ pg[link].link = 0

\* Until a process dies, scans stay on the heap, so nothing is fetched before
\* it is allocated and no page is in the cache twice: what sm_close has written
\* is what the memory holds.
HeapInv ==
  NoOverlap /\ ~crashed =>
    /\ Tidy(array, header.page_count)
    /\ ShortHeap(header, page)
    /\ proc # "closing" => ShortHeap(file_header, file_page)
    /\ proc # "down" => \A p \in 2 .. header.page_count - 1 : Pending(p) \/ file_page[p] = page[p]
    /\ scan.cursor # 0 =>
         /\ proc = "running" /\ scan.kind # "none" /\ header.root_page # 0
         /\ scan.cursor \in {header.root_page, page[header.root_page].link}

TablesInv ==
  TypeOK /\ HeaderInv /\ CatalogInv /\ SchemaInv /\ CommittedInv /\ LinkInv /\ HeapInv

\* A step that only adds to the cache or marks pages dirty leaves to be written
\* what was.
LEMMA PendingStays ==
  ASSUME Extends(array, array'), proc' # "closing"
  PROVE  \A p : Pending(p) => Pending(p)'
BY DEF Extends, Pending

LEMMA DirtyIsPending ==
  ASSUME NEW p, HoldsDirty(array', p), proc' # "closing"
  PROVE  Pending(p)'
BY DEF HoldsDirty, Pending

-----------------------------------------------------------------------------
(* The catalog.                                                            *)

\* A name that is not in the catalog is added behind the others.
LEMMA AppendEntry ==
  ASSUME NEW old \in Seq(Entries), Len(old) <= CatalogSlots,
         NEW entry \in Entries, NameFound(old, entry.name) = {}, RoomFor(old)
  PROVE  /\ Append(old, entry) \in Seq(Entries)
         /\ Len(Append(old, entry)) <= CatalogSlots
         /\ UniqueNames(old) => UniqueNames(Append(old, entry))
         /\ NamesIn(old) \subseteq NamesIn(Append(old, entry))
<1> DEFINE new == Append(old, entry)
<1>1. /\ new \in Seq(Entries) /\ Len(new) = Len(old) + 1 /\ Len(old) \in Nat
      /\ DOMAIN old = 1 .. Len(old) /\ DOMAIN new = 1 .. Len(old) + 1
      /\ \A i \in 1 .. Len(old) : new[i] = old[i]
      /\ new[Len(old) + 1] = entry
  BY AppendProperties, LenProperties
<1>2. \A i \in 1 .. Len(old) : old[i].name # entry.name
  <2>1. Named(old, entry.name) \subseteq Nat
    BY <1>1 DEF Named
  <2>2. Named(old, entry.name) = {}
    BY <2>1, LeastPosition DEF NameFound, FirstNamed
  <2> QED BY <1>1, <2>2 DEF Named
<1> HIDE DEF new
<1>3. UniqueNames(old) => UniqueNames(new)
  <2> SUFFICES ASSUME UniqueNames(old),
                      NEW i \in DOMAIN new, NEW j \in DOMAIN new, new[i].name = new[j].name
               PROVE  i = j
    BY DEF UniqueNames
  <2>1. CASE i \in 1 .. Len(old) /\ j \in 1 .. Len(old)
    BY <1>1, <2>1 DEF UniqueNames
  <2>2. CASE ~(i \in 1 .. Len(old) /\ j \in 1 .. Len(old))
    BY <1>1, <1>2, <2>2
  <2> QED BY <2>1, <2>2
<1>4. NamesIn(old) \subseteq NamesIn(new)
  BY <1>1 DEF NamesIn
<1>5. Len(new) <= CatalogSlots
  BY <1>1, TablesAssumption DEF RoomFor
<1> QED BY <1>1, <1>3, <1>4, <1>5 DEF new

\* The catalog with an entry in the place of the one of its name.
WithEntry(old, entry) ==
  [i \in DOMAIN old |-> IF i \in NameFound(old, entry.name) THEN entry ELSE old[i]]

\* A table of a name that is there takes the slot of the old one.
LEMMA ReplaceEntry ==
  ASSUME NEW old \in Seq(Entries), Len(old) <= CatalogSlots,
         NEW entry \in Entries
  PROVE  /\ WithEntry(old, entry) \in Seq(Entries)
         /\ Len(WithEntry(old, entry)) <= CatalogSlots
         /\ UniqueNames(old) => UniqueNames(WithEntry(old, entry))
         /\ NamesIn(WithEntry(old, entry)) = NamesIn(old)
<1> DEFINE new == WithEntry(old, entry)
<1>1. Len(old) \in Nat /\ DOMAIN old = 1 .. Len(old) /\ \A i \in 1 .. Len(old) : old[i] \in Entries
  BY LenProperties, ElementOfSeq
<1>2. new \in [1 .. Len(old) -> Entries]
  BY <1>1 DEF WithEntry
<1>3. new \in Seq(Entries) /\ Len(new) = Len(old)
  BY <1>1, <1>2
<1>4. DOMAIN new = DOMAIN old /\ \A i \in DOMAIN old : new[i].name = old[i].name
  BY <1>1 DEF NameFound, FirstNamed, Named, WithEntry
<1> HIDE DEF new
<1>5. UniqueNames(old) => UniqueNames(new)
  BY <1>4 DEF UniqueNames
<1>6. NamesIn(new) = NamesIn(old)
  BY <1>4 DEF NamesIn
<1> QED BY <1>3, <1>5, <1>6 DEF new

\* The empty catalog.
LEMMA NoSchemas ==
  <<>> \in Seq(Entries) /\ Len(<<>>) <= CatalogSlots /\ UniqueNames(<<>>) /\ NamesIn(<<>>) = {}
BY EmptySeq, TablesAssumption DEF UniqueNames, NamesIn

\* What save_schema makes of a catalog.
LEMMA CatalogSaved ==
  ASSUME NEW old \in Seq(Entries), Len(old) <= CatalogSlots,
         NEW name \in Names, NEW pk \in BOOLEAN, NEW new,
         LET entry == [name |-> name, pk |-> pk, whole |-> TRUE]
             same == NameFound(old, name)
         IN \/ same # {} /\ new = [i \in DOMAIN old |-> IF i \in same THEN entry ELSE old[i]]
            \/ same = {} /\ RoomFor(old) /\ new = Append(old, entry)
            \/ new = old
  PROVE  /\ new \in Seq(Entries)
         /\ Len(new) <= CatalogSlots
         /\ UniqueNames(old) => UniqueNames(new)
         /\ NamesIn(old) \subseteq NamesIn(new)
<1> DEFINE entry == [name |-> name, pk |-> pk, whole |-> TRUE]
<1>1. entry \in Entries /\ entry.name = name
  BY DEF Entries
<1> HIDE DEF entry
<1>2. CASE NameFound(old, name) = {} /\ RoomFor(old) /\ new = Append(old, entry)
  BY <1>1, <1>2, AppendEntry
<1>3. CASE new = WithEntry(old, entry)
  BY <1>1, <1>3, ReplaceEntry
<1>4. CASE new = old
  BY <1>4
<1>5. \/ NameFound(old, name) = {} /\ RoomFor(old) /\ new = Append(old, entry)
      \/ new = WithEntry(old, entry)
      \/ new = old
  BY <1>1, Zenon DEF entry, WithEntry
<1> QED BY <1>2, <1>3, <1>4, <1>5

-----------------------------------------------------------------------------
(* Each step keeps the invariant.                                          *)

\* An empty header is a header.
LEMMA EmptyHeader ==
  /\ NoHeader \in Headers /\ HeaderShape(NoHeader) /\ NoHeader.root_page = 0
  /\ NoHeader.schema_page = 0 /\ NoHeader.page_count = 0
BY TablesAssumption DEF NoHeader, Headers, HeaderShape, PageIds, SchemaPage

\* No scan is a scan, and no page a cached one.
LEMMA NothingUnderWay ==
  /\ NoScan \in Scans
  /\ NoScan.kind = "none" /\ NoScan.cursor = 0 /\ ~NoScan.junk
  /\ <<>> \in Arrays /\ \A n : Tidy(<<>>, n)
BY EmptySeq DEF NoScan, Kinds, Scans, Arrays, Tidy

\* A memory full of zeros.
LEMMA ZeroPages == [p \in PageIds |-> EmptyPage] \in [PageIds -> HeapPages]
BY ZeroPage

\* Nothing is in the file when the first process opens it.
LEMMA InitTablesInv == Init => TablesInv
<1> SUFFICES ASSUME Init PROVE TablesInv
  OBVIOUS
<1>1. TypeOK
  <2>1. 0 \in 0 .. MaxPages
    BY TablesAssumption
  <2>2. page \in [PageIds -> HeapPages] /\ file_page \in [PageIds -> HeapPages]
    BY ZeroPages DEF Init
  <2> QED BY <2>1, <2>2, EmptyHeader, NothingUnderWay, NoSchemas DEF Init, TypeOK, Arrays
<1>2. HeaderInv
  BY EmptyHeader DEF Init, HeaderInv
<1>3. CatalogInv
  BY NoSchemas DEF Init, CatalogInv
<1>4. SchemaInv
  BY NothingUnderWay DEF Init, SchemaInv
<1>5. CommittedInv
  BY DEF Init, CommittedInv
<1>6. LinkInv
  BY NothingUnderWay, ZeroPage DEF Init, LinkInv, SchemaPage
<1>7. HeapInv
  BY EmptyHeader, NothingUnderWay DEF Init, HeapInv, ShortHeap
<1> QED BY <1>1, <1>2, <1>3, <1>4, <1>5, <1>6, <1>7 DEF TablesInv

\* Whatever ends the process, the file stays as it was.
LEMMA DeathKeepsTablesInv ==
  ASSUME TablesInv, Dies, file_pages' \in 0 .. MaxPages
  PROVE  TablesInv'
<1>1. TypeOK'
  BY EmptyHeader, NothingUnderWay, ZeroPages, NoSchemas, TablesAssumption
     DEF TablesInv, Dies, TypeOK, Arrays
<1>2. HeaderInv'
  BY EmptyHeader DEF TablesInv, Dies, HeaderInv
<1>3. CatalogInv'
  BY NoSchemas DEF TablesInv, Dies, CatalogInv
<1>4. SchemaInv'
  BY NothingUnderWay DEF Dies, SchemaInv
<1>5. CommittedInv'
  BY DEF TablesInv, Dies, CommittedInv
<1>6. LinkInv'
  BY NothingUnderWay, ZeroPage DEF TablesInv, Dies, LinkInv, SchemaPage
<1>7. HeapInv'
  BY DEF Dies, HeapInv
<1> QED BY <1>1, <1>2, <1>3, <1>4, <1>5, <1>6, <1>7 DEF TablesInv

\* sm_open reads what the last sm_close wrote.
LEMMA OpenKeepsTablesInv ==
  ASSUME TablesInv, Open
  PROVE  TablesInv'
<1>1. header' \in Headers /\ HeaderShape(header') /\ header'.page_count >= 1
      /\ header'.root_page = file_header.root_page
      /\ header'.schema_page = file_header.schema_page
  <2>1. CASE file_header = NoHeader
    BY <2>1, TablesAssumption
       DEF Open, NoHeader, Headers, HeaderShape, PageIds, SchemaPage
  <2>2. CASE file_header # NoHeader
    <3>1. file_header \in Headers /\ HeaderShape(file_header)
      BY DEF TablesInv, TypeOK, HeaderInv
    <3>2. file_header.page_count # 0
      BY <2>2, <3>1 DEF Headers, HeaderShape, NoHeader, PageIds
    <3> QED BY <2>2, <3>1, <3>2 DEF Open, Headers
  <2> QED BY <2>1, <2>2
<1>2. TypeOK'
  BY <1>1 DEF TablesInv, TypeOK, Open, history
<1>3. HeaderInv'
  BY <1>1 DEF HeaderInv, Open
<1>4. CatalogInv'
  BY DEF TablesInv, CatalogInv, Open, history
<1>5. SchemaInv'
  <2>1. /\ array' = array /\ proc' = "running" /\ catalog' = file_catalog
        /\ file_catalog' = file_catalog /\ scan' = scan /\ scan.kind = "none"
    BY DEF TablesInv, SchemaInv, Open
  <2>2. array = <<>>
    BY EmptyHeader DEF TablesInv, SchemaInv, HeaderInv, Open
  <2> QED BY <2>1, <2>2 DEF SchemaInv
<1>6. CommittedInv'
  BY <1>1 DEF TablesInv, CommittedInv, Open, Tables, Schemas, NamesIn, history
<1>7. LinkInv'
  BY DEF TablesInv, LinkInv, Open, history
<1>8. HeapInv'
  <2> SUFFICES ASSUME NoOverlap, ~crashed PROVE HeapInv'
    BY DEF HeapInv, Open, history
  <2>1. ShortHeap(header', page')
    <3>1. CASE file_header = NoHeader
      BY <1>1, <3>1, EmptyHeader DEF ShortHeap
    <3>2. CASE file_header # NoHeader
      BY <3>2 DEF TablesInv, HeapInv, Open, ShortHeap
    <3> QED BY <3>1, <3>2
  <2>2. ShortHeap(file_header', file_page')
    BY <2>1 DEF Open
  <2>3. scan.cursor = 0 /\ array' = <<>> /\ page' = file_page /\ file_page' = file_page
    BY DEF TablesInv, HeapInv, HeaderInv, SchemaInv, Open
  <2> QED BY <2>1, <2>2, <2>3, NothingUnderWay DEF Open, HeapInv
<1> QED BY <1>2, <1>3, <1>4, <1>5, <1>6, <1>7, <1>8 DEF TablesInv

\* execute_create_table with save_schema.
LEMMA CreateKeepsTablesInv ==
  ASSUME TablesInv, NEW name \in Names, NEW pk \in BOOLEAN, CreateTable(name, pk)
  PROVE  TablesInv'
<1> DEFINE grow == header.schema_page = 0 /\ header.page_count <= SchemaPage
           old == IF grow THEN <<>> ELSE catalog
<1>1. /\ old \in Seq(Entries) /\ Len(old) <= CatalogSlots
      /\ damaged \/ UniqueNames(old)
  BY NoSchemas DEF TablesInv, TypeOK, CatalogInv
<1>2. /\ header \in Headers /\ HeaderShape(header) /\ header.page_count \in Nat
      /\ header.page_count >= 1 /\ file_pages \in 0 .. MaxPages
  BY DEF TablesInv, TypeOK, HeaderInv, CreateTable, Idle, Headers
<1>3. /\ header' \in Headers /\ HeaderShape(header')
      /\ header'.schema_page = SchemaPage
      /\ header'.root_page = header.root_page
      /\ header'.page_count >= header.page_count
  <2> DEFINE next == IF grow THEN header.page_count + 1 ELSE header.page_count
  <2>1. header' = [header EXCEPT !.schema_page = SchemaPage, !.page_count = next]
    BY DEF CreateTable
  <2> HIDE DEF grow
  <2>2. /\ header'.schema_page = SchemaPage /\ header'.root_page = header.root_page
        /\ header'.page_count = next
    BY <1>2, <2>1 DEF Headers
  <2>3. next \in 0 .. MaxPages /\ next >= header.page_count /\ next >= 2
    BY <1>2, TablesAssumption DEF grow, Headers, HeaderShape, SchemaPage
  <2> HIDE DEF next
  <2>4. header' \in Headers
    BY <1>2, <2>1, <2>3, TablesAssumption DEF Headers, SchemaPage, PageIds
  <2>5. HeaderShape(header')
    BY <1>2, <2>2, <2>3 DEF HeaderShape, Headers, SchemaPage
  <2> QED BY <2>2, <2>3, <2>4, <2>5
<1>4. /\ catalog' \in Seq(Entries) /\ Len(catalog') <= CatalogSlots
      /\ UniqueNames(old) => UniqueNames(catalog')
      /\ NamesIn(old) \subseteq NamesIn(catalog')
  <2>1. LET entry == [name |-> name, pk |-> pk, whole |-> TRUE]
            same == NameFound(old, name)
        IN \/ same # {} /\ catalog' = [i \in DOMAIN old |-> IF i \in same THEN entry ELSE old[i]]
           \/ same = {} /\ RoomFor(old) /\ catalog' = Append(old, entry)
           \/ catalog' = old
    BY Zenon DEF CreateTable
  <2> HIDE DEF old
  <2> QED BY <1>1, <2>1, CatalogSaved
<1>5. file_pages' \in 0 .. MaxPages
  BY <1>2, <1>3 DEF CreateTable, Later, Headers
<1>6. UNCHANGED <<proc, page, scan, unsaved, file_header, file_catalog, file_page, history>>
      /\ proc = "running" /\ scan.kind = "none"
  BY DEF CreateTable, Idle
<1>7. /\ array' \in Arrays /\ Extends(array, array')
      /\ HoldsDirty(array', SchemaPage) \/ (catalog' = catalog /\ ~grow)
      /\ \A n \in Nat : (Tidy(array, n) /\ SchemaPage < n) => Tidy(array', n)
  <2> DEFINE fetched == IF grow THEN Allocate(array, header.page_count) ELSE Fetch(array, SchemaPage)
  <2>1. array \in Arrays /\ SchemaPage \in PageIds
    BY TablesAssumption DEF TablesInv, TypeOK, Arrays, SchemaPage, PageIds
  <2>2. grow => array = <<>> /\ header.page_count = SchemaPage
    BY <1>2 DEF TablesInv, SchemaInv, SchemaPage
  <2>3. /\ fetched \in Arrays /\ Extends(array, fetched) /\ Holds(fetched, SchemaPage)
        /\ grow => HoldsDirty(fetched, SchemaPage)
        /\ \A n \in Nat : (Tidy(array, n) /\ SchemaPage < n) => Tidy(fetched, n)
    <3>1. CASE grow
      <4>1. Allocate(array, SchemaPage) \in Arrays /\ Extends(array, Allocate(array, SchemaPage))
            /\ HoldsDirty(Allocate(array, SchemaPage), SchemaPage)
        BY <2>1, AllocateKeeps
      <4>2. ~Holds(array, SchemaPage)
        BY <2>2, <3>1 DEF Holds
      <4>3. \A n \in Nat : (Tidy(array, n) /\ SchemaPage < n) => Tidy(Allocate(array, SchemaPage), n)
        BY <2>1, <4>2, EntryAdded DEF Allocate
      <4> QED BY <2>2, <3>1, <4>1, <4>3 DEF Holds, HoldsDirty
    <3>2. CASE ~grow
      BY <2>1, <3>2, FetchKeeps
    <3> QED BY <3>1, <3>2
  <2>4. \/ array' = MarkDirty(fetched, SchemaPage)
        \/ catalog' = old /\ array' = fetched
    BY Zenon DEF CreateTable, SchemaDirty
  <2>5. CASE array' = MarkDirty(fetched, SchemaPage)
    <3> HIDE DEF fetched
    <3>1. /\ array' \in Arrays /\ Extends(fetched, array') /\ HoldsDirty(array', SchemaPage)
          /\ \A n \in Nat : Tidy(fetched, n) => Tidy(array', n)
      BY <2>1, <2>3, <2>5, MarkKeeps
    <3> QED BY <2>3, <3>1, DirtyStays
  <2>6. CASE catalog' = old /\ array' = fetched
    <3> HIDE DEF fetched
    <3> QED BY <2>3, <2>6
  <2> HIDE DEF fetched, old, grow
  <2> QED BY <2>4, <2>5, <2>6
<1>8. TypeOK'
  BY <1>3, <1>4, <1>5, <1>6, <1>7 DEF TablesInv, TypeOK, Arrays, history
<1>9. HeaderInv'
  BY <1>2, <1>3, <1>6 DEF TablesInv, HeaderInv, Headers
<1>10. CatalogInv'
  BY <1>1, <1>4, <1>6 DEF TablesInv, CatalogInv, history
<1>11. SchemaInv'
  <2>1. /\ header'.schema_page # 0 /\ proc' # "closing" /\ file_catalog' = file_catalog
        /\ scan'.kind = "none"
    BY <1>3, <1>6 DEF SchemaPage
  <2>2. CASE HoldsDirty(array', SchemaPage)
    BY <2>1, <2>2, DirtyIsPending DEF SchemaInv
  <2>3. CASE catalog' = catalog /\ ~grow
    <3>1. header.schema_page # 0
      BY <1>2, <2>3 DEF HeaderShape, SchemaPage
    <3>2. Pending(SchemaPage) \/ file_catalog = catalog
      BY <1>6, <3>1 DEF TablesInv, SchemaInv
    <3> QED BY <1>7, <2>1, <2>3, <3>2, PendingStays DEF SchemaInv
  <2> QED BY <1>7, <2>2, <2>3
<1>12. CommittedInv'
  <2>1. Tables \subseteq NamesIn(old)
    BY <1>2 DEF Tables, Schemas, NamesIn
  <2>2. Tables' = NamesIn(catalog')
    BY <1>3 DEF Tables, Schemas, NamesIn, SchemaPage
  <2> QED BY <1>4, <1>6, <2>1, <2>2 DEF TablesInv, CommittedInv, history
<1>13. LinkInv'
  BY <1>6 DEF TablesInv, LinkInv, history
<1>14. HeapInv'
  <2> SUFFICES ASSUME NoOverlap, ~crashed PROVE HeapInv'
    BY <1>6 DEF HeapInv, history
  <2>1. /\ Tidy(array, header.page_count) /\ ShortHeap(header, page)
        /\ ShortHeap(file_header, file_page) /\ scan.cursor = 0
        /\ \A p \in 2 .. header.page_count - 1 : Pending(p) \/ file_page[p] = page[p]
    BY <1>6 DEF TablesInv, HeapInv
  <2>2. Tidy(array', header'.page_count)
    <3>1. header'.page_count \in Nat /\ SchemaPage < header'.page_count
      BY <1>3 DEF HeaderShape, Headers, SchemaPage
    <3>2. Tidy(array, header'.page_count)
      <4>1. \A i \in DOMAIN array : array[i].id \in Nat
        BY CachedIds DEF TablesInv, TypeOK, Arrays
      <4> QED BY <1>2, <1>3, <2>1, <3>1, <4>1 DEF Tidy
    <3> QED BY <1>7, <3>1, <3>2
  <2>3. ShortHeap(header', page')
    BY <1>2, <1>3, <1>6, <2>1 DEF ShortHeap, Headers
  <2>4. ASSUME NEW p \in 2 .. header'.page_count - 1
        PROVE  Pending(p)' \/ file_page'[p] = page'[p]
    <3>1. p \in 2 .. header.page_count - 1
      BY <1>2, <2>4 DEF CreateTable, SchemaPage, Headers
    <3> QED BY <1>6, <1>7, <2>1, <3>1, PendingStays
  <2> QED BY <1>6, <2>1, <2>2, <2>3, <2>4 DEF HeapInv
<1> QED BY <1>8, <1>9, <1>10, <1>11, <1>12, <1>13, <1>14 DEF TablesInv

\* What execute_insert does to the header and the heap: the row comes to lie on
\* the root page or on a new page that the root page links to.
LEMMA InsertWrites ==
  ASSUME TablesInv, NEW name \in Names, NEW v \in Values, Insert(name, v)
  PROVE  /\ header.root_page # 0 => header'.root_page = header.root_page
         /\ header.root_page = 0 => header'.root_page = header.page_count
         /\ header'.schema_page = header.schema_page /\ header.schema_page # 0
         /\ header'.root_page \in 2 .. header'.page_count - 1
         /\ header.page_count <= header'.page_count /\ header'.page_count <= MaxPages
         /\ header' \in Headers
         /\ page' \in [PageIds -> HeapPages]
         /\ LET root == header'.root_page
                before == IF header.root_page = 0 THEN Fresh(root) ELSE page[root]
                new == header'.page_count - 1
            IN \/ /\ Free(before) = {} /\ header.root_page # 0
                  /\ new = header.page_count /\ new # root /\ new \in PageIds
                  /\ page' = [page EXCEPT ![root] = LinkTo(before, new),
                                          ![new] = PutRow(Fresh(new), 1, v)]
               \/ /\ Free(before) = {} /\ header.root_page = 0
                  /\ root \in Cached
                  /\ new = root + 1 /\ new \in PageIds
                  /\ page' = [page EXCEPT ![root] = LinkTo(before, new),
                                          ![new] = PutRow(Fresh(new), 1, v)]
               \/ /\ Free(before) # {}
                  /\ header'.page_count =
                       IF header.root_page = 0 THEN header.page_count + 1 ELSE header.page_count
                  /\ page' = [page EXCEPT ![root] = PutRow(before, FirstFree(before), v)]
<1> DEFINE n == header.page_count
           empty == header.root_page = 0
           root == IF empty THEN n ELSE header.root_page
           before == IF empty THEN Fresh(n) ELSE page[root]
           new == IF empty THEN n + 1 ELSE n
           full == Free(before) = {}
<1>1. /\ header \in Headers /\ HeaderShape(header)
      /\ page \in [PageIds -> HeapPages]
      /\ n \in Nat /\ n <= MaxPages
      /\ (IF full THEN new + 1 ELSE new) <= MaxPages
  BY DEF TablesInv, TypeOK, HeaderInv, Insert, Headers
<1>2. header.schema_page # 0 /\ n >= 2
  BY <1>1, EmptySeq DEF Insert, Known, FirstNamed, Named, Schemas, HeaderShape
<1>3. /\ header' = [header EXCEPT !.root_page = root, !.page_count = IF full THEN new + 1 ELSE new]
      /\ page' = IF full THEN [page EXCEPT ![root] = LinkTo(before, new),
                                           ![new] = PutRow(Fresh(new), 1, v)]
                 ELSE [page EXCEPT ![root] = PutRow(before, FirstFree(before), v)]
  BY DEF Insert
<1>4. /\ root \in PageIds /\ root # new /\ root >= 2 /\ root < n + 1 /\ new >= 2 /\ new \in Nat
      /\ full => new \in PageIds
      /\ (~empty) => root < n
  <2>1. header.root_page # 0 => header.root_page \in 2 .. n - 1
    BY <1>1 DEF HeaderShape
  <2> HIDE DEF full
  <2>2. CASE empty
    BY <1>1, <1>2, <2>2, TablesAssumption DEF PageIds
  <2>3. CASE ~empty
    BY <1>1, <1>2, <2>1, <2>3, TablesAssumption DEF PageIds
  <2> QED BY <2>2, <2>3
<1>5. /\ header' \in Headers
      /\ header'.root_page = root /\ header'.schema_page = header.schema_page
      /\ header'.page_count = IF full THEN new + 1 ELSE new
  <2>1. (IF full THEN new + 1 ELSE new) \in 0 .. MaxPages
    <3> HIDE DEF full, new
    <3> QED BY <1>1, <1>4, TablesAssumption
  <2> HIDE DEF full, new, root
  <2> QED BY <1>1, <1>3, <1>4, <2>1 DEF Headers
<1>6. \A p \in PageIds : Fresh(p) \in HeapPages
  BY <1>1, ZeroPage DEF Fresh
<1>7. before \in HeapPages
  BY <1>1, <1>4, <1>6
<1>8. page' \in [PageIds -> HeapPages]
  <2>1. CASE full
    <3>0. new \in Nat /\ new \in PageIds
      BY <1>4, <2>1
    <3> HIDE DEF new, before
    <3>1. LinkTo(before, new) \in HeapPages
      BY <1>7, <3>0, LinkToWrites
    <3>2. PutRow(Fresh(new), 1, v) \in HeapPages
      <4>1. Fresh(new) \in HeapPages /\ 1 \in 1 .. Slots
        BY <3>0, <1>6, TablesAssumption
      <4> QED BY <4>1, PutRowWrites
    <3> QED BY <1>1, <1>3, <2>1, <3>1, <3>2
  <2>2. CASE ~full
    <3>1. PutRow(before, FirstFree(before), v) \in HeapPages
      BY <1>7, <2>2, PutRowWrites, FirstFreeIsFree
    <3> QED BY <1>1, <1>3, <2>2, <3>1
  <2> QED BY <2>1, <2>2
<1>9. full /\ empty => root \in Cached
  BY ZeroPage DEF Fresh
<1> HIDE DEF full
<1>10. root \in 2 .. header'.page_count - 1 /\ n <= header'.page_count /\ header'.page_count <= MaxPages
  <2>1. CASE empty
    BY <1>1, <1>2, <1>4, <1>5, TablesAssumption, <2>1
  <2>2. CASE ~empty
    BY <1>1, <1>2, <1>4, <1>5, TablesAssumption, <2>2 DEF PageIds
  <2> QED BY <2>1, <2>2
<1>11. full => new = header'.page_count - 1
  BY <1>1, <1>5
<1>12. full /\ ~empty => new = n
  OBVIOUS
<1> QED
  <2>1. CASE full /\ ~empty
    BY <1>2, <1>3, <1>4, <1>5, <1>8, <1>10, <1>11, <1>12, <2>1, Zenon DEF full
  <2>2. CASE full /\ empty
    BY <1>2, <1>3, <1>4, <1>5, <1>8, <1>9, <1>10, <1>11, <2>2, Zenon DEF full
  <2>3. CASE ~full
    BY <1>2, <1>3, <1>4, <1>5, <1>8, <1>10, <2>3, Zenon DEF full
  <2> QED BY <2>1, <2>2, <2>3

\* What execute_insert does to the array: the root page is in it and dirty, and
\* so is a page that was allocated.
LEMMA InsertMarks ==
  ASSUME TablesInv, NEW name \in Names, NEW v \in Values, Insert(name, v)
  PROVE  /\ array' \in Arrays /\ Extends(array, array')
         /\ HoldsDirty(array', header'.root_page)
         /\ \A p \in header.page_count .. header'.page_count - 1 : HoldsDirty(array', p)
         /\ Tidy(array, header.page_count) => Tidy(array', header'.page_count)
<1> DEFINE n == header.page_count
           empty == header.root_page = 0
           root == IF empty THEN n ELSE header.root_page
           before == IF empty THEN Fresh(n) ELSE page[root]
           new == IF empty THEN n + 1 ELSE n
           full == Free(before) = {}
           schema == Fetch(array, SchemaPage)
           fetched == IF empty THEN Allocate(schema, n) ELSE Fetch(schema, root)
<1>1. /\ array \in Arrays /\ SchemaPage \in PageIds
      /\ n \in Nat /\ n >= 2 /\ MaxPages \in Nat
      /\ header'.root_page = root /\ root \in PageIds /\ (~empty => root < n)
  <2>1. array \in Arrays /\ SchemaPage \in PageIds /\ header \in Headers /\ HeaderShape(header)
        /\ header.schema_page # 0 /\ MaxPages \in Nat /\ PageIds \subseteq Nat
    BY TablesAssumption, InsertWrites
       DEF TablesInv, TypeOK, HeaderInv, Arrays, SchemaPage, PageIds
  <2>2. header'.root_page = root /\ header'.root_page \in PageIds
    BY InsertWrites DEF Headers
  <2>3. n \in Nat /\ n >= 2
    BY <2>1 DEF Headers, HeaderShape
  <2>4. ~empty => header.root_page \in 2 .. n - 1
    BY <2>1 DEF HeaderShape
  <2> QED BY <2>1, <2>2, <2>3, <2>4
<1>2. /\ header'.page_count = IF full THEN new + 1 ELSE new
      /\ full => new \in PageIds
      /\ array' = IF full THEN MarkDirty(MarkDirty(Allocate(fetched, new), root), new)
                  ELSE MarkDirty(fetched, root)
  <2>1. header \in Headers /\ (IF full THEN new + 1 ELSE new) <= MaxPages
        /\ header' = [header EXCEPT !.root_page = root, !.page_count = IF full THEN new + 1 ELSE new]
        /\ array' = IF full THEN MarkDirty(MarkDirty(Allocate(fetched, new), root), new)
                    ELSE MarkDirty(fetched, root)
    BY DEF TablesInv, TypeOK, Insert
  <2>2. new \in Nat
    BY <1>1
  <2> HIDE DEF full, new, root, fetched
  <2>3. header'.page_count = IF full THEN new + 1 ELSE new
    BY <2>1 DEF Headers
  <2>4. full => new \in PageIds
    BY <1>1, <2>1, <2>2 DEF PageIds
  <2> QED BY <2>1, <2>3, <2>4
<1>3. /\ schema \in Arrays /\ Extends(array, schema)
      /\ Tidy(array, n) => Tidy(schema, n)
  BY <1>1, FetchKeeps DEF SchemaPage
<1>4. /\ fetched \in Arrays /\ Extends(schema, fetched) /\ Holds(fetched, root)
      /\ empty => HoldsDirty(fetched, root)
      /\ Tidy(schema, n) => Tidy(fetched, new)
  <2> HIDE DEF schema
  <2>1. CASE empty
    BY <1>1, <1>3, <2>1, AllocateKeeps DEF Holds, HoldsDirty
  <2>2. CASE ~empty
    BY <1>1, <1>3, <2>2, FetchKeeps
  <2> QED BY <2>1, <2>2
<1>5. /\ array' \in Arrays /\ Extends(fetched, array') /\ HoldsDirty(array', root)
      /\ full => HoldsDirty(array', new)
      /\ Tidy(fetched, new) => Tidy(array', header'.page_count)
  <2>1. new \in Nat
    BY <1>1
  <2> HIDE DEF full, fetched, root, new
  <2>2. CASE full
    <3> DEFINE longer == Allocate(fetched, new)
               marked == MarkDirty(longer, root)
    <3>1. /\ longer \in Arrays /\ Extends(fetched, longer) /\ HoldsDirty(longer, new)
          /\ Tidy(fetched, new) => Tidy(longer, new + 1)
      BY <1>2, <1>4, <2>2, AllocateKeeps
    <3> HIDE DEF longer
    <3>2. Holds(longer, root)
      BY <1>4, <3>1, DirtyStays
    <3>3. /\ marked \in Arrays /\ Extends(longer, marked) /\ HoldsDirty(marked, root)
          /\ Tidy(longer, new + 1) => Tidy(marked, new + 1)
      BY <1>1, <2>1, <3>1, <3>2, MarkKeeps
    <3> HIDE DEF marked
    <3>4. array' = MarkDirty(marked, new)
      BY <1>2, <2>2 DEF marked, longer
    <3>5. /\ array' \in Arrays /\ Extends(marked, array')
          /\ Tidy(marked, new + 1) => Tidy(array', new + 1)
      BY <1>2, <2>1, <2>2, <3>3, <3>4, MarkKeeps
    <3>6. HoldsDirty(array', root) /\ HoldsDirty(array', new) /\ Extends(fetched, array')
      BY <3>1, <3>3, <3>5, DirtyStays
    <3> QED BY <1>2, <2>2, <3>1, <3>3, <3>5, <3>6
  <2>3. CASE ~full
    BY <1>1, <1>2, <1>4, <2>1, <2>3, MarkKeeps
  <2> QED BY <2>2, <2>3
<1>6. Extends(array, array')
  <2> HIDE DEF schema, fetched
  <2> QED BY <1>3, <1>4, <1>5, DirtyStays
<1>7. ASSUME NEW p \in n .. header'.page_count - 1 PROVE HoldsDirty(array', p)
  <2>1. (empty /\ p = root) \/ (full /\ p = new)
    <3> HIDE DEF full
    <3> QED BY <1>1, <1>2, <1>7
  <2> HIDE DEF full, root, new
  <2> QED BY <1>5, <2>1
<1> HIDE DEF schema, fetched, root, new
<1> QED BY <1>1, <1>3, <1>4, <1>5, <1>6, <1>7

\* execute_insert keeps the heap short: the new page takes the place of the one
\* the root page linked to.
LEMMA InsertKeepsTablesInv ==
  ASSUME TablesInv, NEW name \in Names, NEW v \in Values, Insert(name, v)
  PROVE  TablesInv'
<1> DEFINE root == header'.root_page
           before == IF header.root_page = 0 THEN Fresh(root) ELSE page[root]
           new == header'.page_count - 1
<1>1. /\ header.root_page # 0 => root = header.root_page
      /\ header.root_page = 0 => root = header.page_count
      /\ header'.schema_page = header.schema_page /\ header.schema_page # 0
      /\ root \in 2 .. header'.page_count - 1
      /\ header.page_count <= header'.page_count /\ header'.page_count <= MaxPages
      /\ header' \in Headers
      /\ page' \in [PageIds -> HeapPages]
  BY InsertWrites
<1>2. \/ /\ Free(before) = {} /\ header.root_page # 0
         /\ new = header.page_count /\ new # root /\ new \in PageIds
         /\ page' = [page EXCEPT ![root] = LinkTo(before, new), ![new] = PutRow(Fresh(new), 1, v)]
      \/ /\ Free(before) = {} /\ header.root_page = 0
         /\ root \in Cached
         /\ new = root + 1 /\ new \in PageIds
         /\ page' = [page EXCEPT ![root] = LinkTo(before, new), ![new] = PutRow(Fresh(new), 1, v)]
      \/ /\ Free(before) # {}
         /\ page' = [page EXCEPT ![root] = PutRow(before, FirstFree(before), v)]
  BY InsertWrites
<1>3. UNCHANGED <<proc, catalog, scan, unsaved, file_header, file_catalog, file_page,
                  committed, crashed, damaged>> /\ proc = "running" /\ scan.kind = "none"
  BY DEF Insert, Idle, history
<1>4. page \in [PageIds -> HeapPages] /\ header \in Headers /\ header.page_count \in Nat
      /\ HeaderShape(header) /\ header.page_count >= 2
      /\ root \in Nat /\ header'.page_count \in Nat /\ MaxPages \in Nat
  <2>1. page \in [PageIds -> HeapPages] /\ header \in Headers
        /\ HeaderShape(header) /\ header.page_count >= 2
    <3>1. proc # "down"
      BY <1>3
    <3> QED BY <1>1, <3>1, Zenon DEF TablesInv, TypeOK, HeaderInv, HeaderShape
  <2>2. ASSUME NEW g \in Headers PROVE g.root_page \in Nat /\ g.page_count \in Nat
    <3>1. g.root_page \in PageIds /\ g.page_count \in 0 .. MaxPages
      BY DEF Headers
    <3> QED BY <3>1, TablesAssumption DEF PageIds
  <2> QED BY <1>1, <2>1, <2>2, TablesAssumption
<1>5. /\ array' \in Arrays /\ Extends(array, array')
      /\ HoldsDirty(array', root)
      /\ \A p \in header.page_count .. header'.page_count - 1 : HoldsDirty(array', p)
      /\ Tidy(array, header.page_count) => Tidy(array', header'.page_count)
  BY InsertMarks
<1>6. root \in PageIds /\ before \in HeapPages
  <2>1. root \in PageIds
    BY <1>1, <1>4 DEF PageIds
  <2> QED BY <1>1, <1>4, <2>1, ZeroPage DEF Fresh
<1>7. ASSUME NEW p \in PageIds, page'[p] # page[p]
      PROVE  p = root \/ p \in header.page_count .. header'.page_count - 1
  <2>1. p = root \/ (p = new /\ (new = header.page_count \/ (header.root_page = 0 /\ new = root + 1)))
    <3> HIDE DEF root, new, before
    <3> QED BY <1>2, <1>4, <1>7
  <2>2. p = new => p \in header.page_count .. header'.page_count - 1 \/ header.root_page # 0
    BY <1>1, <1>4
  <2> QED BY <1>1, <1>4, <2>1, <2>2
<1>8. TypeOK'
  <2>1. file_pages' \in 0 .. MaxPages
    <3>1. file_pages \in 0 .. MaxPages
      BY DEF TablesInv, TypeOK
    <3>2. \A n \in 0 .. MaxPages : Later(file_pages, n) \in 0 .. MaxPages
      BY <3>1 DEF Later
    <3>3. \E n \in 0 .. MaxPages : file_pages' = Later(file_pages, n)
      <4> DEFINE n == header.page_count
                 empty == header.root_page = 0
                 rootPage == IF empty THEN Fresh(n) ELSE page[IF empty THEN n ELSE header.root_page]
                 next == IF empty THEN n + 1 ELSE n
                 full == Free(rootPage) = {}
      <4>1. /\ file_pages' = Later(file_pages, IF full THEN next ELSE IF empty THEN n ELSE 0)
            /\ (IF full THEN next + 1 ELSE next) <= MaxPages
        BY DEF Insert
      <4> HIDE DEF full
      <4>2. (IF full THEN next ELSE IF empty THEN n ELSE 0) \in 0 .. MaxPages
        BY <1>4, <4>1
      <4> QED BY <4>1, <4>2
    <3> QED BY <3>2, <3>3
  <2> QED BY <1>1, <1>3, <1>5, <2>1 DEF TablesInv, TypeOK, Arrays
<1>9. HeaderInv'
  BY <1>1, <1>3, <1>4 DEF TablesInv, HeaderInv, HeaderShape
<1>10. CatalogInv'
  BY <1>3 DEF TablesInv, CatalogInv
<1>11. SchemaInv'
  <2>1. Pending(SchemaPage) \/ file_catalog = catalog
    BY <1>1, <1>3 DEF TablesInv, SchemaInv
  <2> QED BY <1>1, <1>3, <1>5, <2>1, PendingStays DEF SchemaInv
<1>12. CommittedInv'
  BY <1>1, <1>3 DEF TablesInv, CommittedInv, Tables, Schemas
<1>13. LinkInv'
  <2> SUFFICES ASSUME NoOverlap, NEW p \in PageIds PROVE page'[p].link # SchemaPage
    BY <1>3 DEF TablesInv, LinkInv
  <2>1. \A q \in PageIds : page[q].link # SchemaPage /\ Fresh(q).link # SchemaPage
                           /\ Fresh(q) \in HeapPages
    BY <1>4, ZeroPage DEF TablesInv, LinkInv, Fresh, SchemaPage
  <2>2. before.link # SchemaPage
    BY <1>6, <2>1
  <2>3. CASE /\ new >= 2 /\ new \in PageIds
             /\ page' = [page EXCEPT ![root] = LinkTo(before, new),
                                     ![new] = PutRow(Fresh(new), 1, v)]
    <3>1. new \in Nat /\ new # SchemaPage
      BY <1>4, <2>3 DEF SchemaPage
    <3> HIDE DEF new, root, before
    <3>2. LinkTo(before, new).link # SchemaPage
      BY <1>6, <3>1, LinkToWrites
    <3>3. PutRow(Fresh(new), 1, v).link # SchemaPage
      <4>1. Fresh(new) \in HeapPages /\ Fresh(new).link # SchemaPage /\ 1 \in 1 .. Slots
        BY <2>1, <2>3, TablesAssumption
      <4> QED BY <4>1, PutRowWrites
    <3> QED BY <1>4, <1>6, <2>1, <2>3, <3>2, <3>3
  <2>4. CASE /\ Free(before) # {}
             /\ page' = [page EXCEPT ![root] = PutRow(before, FirstFree(before), v)]
    <3> HIDE DEF root, before
    <3>1. PutRow(before, FirstFree(before), v).link # SchemaPage
      BY <1>6, <2>2, <2>4, FirstFreeIsFree, PutRowWrites
    <3> QED BY <1>4, <1>6, <2>1, <2>4, <3>1
  <2>5. (new = header.page_count \/ new = root + 1) => new >= 2
    BY <1>1, <1>4
  <2> HIDE DEF new
  <2> QED BY <1>2, <2>3, <2>4, <2>5, Zenon
<1>14. HeapInv'
  <2> SUFFICES ASSUME NoOverlap, ~crashed PROVE HeapInv'
    BY <1>3 DEF HeapInv
  <2>1. /\ Tidy(array, header.page_count) /\ ShortHeap(header, page) /\ scan.cursor = 0
        /\ ShortHeap(file_header, file_page)
        /\ \A p \in 2 .. header.page_count - 1 : Pending(p) \/ file_page[p] = page[p]
    BY <1>3 DEF TablesInv, HeapInv
  <2>2. Fresh(header.page_count) = EmptyPage
    BY <1>4, <2>1 DEF Fresh, Cached, Tidy
  <2>3. ShortHeap(header', page')
    <3>1. CASE /\ header.root_page # 0
               /\ new = header.page_count /\ new # root /\ new \in PageIds
               /\ page' = [page EXCEPT ![root] = LinkTo(before, new),
                                       ![new] = PutRow(Fresh(new), 1, v)]
      <4>1. page'[root].link = new
        <5>1. new \in Nat
          BY <1>4, <3>1
        <5> HIDE DEF new, root, before
        <5>2. LinkTo(before, new).link = new
          BY <1>6, <5>1, LinkToWrites
        <5> QED BY <1>4, <1>6, <3>1, <5>2
      <4>2. page'[new].link = 0
        BY <1>4, <2>2, <3>1, ZeroPage, PutRowWrites, TablesAssumption
      <4>3. new \in 2 .. header'.page_count - 1
        BY <1>1, <1>4, <3>1
      <4> QED BY <3>1, <4>1, <4>2, <4>3 DEF ShortHeap
    <3>2. CASE /\ Free(before) # {}
               /\ page' = [page EXCEPT ![root] = PutRow(before, FirstFree(before), v)]
      <4>1. page'[root].link = before.link
        BY <1>4, <1>6, <3>2, FirstFreeIsFree, PutRowWrites
      <4>2. CASE header.root_page = 0
        BY <1>1, <2>2, <4>1, <4>2, ZeroPage DEF ShortHeap
      <4>3. CASE header.root_page # 0
        <5>1. root = header.root_page /\ before.link = page[root].link
          BY <1>1, <4>3
        <5>2. ASSUME NEW link, link = page[root].link, link # 0
              PROVE  link \in 2 .. header.page_count - 1 /\ link # root /\ page[link].link = 0
          BY <2>1, <4>3, <5>1, <5>2 DEF ShortHeap
        <5>3. ASSUME NEW link, link = page[root].link, link # 0
              PROVE  link \in 2 .. header'.page_count - 1 /\ link # root /\ page'[link].link = 0
          <6>1. link \in PageIds /\ link \in 2 .. header'.page_count - 1
            BY <1>1, <1>4, <5>2, <5>3 DEF PageIds
          <6> QED BY <1>4, <3>2, <5>2, <5>3, <6>1
        <5> QED BY <4>1, <5>1, <5>3 DEF ShortHeap
      <4> QED BY <4>2, <4>3
    <3>3. header.root_page = 0 => Free(before) # {}
      BY <1>1, <2>2, ZeroPage
    <3> HIDE DEF new, root, before
    <3> QED BY <1>2, <3>1, <3>2, <3>3
  <2>4. ASSUME NEW p \in 2 .. header'.page_count - 1
        PROVE  Pending(p)' \/ file_page'[p] = page'[p]
    <3>1. p \in PageIds
      BY <1>1, <1>4 DEF PageIds
    <3>2. CASE p = root \/ p \in header.page_count .. header'.page_count - 1
      BY <1>3, <1>5, <3>2, DirtyIsPending
    <3>3. CASE ~(p = root \/ p \in header.page_count .. header'.page_count - 1)
      <4>1. page'[p] = page[p] /\ p \in 2 .. header.page_count - 1
        BY <1>4, <1>7, <3>1, <3>3
      <4> QED BY <1>3, <1>5, <2>1, <4>1, PendingStays
    <3> QED BY <3>2, <3>3
  <2> QED BY <1>3, <1>5, <2>1, <2>3, <2>4 DEF HeapInv
<1> QED BY <1>8, <1>9, <1>10, <1>11, <1>12, <1>13, <1>14 DEF TablesInv

\* A primary key, a pointer to a page that is not there and a crash all end
\* the process; an allocation before that may have made the file longer.
LEMMA EndsKeepTablesInv ==
  ASSUME TablesInv, LostLink \/ Crash \/ \E name \in Names : InsertWithKey(name)
  PROVE  TablesInv'
<1>1. file_pages \in 0 .. MaxPages /\ header.page_count \in 0 .. MaxPages
  BY DEF TablesInv, TypeOK, Headers
<1>2. Dies /\ file_pages' \in 0 .. MaxPages
  BY <1>1 DEF LostLink, Crash, InsertWithKey, Later
<1> QED BY <1>2, DeathKeepsTablesInv

\* A statement begins at the root page.
LEMMA StartKeepsTablesInv ==
  ASSUME TablesInv, NEW kind \in {"select", "update", "delete"}, NEW name \in Names,
         NEW filter \in Filters, StartScan(kind, name, filter)
  PROVE  TablesInv'
<1>1. /\ UNCHANGED <<proc, header, catalog, page, unsaved, file, history>> /\ proc = "running"
      /\ scan'.kind # "none" /\ scan'.cursor = header.root_page /\ ~scan'.junk
      /\ scan.kind = "none" /\ array' = Fetch(array, SchemaPage)
  BY DEF StartScan, Idle
<1>2. /\ header \in Headers /\ HeaderShape(header) /\ header.schema_page # 0
      /\ header.root_page \in Nat /\ header.page_count \in Nat
  <2>1. header \in Headers /\ HeaderShape(header)
    BY DEF TablesInv, TypeOK, HeaderInv
  <2>2. header.schema_page # 0
    BY EmptySeq DEF StartScan, Known, FirstNamed, Named, Schemas
  <2> QED BY <2>1, <2>2, TablesAssumption DEF Headers, PageIds
<1>3. array \in Arrays /\ SchemaPage \in PageIds
  BY TablesAssumption DEF TablesInv, TypeOK, Arrays, SchemaPage, PageIds
<1>4. /\ array' \in Arrays /\ Extends(array, array') /\ Holds(array', SchemaPage)
      /\ \A n \in Nat : (Tidy(array, n) /\ SchemaPage < n) => Tidy(array', n)
  BY <1>1, <1>3, FetchKeeps
<1>5. scan' \in Scans
  <2>1. Cardinality({x \in Live : page[x[1]].slot[x[2]].val \in filter}) \in Nat
    BY RowsAreFinite
  <2>2. filter \in SUBSET Cells
    BY DEF Filters
  <2> QED BY <1>2, <2>1, <2>2 DEF StartScan, Kinds, Scans
<1>6. TypeOK'
  BY <1>1, <1>4, <1>5 DEF TablesInv, TypeOK, Arrays, file, history
<1>7. HeaderInv' /\ CatalogInv'
  BY <1>1 DEF TablesInv, HeaderInv, CatalogInv, file, history
<1>8. SchemaInv'
  <2>1. Pending(SchemaPage) \/ file_catalog = catalog
    BY <1>1, <1>2 DEF TablesInv, SchemaInv
  <2>2. Pending(SchemaPage)' \/ file_catalog' = catalog'
    BY <1>1, <1>4, <2>1, PendingStays DEF file
  <2> QED BY <1>1, <1>2, <1>4, <2>2 DEF SchemaInv
<1>9. CommittedInv'
  BY <1>1 DEF TablesInv, CommittedInv, Tables, Schemas, file, history
<1>10. LinkInv'
  BY <1>1, <1>2 DEF TablesInv, LinkInv, HeaderShape, SchemaPage, file, history
<1>11. HeapInv'
  <2> SUFFICES ASSUME NoOverlap, ~crashed PROVE HeapInv'
    BY <1>1 DEF HeapInv, history
  <2>1. /\ Tidy(array, header.page_count) /\ ShortHeap(header, page)
        /\ ShortHeap(file_header, file_page)
        /\ \A p \in 2 .. header.page_count - 1 : Pending(p) \/ file_page[p] = page[p]
    BY <1>1 DEF TablesInv, HeapInv
  <2>2. Tidy(array', header'.page_count)
    BY <1>1, <1>2, <1>4, <2>1 DEF HeaderShape, SchemaPage
  <2>3. \A p \in 2 .. header'.page_count - 1 : Pending(p)' \/ file_page'[p] = page'[p]
    BY <1>1, <1>4, <2>1, PendingStays DEF file
  <2> QED BY <1>1, <2>1, <2>2, <2>3 DEF HeapInv, file
<1> QED BY <1>6, <1>7, <1>8, <1>9, <1>10, <1>11 DEF TablesInv

\* What a round of the page loop does to the pages: every deleted mark stays,
\* a page that changed is dirty in the cache, and the links stay where they lie
\* apart from the rows.
LEMMA ScanPageWrites ==
  ASSUME TablesInv, ScanPage
  PROVE  /\ page' \in [PageIds -> HeapPages]
         /\ NoOverlap => \A p \in PageIds : page'[p].link = page[p].link
         /\ \A p \in PageIds : \A i \in 1 .. Slots :
              page[p].slot[i].deleted => page'[p].slot[i].deleted
         /\ array' \in Arrays /\ Extends(array, array')
         /\ \A p \in PageIds : page'[p] = page[p] \/ HoldsDirty(array', p)
         /\ \A n \in Nat : (Tidy(array, n) /\ scan.cursor < n) => Tidy(array', n)
<1> DEFINE p == scan.cursor
           found == Found(scan.kind, page[p], scan.filter)
           fetched == Fetch(array, p)
<1>1. /\ page \in [PageIds -> HeapPages] /\ p \in PageIds /\ page[p] \in HeapPages
      /\ array \in Arrays
  BY DEF TablesInv, TypeOK, ScanPage, Arrays
<1>2. \/ page' = [page EXCEPT ![p] = MarkDeleted(page[p], found)] /\ scan.kind # "select"
      \/ /\ \E v \in Values : page' = [page EXCEPT ![p] = SetColumn(page[p], found, v)]
         /\ scan.kind # "select"
      \/ page' = page
  BY <1>1 DEF ScanPage
<1>3. array' = IF scan.kind # "select" /\ found # {} THEN MarkDirty(fetched, p) ELSE fetched
  BY DEF ScanPage
<1>4. /\ fetched \in Arrays /\ Extends(array, fetched) /\ Holds(fetched, p)
      /\ \A n \in Nat : (Tidy(array, n) /\ p < n) => Tidy(fetched, n)
  BY <1>1, FetchKeeps
<1> HIDE DEF p, found, fetched
<1>5. /\ array' \in Arrays /\ Extends(array, array')
      /\ (scan.kind # "select" /\ found # {}) => HoldsDirty(array', p)
      /\ \A n \in Nat : (Tidy(array, n) /\ p < n) => Tidy(array', n)
  <2>1. CASE scan.kind # "select" /\ found # {}
    <3>1. /\ array' \in Arrays /\ Extends(fetched, array') /\ HoldsDirty(array', p)
          /\ \A n \in Nat : Tidy(fetched, n) => Tidy(array', n)
      BY <1>1, <1>3, <1>4, <2>1, MarkKeeps
    <3> QED BY <1>4, <3>1, DirtyStays
  <2>2. CASE ~(scan.kind # "select" /\ found # {})
    BY <1>3, <1>4, <2>2
  <2> QED BY <2>1, <2>2
<1> DEFINE Goal == /\ page' \in [PageIds -> HeapPages]
                   /\ NoOverlap => \A q \in PageIds : page'[q].link = page[q].link
                   /\ \A q \in PageIds : \A i \in 1 .. Slots :
                        page[q].slot[i].deleted => page'[q].slot[i].deleted
                   /\ \A q \in PageIds : page'[q] = page[q] \/ (q = p /\ found # {})
<1>6. ASSUME page' = [page EXCEPT ![p] = MarkDeleted(page[p], found)]
      PROVE  Goal
  <2>1. MarkDeleted(page[p], found) \in HeapPages
        /\ MarkDeleted(page[p], found).link = page[p].link
        /\ (found = {} => MarkDeleted(page[p], found) = page[p])
        /\ \A i \in 1 .. Slots : page[p].slot[i].deleted => MarkDeleted(page[p], found).slot[i].deleted
    BY <1>1, ScanWrites, TablesAssumption
  <2> QED BY <1>1, <1>6, <2>1
<1>7. ASSUME NEW v \in Values, page' = [page EXCEPT ![p] = SetColumn(page[p], found, v)]
      PROVE  Goal
  <2>1. SetColumn(page[p], found, v) \in HeapPages
        /\ (NoOverlap => SetColumn(page[p], found, v).link = page[p].link)
        /\ (found = {} => SetColumn(page[p], found, v) = page[p])
        /\ \A i \in 1 .. Slots : page[p].slot[i].deleted => SetColumn(page[p], found, v).slot[i].deleted
    BY <1>1, ScanWrites
  <2> QED BY <1>1, <1>7, <2>1
<1>8. ASSUME page' = page PROVE Goal
  BY <1>1, <1>8
<1>9. Goal
  BY <1>2, <1>6, <1>7, <1>8
<1>10. \A q \in PageIds : page'[q] = page[q] \/ HoldsDirty(array', q)
  <2>1. page' = page \/ scan.kind # "select"
    BY <1>2
  <2> QED BY <1>5, <1>9, <2>1
<1> QED BY <1>5, <1>9, <1>10 DEF p

\* A round of the page loop stays on the heap.
LEMMA ScanKeepsTablesInv ==
  ASSUME TablesInv, ScanPage
  PROVE  TablesInv'
<1> DEFINE p == scan.cursor
           found == Found(scan.kind, page[p], scan.filter)
           shown == IF scan.kind = "delete" THEN {} ELSE found
<1>1. UNCHANGED <<proc, header, catalog, unsaved, file, history>>
      /\ proc = "running" /\ scan.kind # "none" /\ p \in PageIds /\ p # 0 /\ scan \in Scans
      /\ scan' = [scan EXCEPT !.cursor = page'[p].link,
                              !.hits = @ + Cardinality(shown),
                              !.rows = @ \cup {page[p].slot[i].val : i \in shown}]
  BY DEF ScanPage, TablesInv, TypeOK
<1>2. /\ page \in [PageIds -> HeapPages] /\ page[p] \in HeapPages
      /\ page' \in [PageIds -> HeapPages] /\ page'[p] \in HeapPages
      /\ NoOverlap => \A q \in PageIds : page'[q].link = page[q].link
      /\ array' \in Arrays /\ Extends(array, array')
      /\ \A q \in PageIds : page'[q] = page[q] \/ HoldsDirty(array', q)
      /\ \A n \in Nat : (Tidy(array, n) /\ p < n) => Tidy(array', n)
  BY <1>1, ScanPageWrites DEF TablesInv, TypeOK
<1>3. /\ scan' \in Scans /\ scan'.kind = scan.kind /\ scan'.cursor = page'[p].link
      /\ scan'.junk = scan.junk
  <2>1. shown \subseteq 1 .. Slots /\ Cardinality(shown) \in Nat
    BY RowsAreFinite DEF Found
  <2>2. {page[p].slot[i].val : i \in shown} \in SUBSET Cells /\ page'[p].link \in Nat
    <3>1. page[p].slot \in [1 .. Slots -> Rows] /\ page'[p].link \in Nat
      BY <1>2 DEF HeapPages
    <3>2. \A i \in shown : page[p].slot[i] \in Rows
      BY <2>1, <3>1
    <3> HIDE DEF p, shown
    <3>3. \A i \in shown : page[p].slot[i].val \in Cells
      BY <3>2 DEF Rows
    <3> QED BY <3>1, <3>3
  <2> DEFINE hits == Cardinality(shown)
             rows == {page[p].slot[i].val : i \in shown}
             link == page'[p].link
  <2>3. scan' = [scan EXCEPT !.cursor = link, !.hits = @ + hits, !.rows = @ \cup rows]
    BY <1>1
  <2>4. link \in Nat /\ hits \in Nat /\ rows \in SUBSET Cells
    BY <2>1, <2>2
  <2> HIDE DEF hits, rows, link, p
  <2>5. scan.hits + hits \in Nat /\ scan.rows \cup rows \in SUBSET Cells
    BY <1>1, <2>4 DEF Scans
  <2>6. scan' \in Scans /\ scan'.kind = scan.kind /\ scan'.cursor = link /\ scan'.junk = scan.junk
    BY <1>1, <2>3, <2>4, <2>5 DEF Scans
  <2> QED BY <2>6 DEF link
<1> HIDE DEF shown, found
<1>4. TypeOK'
  BY <1>1, <1>2, <1>3 DEF TablesInv, TypeOK, Arrays, file, history
<1>5. HeaderInv' /\ CatalogInv'
  BY <1>1 DEF TablesInv, HeaderInv, CatalogInv, file, history
<1>6. SchemaInv'
  <2>1. header.schema_page # 0 /\ Holds(array, SchemaPage)
        /\ (Pending(SchemaPage) \/ file_catalog = catalog)
    BY <1>1 DEF TablesInv, SchemaInv
  <2>2. Holds(array', SchemaPage)
    BY <1>2, <2>1, DirtyStays
  <2>3. Pending(SchemaPage)' \/ file_catalog' = catalog'
    BY <1>1, <1>2, <2>1, PendingStays DEF file
  <2> QED BY <1>1, <1>3, <2>1, <2>2, <2>3 DEF SchemaInv
<1>7. CommittedInv'
  BY <1>1 DEF TablesInv, CommittedInv, Tables, Schemas, file, history
<1>8. LinkInv'
  BY <1>1, <1>2, <1>3 DEF TablesInv, LinkInv, file, history
<1>9. HeapInv'
  <2> SUFFICES ASSUME NoOverlap, ~crashed PROVE HeapInv'
    BY <1>1 DEF HeapInv, history
  <2> DEFINE root == header.root_page
             link == page[root].link
  <2>1. /\ Tidy(array, header.page_count)
        /\ ShortHeap(header, page) /\ ShortHeap(file_header, file_page)
        /\ \A q \in 2 .. header.page_count - 1 : Pending(q) \/ file_page[q] = page[q]
        /\ root # 0 /\ p \in {root, link}
    BY <1>1 DEF TablesInv, HeapInv
  <2>2. /\ root \in 2 .. header.page_count - 1 /\ root \in PageIds
        /\ header.page_count \in Nat /\ MaxPages \in Nat /\ header.page_count <= MaxPages
        /\ link # 0 => /\ link \in 2 .. header.page_count - 1 /\ link \in PageIds
                       /\ link # root /\ page[link].link = 0
    <3>1. header.page_count \in Nat /\ header.page_count <= MaxPages /\ MaxPages \in Nat
      BY TablesAssumption DEF TablesInv, TypeOK, Headers
    <3>2. root \in 2 .. header.page_count - 1
      BY <2>1 DEF TablesInv, HeaderInv, HeaderShape
    <3>3. link # 0 => /\ link \in 2 .. header.page_count - 1
                      /\ link # root /\ page[link].link = 0
      BY <2>1, Zenon DEF ShortHeap
    <3> HIDE DEF link, root
    <3> QED BY <3>1, <3>2, <3>3 DEF PageIds
  <2>3. Tidy(array', header'.page_count)
    BY <1>1, <1>2, <2>1, <2>2
  <2>4. ShortHeap(header', page') /\ page'[root].link = link
    BY <1>1, <1>2, <2>1, <2>2 DEF ShortHeap
  <2>5. scan'.cursor # 0 => scan'.cursor = link
    BY <1>1, <1>2, <1>3, <2>1, <2>2
  <2>6. ASSUME NEW q \in 2 .. header'.page_count - 1
        PROVE  Pending(q)' \/ file_page'[q] = page'[q]
    <3>1. q \in PageIds /\ (Pending(q) \/ file_page[q] = page[q])
      BY <1>1, <2>1, <2>2 DEF PageIds
    <3>2. CASE HoldsDirty(array', q)
      BY <1>1, <3>2, DirtyIsPending
    <3>3. CASE page'[q] = page[q]
      BY <1>1, <1>2, <3>1, <3>3, PendingStays DEF file
    <3> QED BY <1>2, <3>1, <3>2, <3>3
  <2> QED BY <1>1, <1>3, <2>1, <2>3, <2>4, <2>5, <2>6 DEF HeapInv, file
<1> QED BY <1>4, <1>5, <1>6, <1>7, <1>8, <1>9 DEF TablesInv

\* A link to the schema page, which only a row that reaches into the link can
\* spell: the scan reads or writes schemas, and ends.
LEMMA ScanSchemaKeepsTablesInv ==
  ASSUME TablesInv, ScanSchemaPage
  PROVE  TablesInv'
<1>1. /\ UNCHANGED <<proc, header, page, unsaved, file, committed, crashed>>
      /\ proc = "running" /\ scan.kind # "none" /\ scan.cursor = SchemaPage
      /\ \E junk \in BOOLEAN : scan' = [scan EXCEPT !.cursor = 0, !.junk = junk]
                               \/ scan' = [scan EXCEPT !.cursor = 0]
  BY DEF ScanSchemaPage
<1>2. scan' \in Scans /\ scan'.kind = scan.kind
  <2>1. scan \in Scans
    BY DEF TablesInv, TypeOK
  <2>2. ASSUME NEW junk \in BOOLEAN, scan' = [scan EXCEPT !.cursor = 0, !.junk = junk]
        PROVE  scan' \in Scans /\ scan'.kind = scan.kind
    BY <2>1, <2>2 DEF Scans
  <2>3. ASSUME scan' = [scan EXCEPT !.cursor = 0]
        PROVE  scan' \in Scans /\ scan'.kind = scan.kind
    BY <2>1, <2>3 DEF Scans
  <2> QED BY <1>1, <2>2, <2>3
<1>3. ~NoOverlap
  BY <1>1 DEF TablesInv, LinkInv
<1>4. \/ catalog' = catalog /\ array' = array /\ damaged' = damaged
      \/ /\ catalog' \in Overwritten(catalog)
         /\ damaged' = (damaged \/ catalog' # catalog)
         /\ array' \in {array, MarkDirty(array, SchemaPage)}
         /\ catalog' # catalog => array' = MarkDirty(array, SchemaPage)
  BY DEF ScanSchemaPage
<1>5. /\ catalog \in Seq(Entries) /\ Len(catalog) <= CatalogSlots /\ damaged \in BOOLEAN
      /\ array \in Arrays /\ SchemaPage \in PageIds
      /\ header.schema_page # 0 /\ Holds(array, SchemaPage)
  BY <1>1, TablesAssumption
     DEF TablesInv, TypeOK, SchemaInv, Arrays, SchemaPage, PageIds
<1>6. catalog' \in Seq(Entries) /\ Len(catalog') <= CatalogSlots
  <2>1. ASSUME catalog' \in Overwritten(catalog)
        PROVE  catalog' \in Seq(Entries) /\ Len(catalog') = Len(catalog)
    <3>1. Len(catalog) \in Nat /\ DOMAIN catalog = 1 .. Len(catalog)
      BY <1>5, LenProperties
    <3>2. catalog' \in [1 .. Len(catalog) -> Entries]
      BY <2>1, <3>1 DEF Overwritten
    <3> QED BY <3>1, <3>2
  <2> QED BY <1>4, <1>5, <2>1
<1>7. /\ array' \in Arrays /\ Extends(array, array')
      /\ catalog' # catalog => HoldsDirty(array', SchemaPage) /\ damaged'
      /\ damaged' \in BOOLEAN /\ (damaged => damaged')
      /\ ~damaged' => catalog' = catalog
  <2>1. Extends(array, array)
    BY DEF Extends
  <2> QED BY <1>4, <1>5, <2>1, MarkKeeps
<1>8. TypeOK'
  BY <1>1, <1>2, <1>6, <1>7 DEF TablesInv, TypeOK, Arrays, file
<1>9. HeaderInv'
  BY <1>1 DEF TablesInv, HeaderInv, file
<1>10. CatalogInv'
  BY <1>1, <1>7 DEF TablesInv, CatalogInv, file
<1>11. SchemaInv'
  <2>1. Pending(SchemaPage) \/ file_catalog = catalog
    BY <1>1, <1>5 DEF TablesInv, SchemaInv
  <2>2. Pending(SchemaPage)' \/ file_catalog' = catalog'
    <3>1. CASE catalog' = catalog
      BY <1>1, <1>7, <2>1, <3>1, PendingStays DEF file
    <3>2. CASE catalog' # catalog
      BY <1>1, <1>7, <3>2, DirtyIsPending
    <3> QED BY <3>1, <3>2
  <2>3. Holds(array', SchemaPage)
    BY <1>5, <1>7, DirtyStays
  <2> QED BY <1>1, <1>2, <1>5, <2>2, <2>3 DEF SchemaInv
<1>12. CommittedInv'
  BY <1>1, <1>7 DEF TablesInv, CommittedInv, Tables, Schemas, file
<1>13. LinkInv' /\ HeapInv'
  BY <1>3 DEF LinkInv, HeapInv
<1> QED BY <1>8, <1>9, <1>10, <1>11, <1>12, <1>13 DEF TablesInv

\* The loop is left with no page to go to.
LEMMA EndScanKeepsTablesInv ==
  ASSUME TablesInv, EndScan
  PROVE  TablesInv'
<1>1. UNCHANGED <<proc, memory, unsaved, file, history>> /\ proc = "running"
      /\ scan' = NoScan /\ scan'.kind = "none" /\ scan'.cursor = 0 /\ ~scan'.junk
  BY NothingUnderWay DEF EndScan
<1>2. TypeOK'
  BY <1>1, NothingUnderWay DEF TablesInv, TypeOK, memory, file, history
<1>3. HeaderInv' /\ CatalogInv' /\ CommittedInv'
  BY <1>1 DEF TablesInv, HeaderInv, CatalogInv, CommittedInv, Tables, Schemas, memory, file, history
<1>4. SchemaInv'
  BY <1>1 DEF TablesInv, SchemaInv, Pending, memory, file
<1>5. LinkInv'
  BY <1>1 DEF TablesInv, LinkInv, memory, file, history, SchemaPage
<1>6. HeapInv'
  BY <1>1 DEF TablesInv, HeapInv, Pending, memory, file, history
<1> QED BY <1>2, <1>3, <1>4, <1>5, <1>6 DEF TablesInv

\* sm_close begins when no statement is under way.
LEMMA BeginCloseKeepsTablesInv ==
  ASSUME TablesInv, BeginClose
  PROVE  TablesInv'
<1>1. UNCHANGED <<memory, scan, file, history>> /\ proc = "running"
      /\ proc' = "closing" /\ unsaved' = 1 /\ scan.kind = "none"
  BY DEF BeginClose, Idle
<1>2. \A p : Pending(p) => Pending(p)'
  <2>1. DOMAIN array = 1 .. Len(array)
    BY CachedIds DEF TablesInv, TypeOK, Arrays
  <2> QED BY <1>1, <2>1 DEF Pending, memory
<1>3. TypeOK'
  BY <1>1 DEF TablesInv, TypeOK, memory, file, history
<1>4. HeaderInv' /\ CatalogInv' /\ CommittedInv' /\ LinkInv'
  BY <1>1 DEF TablesInv, HeaderInv, CatalogInv, CommittedInv, LinkInv, Tables, Schemas, memory,
              file, history
<1>5. SchemaInv'
  BY <1>1, <1>2 DEF TablesInv, SchemaInv, memory, file
<1>6. HeapInv'
  BY <1>1, <1>2 DEF TablesInv, HeapInv, memory, file, history
<1> QED BY <1>3, <1>4, <1>5, <1>6 DEF TablesInv

\* The pages go to the file in the order of the array.
LEMMA ClosePageKeepsTablesInv ==
  ASSUME TablesInv, ClosePage
  PROVE  TablesInv'
<1> DEFINE p == array[unsaved].id
<1>1. /\ UNCHANGED <<proc, memory, scan, file_header, history>>
      /\ proc = "closing" /\ unsaved <= Len(array) /\ unsaved' = unsaved + 1
      /\ unsaved \in Nat /\ unsaved >= 1 /\ scan.kind = "none"
  BY DEF TablesInv, TypeOK, SchemaInv, ClosePage
<1>2. /\ array \in Arrays /\ DOMAIN array = 1 .. Len(array) /\ unsaved \in DOMAIN array
      /\ p \in PageIds /\ p \in Nat /\ array[unsaved].dirty \in BOOLEAN
      /\ \A i \in DOMAIN array : array[i].id \in PageIds
  <2>1. array \in Arrays
    BY DEF TablesInv, TypeOK, Arrays
  <2>2. unsaved \in DOMAIN array
    BY <1>1, <2>1, CachedIds
  <2> QED BY <2>1, <2>2, CachedIds
<1>3. \/ /\ ~array[unsaved].dirty
         /\ UNCHANGED <<file_catalog, file_page, file_pages>>
      \/ /\ array[unsaved].dirty /\ p = SchemaPage
         /\ file_catalog' = catalog /\ file_page' = file_page
         /\ file_pages' = Later(file_pages, p + 1)
      \/ /\ array[unsaved].dirty /\ p # SchemaPage
         /\ file_page' = [file_page EXCEPT ![p] = IF Again(unsaved) THEN EmptyPage ELSE page[p]]
         /\ file_pages' = Later(file_pages, p + 1)
         /\ file_catalog' = file_catalog
  BY DEF ClosePage
<1>4. page \in [PageIds -> HeapPages] /\ file_page \in [PageIds -> HeapPages]
  BY DEF TablesInv, TypeOK
<1>5. \A q : Pending(q) => Pending(q)' \/ (array[unsaved].dirty /\ p = q)
  <2> SUFFICES ASSUME NEW q, Pending(q), ~(array[unsaved].dirty /\ p = q) PROVE Pending(q)'
    OBVIOUS
  <2>1. PICK i \in DOMAIN array : array[i].id = q /\ array[i].dirty /\ unsaved <= i
    BY <1>1 DEF Pending
  <2>2. unsaved + 1 <= i
    BY <1>1, <1>2, <2>1
  <2> QED BY <1>1, <2>1, <2>2 DEF Pending, memory
<1> HIDE DEF p
<1>6. TypeOK'
  <2>1. file_pages' \in 0 .. MaxPages
    <3>1. file_pages \in 0 .. MaxPages /\ p + 1 \in 0 .. MaxPages
      BY <1>2, TablesAssumption DEF TablesInv, TypeOK, PageIds
    <3> QED BY <1>3, <3>1 DEF Later
  <2>2. file_page' \in [PageIds -> HeapPages]
    BY <1>2, <1>3, <1>4, ZeroPage
  <2>3. file_catalog' \in Seq(Entries) /\ Len(file_catalog') <= CatalogSlots
    BY <1>3 DEF TablesInv, TypeOK
  <2> QED BY <1>1, <2>1, <2>2, <2>3 DEF TablesInv, TypeOK, memory, history
<1>7. HeaderInv'
  BY <1>1 DEF TablesInv, HeaderInv, memory
<1>8. CatalogInv'
  BY <1>1, <1>3 DEF TablesInv, CatalogInv, memory, history
<1>9. SchemaInv'
  <2>1. header.schema_page # 0 => Pending(SchemaPage)' \/ file_catalog' = catalog'
    BY <1>1, <1>3, <1>5 DEF TablesInv, SchemaInv, memory
  <2> QED BY <1>1, <2>1 DEF TablesInv, SchemaInv, memory
<1>10. CommittedInv'
  <2>1. ~damaged => committed \subseteq NamesIn(file_catalog')
    <3>1. CASE file_catalog' = file_catalog
      BY <3>1 DEF TablesInv, CommittedInv
    <3>2. CASE file_catalog' = catalog
      BY <1>1, <3>2 DEF TablesInv, CommittedInv, Tables, Schemas, NamesIn
    <3> QED BY <1>3, <3>1, <3>2
  <2>2. Tables' = Tables
    BY <1>1 DEF Tables, Schemas, memory
  <2> QED BY <1>1, <2>1, <2>2 DEF TablesInv, CommittedInv, memory, history
<1>11. LinkInv'
  <2> SUFFICES ASSUME NoOverlap PROVE LinkInv'
    BY DEF LinkInv
  <2>1. \A q \in PageIds : file_page'[q].link # SchemaPage
    BY <1>2, <1>3, <1>4, ZeroPage DEF TablesInv, LinkInv, SchemaPage
  <2> QED BY <1>1, <2>1 DEF TablesInv, LinkInv, memory, history
<1>12. HeapInv'
  <2> SUFFICES ASSUME NoOverlap, ~crashed PROVE HeapInv'
    BY <1>1 DEF HeapInv, history
  <2>1. /\ Tidy(array, header.page_count) /\ ShortHeap(header, page)
        /\ \A q \in 2 .. header.page_count - 1 : Pending(q) \/ file_page[q] = page[q]
        /\ scan.cursor = 0
    BY <1>1 DEF TablesInv, HeapInv
  <2>2. ~Again(unsaved)
    <3>1. \A i \in 1 .. unsaved - 1 : i \in DOMAIN array /\ i # unsaved
      BY <1>1, <1>2
    <3> QED BY <1>2, <2>1, <3>1 DEF Again, Tidy
  <2>3. ASSUME NEW q \in 2 .. header.page_count - 1
        PROVE  Pending(q)' \/ file_page'[q] = page[q]
    <3>1. q \in PageIds /\ q # SchemaPage
      <4>1. header.page_count \in 0 .. MaxPages
        BY DEF TablesInv, TypeOK, Headers
      <4> QED BY <4>1, TablesAssumption DEF PageIds, SchemaPage
    <3>2. CASE array[unsaved].dirty /\ p = q
      BY <1>3, <1>4, <2>2, <3>1, <3>2
    <3>3. CASE ~(array[unsaved].dirty /\ p = q)
      BY <1>3, <1>4, <1>5, <2>1, <3>1, <3>3
    <3> QED BY <3>2, <3>3
  <2> QED BY <1>1, <2>1, <2>3 DEF HeapInv, memory
<1> QED BY <1>6, <1>7, <1>8, <1>9, <1>10, <1>11, <1>12 DEF TablesInv

\* The header is the last thing sm_close writes, when the pages it counts are
\* all there.
LEMMA CloseHeaderKeepsTablesInv ==
  ASSUME TablesInv, CloseHeader
  PROVE  TablesInv'
<1>1. /\ proc = "closing" /\ unsaved > Len(array)
      /\ file_header' = header /\ proc' = "down" /\ header' = NoHeader
      /\ catalog' = <<>> /\ page' = [p \in PageIds |-> EmptyPage] /\ array' = <<>>
      /\ unsaved' = 0 /\ committed' = Tables
      /\ UNCHANGED <<scan, file_catalog, file_page, file_pages, crashed, damaged>>
  BY DEF CloseHeader, Tables
<1>2. /\ header \in Headers /\ HeaderShape(header) /\ header.page_count \in Nat /\ unsaved \in Nat
      /\ array \in Arrays /\ DOMAIN array = 1 .. Len(array) /\ Len(array) \in Nat
      /\ scan.kind = "none"
  <2>1. array \in Arrays
    BY DEF TablesInv, TypeOK, Arrays
  <2> QED BY <1>1, <2>1, CachedIds, TablesAssumption
             DEF TablesInv, TypeOK, HeaderInv, SchemaInv, Headers
<1>3. \A p : ~Pending(p)
  BY <1>1, <1>2 DEF Pending
<1>4. header.schema_page # 0 => file_catalog = catalog
  BY <1>1, <1>3 DEF TablesInv, SchemaInv
<1>5. TypeOK'
  <2>1. committed' \subseteq Names \cup {Garbled}
    <3>1. Schemas \in Seq(Entries)
      BY NoSchemas DEF TablesInv, TypeOK, Schemas
    <3>2. \A i \in DOMAIN Schemas : Schemas[i] \in Entries
      BY <3>1, ElementOfSeq, LenProperties
    <3> QED BY <1>1, <3>2 DEF Tables, Entries
  <2> QED BY <1>1, <1>2, <2>1, EmptyHeader, NothingUnderWay, ZeroPages, NoSchemas, TablesAssumption
             DEF TablesInv, TypeOK, Arrays
<1>6. HeaderInv'
  BY <1>1, <1>2, EmptyHeader DEF HeaderInv
<1>7. CatalogInv'
  BY <1>1, NoSchemas DEF TablesInv, CatalogInv
<1>8. SchemaInv'
  BY <1>1, <1>2 DEF SchemaInv
<1>9. CommittedInv'
  <2>1. CASE header.schema_page = 0
    BY <1>1, <2>1, NoSchemas DEF CommittedInv, Tables, Schemas, NamesIn
  <2>2. CASE header.schema_page # 0
    BY <1>1, <1>4, <2>2 DEF CommittedInv, Tables, Schemas, NamesIn
  <2> QED BY <2>1, <2>2
<1>10. LinkInv'
  BY <1>1, ZeroPage DEF TablesInv, LinkInv, SchemaPage
<1>11. HeapInv'
  <2> SUFFICES ASSUME NoOverlap, ~crashed PROVE HeapInv'
    BY <1>1 DEF HeapInv
  <2>1. /\ ShortHeap(header, page) /\ scan.cursor = 0
        /\ \A p \in 2 .. header.page_count - 1 : file_page[p] = page[p]
    BY <1>1, <1>3 DEF TablesInv, HeapInv
  <2>2. ShortHeap(header, file_page)
    BY <1>2, <2>1 DEF ShortHeap, HeaderShape
  <2>3. ShortHeap(header', page')
    BY <1>1, EmptyHeader DEF ShortHeap
  <2> QED BY <1>1, <2>1, <2>2, <2>3, NothingUnderWay DEF HeapInv
<1> QED BY <1>5, <1>6, <1>7, <1>8, <1>9, <1>10, <1>11 DEF TablesInv

\* Every step keeps the invariant.
LEMMA NextKeepsTablesInv == TablesInv /\ [Next]_vars => TablesInv'
<1> SUFFICES ASSUME TablesInv, [Next]_vars PROVE TablesInv'
  OBVIOUS
<1>1. CASE Open
  BY <1>1, OpenKeepsTablesInv
<1>2. CASE \E name \in Names : \E pk \in Keyed : CreateTable(name, pk)
  BY <1>2, CreateKeepsTablesInv, TablesAssumption
<1>3. CASE \E name \in Names : \E v \in Values \ {0} : Insert(name, v)
  BY <1>3, InsertKeepsTablesInv
<1>4. CASE LostLink \/ Crash \/ \E name \in Names : InsertWithKey(name)
  BY <1>4, EndsKeepTablesInv
<1>5. CASE \E name \in Names : \E kind \in {"select", "update", "delete"} :
             \E filter \in Filters : StartScan(kind, name, filter)
  BY <1>5, StartKeepsTablesInv
<1>6. CASE ScanPage
  BY <1>6, ScanKeepsTablesInv
<1>7. CASE ScanSchemaPage
  BY <1>7, ScanSchemaKeepsTablesInv
<1>8. CASE EndScan
  BY <1>8, EndScanKeepsTablesInv
<1>9. CASE BeginClose
  BY <1>9, BeginCloseKeepsTablesInv
<1>10. CASE ClosePage
  BY <1>10, ClosePageKeepsTablesInv
<1>11. CASE CloseHeader
  BY <1>11, CloseHeaderKeepsTablesInv
<1>12. CASE UNCHANGED vars
  <2>1. TypeOK' /\ HeaderInv' /\ CatalogInv' /\ LinkInv'
    BY <1>12 DEF TablesInv, TypeOK, HeaderInv, CatalogInv, LinkInv, vars, memory, file, history
  <2>2. CommittedInv'
    BY <1>12 DEF TablesInv, CommittedInv, Tables, Schemas, vars, memory, file, history
  <2>3. SchemaInv' /\ HeapInv'
    BY <1>12 DEF TablesInv, SchemaInv, HeapInv, Pending, vars, memory, file, history
  <2> QED BY <2>1, <2>2, <2>3 DEF TablesInv
<1> QED BY <1>1, <1>2, <1>3, <1>4, <1>5, <1>6, <1>7, <1>8, <1>9, <1>10, <1>11, <1>12 DEF Next

\* In every reachable state.
THEOREM TablesInvariant == Spec => []TablesInv
BY InitTablesInv, NextKeepsTablesInv, PTL DEF Spec

-----------------------------------------------------------------------------
(* The properties.                                                         *)

\* The header, the catalog, the pages, the cache and the statement under way
\* keep their form: a row stays a row whatever was written over it.
THEOREM TablesTypeCorrect == Spec => []TypeOK
<1>1. TablesInv => TypeOK
  BY DEF TablesInv
<1> QED BY <1>1, TablesInvariant, PTL

\* No name is in the catalog twice, through crashes and reopening, though
\* save_schema only compares names up to the first empty slot: until an UPDATE
\* or a DELETE writes over schemas, which only rows that reach into the link
\* of their page can lead it to.
THEOREM NamesAreUnique == Spec => []NamesUnique
<1>1. TablesInv => NamesUnique
  BY EmptySeq DEF TablesInv, CatalogInv, LinkInv, UniqueNames, NamesUnique, Schemas
<1> QED BY <1>1, TablesInvariant, PTL

\* A table that a finished sm_close wrote is there in every later session,
\* whatever crashes in between: sm_close writes the catalog page before the
\* header that counts it.  Where rows end before the link no statement loses
\* it either; where they reach into it, only a scan over the schema page does.
THEOREM CommittedTablesStay == Spec => []CommittedTablesSurvive
<1>1. TablesInv => CommittedTablesSurvive
  BY DEF TablesInv, CommittedInv, LinkInv, CommittedTablesSurvive
<1> QED BY <1>1, TablesInvariant, PTL

\* Where the last row slot ends before the link, a file that no process died
\* on has a heap of at most two pages, both allocated.  (Where they overlap,
\* a row can write any link.)
THEOREM ChainIsShort == Spec => [](NoOverlap => ChainShort)
<1>1. TablesInv /\ NoOverlap => ChainShort
  BY DEF TablesInv, HeaderInv, HeapInv, HeaderShape, ShortHeap, ChainShort
<1> QED BY <1>1, TablesInvariant, PTL

\* No step of a running process clears a deleted mark: INSERT takes a slot
\* that has none or a page that was never in use, UPDATE and DELETE keep it.
THEOREM TombstonesAreForEver == Spec => TombstonesStay
<1> DEFINE Marks(p) == \A i \in 1 .. Slots : page[p].slot[i].deleted => page'[p].slot[i].deleted
           Stay == proc = "running" /\ proc' = "running" =>
                     \A p \in 2 .. header.page_count - 1 : Marks(p)
<1>1. ASSUME TablesInv, Next, proc = "running", proc' = "running",
             NEW p \in 2 .. header.page_count - 1
      PROVE  Marks(p)
  <2>1. p \in PageIds /\ page \in [PageIds -> HeapPages] /\ p # header.page_count
        /\ header.page_count \in Nat
    <3>1. header.page_count \in 0 .. MaxPages /\ page \in [PageIds -> HeapPages]
      BY <1>1 DEF TablesInv, TypeOK, Headers
    <3> QED BY <1>1, <3>1, TablesAssumption DEF PageIds
  <2>2. CASE page' = page
    BY <2>2
  <2>3. CASE ScanPage
    BY <1>1, <2>1, <2>3, ScanPageWrites
  <2>4. ASSUME NEW name \in Names, NEW v \in Values, Insert(name, v)
        PROVE  Marks(p)
    <3> DEFINE root == header'.root_page
               before == IF header.root_page = 0 THEN Fresh(root) ELSE page[root]
               new == header'.page_count - 1
    <3>1. /\ header.root_page # 0 => root = header.root_page
          /\ header.root_page = 0 => root = header.page_count
          /\ root \in 2 .. header'.page_count - 1
          /\ header' \in Headers /\ header'.page_count <= MaxPages
      BY <1>1, <2>4, InsertWrites
    <3>2. root \in PageIds /\ header'.page_count \in Nat /\ MaxPages \in Nat
      BY <3>1, TablesAssumption DEF Headers, PageIds
    <3>3. before \in HeapPages
      BY <2>1, <3>2, ZeroPage DEF Fresh
    <3>4. p = root => before = page[p]
      BY <2>1, <3>1
    <3>5. CASE /\ Free(before) # {}
               /\ page' = [page EXCEPT ![root] = PutRow(before, FirstFree(before), v)]
      <4>1. \A i \in 1 .. Slots :
              before.slot[i].deleted => PutRow(before, FirstFree(before), v).slot[i].deleted
        <5> DEFINE first == FirstFree(before)
        <5>1. first \in 1 .. Slots /\ ~before.slot[first].deleted
          BY <3>5, FirstFreeIsFree DEF Free
        <5> HIDE DEF root, before, first
        <5>2. \A i \in 1 .. Slots : i # first => PutRow(before, first, v).slot[i] = before.slot[i]
          BY <3>3, <5>1, PutRowWrites
        <5>3. \A i \in 1 .. Slots :
                before.slot[i].deleted => PutRow(before, first, v).slot[i].deleted
          BY <5>1, <5>2
        <5> QED BY <5>3 DEF first
      <4> HIDE DEF root, before
      <4> QED BY <2>1, <3>2, <3>4, <3>5, <4>1
    <3>6. CASE /\ new \in PageIds /\ new >= header.page_count
               /\ page' = [page EXCEPT ![root] = LinkTo(before, new),
                                       ![new] = PutRow(Fresh(new), 1, v)]
      <4>1. new \in Nat /\ p # new
        BY <1>1, <2>1, <3>2, <3>6 DEF PageIds
      <4> HIDE DEF root, before, new
      <4>2. \A i \in 1 .. Slots : LinkTo(before, new).slot[i].deleted = before.slot[i].deleted
        BY <3>3, <4>1, LinkToWrites
      <4> QED BY <2>1, <3>2, <3>4, <3>6, <4>1, <4>2
    <3>7. \/ /\ Free(before) # {}
             /\ page' = [page EXCEPT ![root] = PutRow(before, FirstFree(before), v)]
          \/ /\ new \in PageIds /\ new >= header.page_count
             /\ page' = [page EXCEPT ![root] = LinkTo(before, new),
                                     ![new] = PutRow(Fresh(new), 1, v)]
      <4>1. (new = header.page_count \/ (header.root_page = 0 /\ new = root + 1))
              => new >= header.page_count
        BY <2>1, <3>1, <3>2
      <4> HIDE DEF new
      <4> QED BY <1>1, <2>4, <4>1, InsertWrites, Zenon DEF new
    <3> QED BY <3>5, <3>6, <3>7
  <2>5. \/ page' = page
        \/ ScanPage
        \/ \E name \in Names : \E v \in Values : Insert(name, v)
    BY <1>1 DEF Next, Open, CreateTable, InsertWithKey, StartScan, ScanSchemaPage, LostLink,
                EndScan, BeginClose, ClosePage, CloseHeader, Crash, Dies, memory
  <2> QED BY <2>2, <2>3, <2>4, <2>5
<1>2. TablesInv /\ [Next]_vars => [Stay]_vars
  <2> SUFFICES ASSUME TablesInv, Next PROVE Stay
    OBVIOUS
  <2> QED BY <1>1
<1>3. [][Stay]_vars => TombstonesStay
  BY PTL DEF TombstonesStay
<1> QED BY <1>2, <1>3, TablesInvariant, PTL DEF Spec

\* The row of an INSERT is on the root page or on the page the root page's
\* link leads to after it, so the next scan meets it.
THEOREM InsertedRowsAreReachable == Spec => InsertIsReachable
<1> DEFINE Reachable(v) == \E p \in Chain' : \E i \in 1 .. Slots : page'[p].slot[i] = SerializeRow(v)
           Step == \A v \in Values : (\E name \in Names : Insert(name, v)) => Reachable(v)
<1>1. ASSUME TablesInv, NEW v \in Values, NEW name \in Names, Insert(name, v)
      PROVE  Reachable(v)
  <2> DEFINE root == header'.root_page
             before == IF header.root_page = 0 THEN Fresh(root) ELSE page[root]
             new == header'.page_count - 1
  <2>1. /\ root \in 2 .. header'.page_count - 1
        /\ header' \in Headers /\ header'.page_count <= MaxPages
        /\ page \in [PageIds -> HeapPages]
    BY <1>1, InsertWrites DEF TablesInv, TypeOK
  <2>2. root \in PageIds /\ root # 0 /\ MaxPages \in Nat /\ header'.page_count \in Nat
    BY <2>1, TablesAssumption DEF Headers, PageIds
  <2>3. before \in HeapPages
    BY <2>1, <2>2, ZeroPage DEF Fresh
  <2>4. Chain' = {root, page'[root].link}
    BY <2>2 DEF Chain
  <2>5. CASE /\ Free(before) # {}
             /\ page' = [page EXCEPT ![root] = PutRow(before, FirstFree(before), v)]
    <3>1. page'[root].slot[FirstFree(before)] = SerializeRow(v) /\ FirstFree(before) \in 1 .. Slots
      <4>1. PutRow(before, FirstFree(before), v).slot[FirstFree(before)] = SerializeRow(v)
            /\ FirstFree(before) \in 1 .. Slots
        BY <2>3, <2>5, FirstFreeIsFree, PutRowWrites
      <4> HIDE DEF root, before
      <4> QED BY <2>1, <2>2, <2>5, <4>1
    <3> QED BY <2>4, <3>1
  <2>6. CASE /\ new \in PageIds /\ new # root
             /\ page' = [page EXCEPT ![root] = LinkTo(before, new),
                                     ![new] = PutRow(Fresh(new), 1, v)]
    <3>1. new \in Nat /\ Fresh(new) \in HeapPages /\ 1 \in 1 .. Slots
      BY <2>1, <2>2, <2>6, ZeroPage, TablesAssumption DEF Fresh, PageIds
    <3>2. PutRow(Fresh(new), 1, v).slot[1] = SerializeRow(v)
      BY <3>1, PutRowWrites
    <3> HIDE DEF root, before, new
    <3>3. LinkTo(before, new).link = new
      BY <2>3, <3>1, LinkToWrites
    <3>4. page'[root].link = new /\ page'[new].slot[1] = SerializeRow(v)
      BY <2>1, <2>2, <2>6, <3>2, <3>3
    <3> QED BY <2>4, <3>1, <3>4
  <2>7. \/ /\ Free(before) # {}
           /\ page' = [page EXCEPT ![root] = PutRow(before, FirstFree(before), v)]
        \/ /\ new \in PageIds /\ new # root
           /\ page' = [page EXCEPT ![root] = LinkTo(before, new),
                                   ![new] = PutRow(Fresh(new), 1, v)]
    <3>1. new = root + 1 => new # root
      BY <2>2 DEF PageIds
    <3> HIDE DEF new
    <3> QED BY <1>1, <3>1, InsertWrites, Zenon DEF new
  <2> QED BY <2>5, <2>6, <2>7
<1>2. TablesInv /\ [Next]_vars => [Step]_vars
  BY <1>1
<1>3. [][Step]_vars => InsertIsReachable
  BY PTL DEF InsertIsReachable
<1> QED BY <1>2, <1>3, TablesInvariant, PTL DEF Spec

\* What a statement that skips empty slots has come across: no row.  (Where
\* rows reach into the link, a SELECT can be led to the schema page and take
\* bytes of a schema for rows.)
NothingFound(s) ==
  s.kind \in {"select", "update"} => s.hits = 0 /\ s.rows = {} /\ (NoOverlap => ~s.junk)

\* A row slot that is not deleted looks empty, for serialize_row leaves the row
\* id zero, which SELECT and UPDATE take for an empty slot (executor.c:135, 560).
LEMMA RowsLookEmpty ==
  ASSUME TypeOK, NEW p \in PageIds, NEW kind, kind # "delete", NEW filter
  PROVE  Found(kind, page[p], filter) = {}
<1>1. page[p].slot \in [1 .. Slots -> Rows]
  BY DEF TypeOK, HeapPages
<1>2. \A i \in 1 .. Slots : page[p].slot[i].row_id = 0
  BY <1>1 DEF Rows
<1>3. \A i \in 1 .. Slots : ~page[p].slot[i].deleted => Skipped(page[p].slot[i])
  BY <1>2 DEF Skipped
<1> QED BY <1>3, Zenon DEF Found

\* No SELECT ever finds a row of the heap and no UPDATE ever changes one,
\* whatever was inserted before it, in any session; and where rows keep clear
\* of the link neither comes across anything at all.
THEOREM SelectsFindNothing == Spec => []NothingFound(scan)
<1> DEFINE Blind == NothingFound(scan)
<1>1. NothingFound(NoScan)
  BY DEF NothingFound, NoScan
<1>2. TablesInv /\ Blind /\ [Next]_vars => Blind'
  <2> SUFFICES ASSUME TablesInv, Blind, [Next]_vars PROVE NothingFound(scan')
    OBVIOUS
  <2>1. scan \in Scans /\ TypeOK
    BY DEF TablesInv, TypeOK
  <2>2. CASE scan' = NoScan \/ scan' = scan
    BY <1>1, <2>2
  <2>3. ASSUME NEW kind \in {"select", "update", "delete"}, NEW name \in Names, NEW filter \in Filters,
               StartScan(kind, name, filter)
        PROVE  NothingFound(scan')
    BY <2>3 DEF StartScan, NothingFound
  <2>4. CASE ScanPage
    <3> DEFINE found == Found(scan.kind, page[scan.cursor], scan.filter)
               shown == IF scan.kind = "delete" THEN {} ELSE found
               link == page'[scan.cursor].link
               hits == Cardinality(shown)
               rows == {page[scan.cursor].slot[i].val : i \in shown}
    <3>1. /\ scan.cursor \in PageIds
          /\ scan' = [scan EXCEPT !.cursor = link, !.hits = @ + hits, !.rows = @ \cup rows]
      BY <2>4 DEF ScanPage
    <3>2. scan.kind \in {"select", "update"} => shown = {}
      BY <2>1, <3>1, RowsLookEmpty
    <3> HIDE DEF found, link
    <3>3. scan.kind \in {"select", "update"} => hits = 0 /\ rows = {}
      BY <3>2, FS_EmptySet
    <3> HIDE DEF shown, hits, rows
    <3>4. /\ scan'.kind = scan.kind /\ scan'.hits = scan.hits + hits
          /\ scan'.rows = scan.rows \cup rows /\ scan'.junk = scan.junk
      BY <2>1, <3>1 DEF Scans
    <3> QED BY <2>1, <3>3, <3>4 DEF NothingFound
  <2>5. CASE ScanSchemaPage
    <3>1. ~NoOverlap
      BY <2>5 DEF ScanSchemaPage, TablesInv, LinkInv
    <3>2. ASSUME NEW junk \in BOOLEAN, scan' = [scan EXCEPT !.cursor = 0, !.junk = junk]
          PROVE  scan'.kind = scan.kind /\ scan'.hits = scan.hits /\ scan'.rows = scan.rows
      BY <2>1, <3>2 DEF Scans
    <3>3. ASSUME scan' = [scan EXCEPT !.cursor = 0]
          PROVE  scan'.kind = scan.kind /\ scan'.hits = scan.hits /\ scan'.rows = scan.rows
      BY <2>1, <3>3 DEF Scans
    <3>4. scan'.kind = scan.kind /\ scan'.hits = scan.hits /\ scan'.rows = scan.rows
      BY <2>5, <3>2, <3>3 DEF ScanSchemaPage
    <3> QED BY <3>1, <3>4 DEF NothingFound
  <2>6. \/ scan' = NoScan \/ scan' = scan
        \/ \E name \in Names, kind \in {"select", "update", "delete"} : \E filter \in Filters :
             StartScan(kind, name, filter)
        \/ ScanPage
        \/ ScanSchemaPage
    BY DEF Next, Open, CreateTable, Insert, InsertWithKey, LostLink, EndScan, BeginClose, ClosePage,
           CloseHeader, Crash, Dies, vars
  <2> QED BY <2>2, <2>3, <2>4, <2>5, <2>6
<1>3. Init => Blind
  BY <1>1 DEF Init
<1> QED BY <1>2, <1>3, TablesInvariant, PTL DEF Spec

=============================================================================
