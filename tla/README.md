# A TLA+ project for nyotaDB

nyotaDB is a small relational database in C: one process, one file, a REPL or a
web server in front. This directory holds TLA+ models of it, the TLC runs that
check them on small instances, and theorems that TLAPS checks for every value of the
constants: about the storage manager with a cache and a file of any size, the catalog
and the heap with any number of tables, rows and pages, the B-tree with any hashes and
any stack, the parser and the REPL on any text, the web server with any number of clients
and signals, and any number of processes on the same files. Line numbers refer to `src/`.

## 1. The system

| Part | Files | State it keeps | Operations |
|---|---|---|---|
| Storage manager | `rdbms/storage.c`, `storage.h` | the file; `header`; `pages[100]`, `cache_size`; the LRU list through `prev`/`next` | `sm_open`, `sm_get_page` (with `lru_touch`, `evict_lru_page`), `sm_allocate_page`, `sm_persist_page`, `sm_close` |
| Executor, catalog | `rdbms/executor.c` | page 1 (two `TableSchema` slots), `header.schema_page` | `execute_create_table`, `save_schema`, `load_schema`, `execute_show_tables` |
| Executor, row heap | `rdbms/executor.c` | pages from `header.root_page` on, linked by their last four bytes | `execute_insert`, `execute_select`, `execute_update`, `execute_delete`; `execute_join` (called from nowhere) and `execute_drop_table` (changes nothing) |
| B-tree | `rdbms/btree.c` | nodes on pages, `header.root_page`, `index->root_page` | `btree_create_index`, `btree_search`, `btree_insert`; `btree_delete` changes nothing |
| Web server | `rdbms/webserver.c`, `main.c` | the loop's flag, the server socket, one client | the accept loop, `handle_request`, `signal_handler`, `sm_close` in `main` |
| Parser | `rdbms/parser.c` | a tokenizer and the statement under construction | `parse_sql` and one function per statement |
| REPL | `rdbms/repl.c` | the statement typed so far, a database of its own | `run_repl`, `handle_dot_command` |
| Helpers, front end | `rdbms/memory_mgmt.c`, `webapp/` | none | wrappers of malloc; a form in a browser |

**How they interact.** Everything runs on one thread. A front end parses a line or
a request and calls one `execute_*` function; that function calls the storage
manager for pages and, when a table has a primary key, the B-tree, which calls the
storage manager in turn. Pages are shared by pointer: a caller writes into the page
it fetched and sets `is_dirty`; the page goes to the file when it is evicted or at
`sm_close`. `header.root_page` is shared by the row heap of all tables and by the
B-tree. The only concurrency is the SIGINT handler of the web server, its clients,
and other processes with the same file open: the web server works on `test.db`, and a
REPL works on `nyotadb.db` but opens and closes `test.db` too (`main.c:7`).

**What is hard here.** The storage manager is called in any order, and a page that
was allocated is in the array but not on the list until it is fetched; the array may
fill up. `sm_close` writes page after page and the header last, while
`sm_allocate_page` extends the file at once, so a process that dies (SIGTERM,
SIGPIPE, `exit` in `safe_malloc`, a fault) leaves a file that its header does not
describe. Scans follow links read from pages. The B-tree and the heap disagree about
what the root page is. The server reads from a client for as long as the client
likes, and a signal may come between any two steps. Few of the parser's failing
paths say that they failed, so statements are executed half-parsed. The REPL decides
by the last character where a statement ends, and the tokenizer by its quotes. No file
is locked. `PROJECT.json` lists each hazard
at its line with the properties that cover it.

**What makes each part correct.**
- Storage: what is written to a page is what later fetches read, through evictions,
  closes and reopens; the array is never overrun; the list is the order of last use.
- Catalog: a name once, and tables that were saved stay.
- Heap: an inserted row is on the chain; deleted rows stay deleted; scans end.
- B-tree: keys in order, none lost in a split, a search answers the value inserted.
- Web server: every client is settled, a clean exit saves all, SIGINT ends it.
- Parser: what is written as HELP says becomes the statement meant; what is not changes
  no row, and a filter is not dropped.
- REPL: what is typed reaches the parser, once and unchanged; leaving saves.
- Several processes: sessions one after the other keep what was saved, and a header
  never speaks of pages that are not there.

## 2. The modules

| Module | What it is |
|---|---|
| `PageStore` | abstract: numbered pages, written through the page fetched last, that keep what was written until a process dies; the page fetched is part of its state, so a write that got lost is not a step that changes nothing |
| `LruOrder` | abstract: pages in the order of last use, the last one dropped; the page used last is part of its state, so a use that leaves the order alone is not a legal step |
| `Storage` | `storage.c` in full: array, list, dirty bits, file, header, crashes |
| `StorageProofs` | theorems about the array and the list of `Storage`, and about what its pages hold; `Storage` implements `LruOrder` and `PageStore` |
| `Tables` | `executor.c`: catalog and row heap over pages, statements, close, crashes |
| `TablesProofs` | theorems about `Tables` |
| `BTree` | `btree.c`, node by node, with its recursion |
| `BTreeProofs` | theorems about `BTree` |
| `WebServer` | the loop of `webserver.c`, its clients, SIGINT, `sm_close` in `main` |
| `WebServerProofs` | theorems about `WebServer` |
| `Parser` | `parser.c`, token by token, and what both front ends and the executor make of the statement |
| `WrittenStatements` | statements as HELP and the README describe them, with any names, values and lists, and what each should become |
| `ParserProofs` | theorems about `Parser` and about `WrittenStatements` |
| `Repl` | the loop of `repl.c` and the tokenizer of `parser.c`, character by character |
| `ReplProofs` | theorems about `Repl` and its tokenizer |
| `Processes` | processes of `main.c` that open, change and close the same two files |
| `ProcessesProofs` | theorems about `Processes` |
| `SequenceLemmas` | what several of the proofs need to know of sequences: their elements, induction over positions, joined sequences |
| `MCStorage`, `MCTables`, `MCWebServer`, `MCParser`, `MCRepl`, `MCProcesses` | small instances for TLC; `BTree` is checked as it is |

`Tables` says what a statement does to the pages of one file, `Storage` what becomes
of pages in a small cache, `Processes` what becomes of a file that several use. `Repl`
ends where a text is handed over, and `Parser` begins with that text as tokens.

The operators whose names are near those of another operator (`LruRemove` and
`LruRemoveKeepsTail`, `Room` and `RoomForOneMore`, ...) are mistaken versions of it:
no specification uses them. They say what plausible slip each property would catch,
and `PROJECT.json`, "mutants", pairs them with the property.

### Storage

`pages` is `pages[0 .. cache_size-1]`, a sequence of `Frames` (the `Page` structs);
`frame` holds `page_id`, `data`, `is_dirty`; `lru` the four kinds of pointers;
`disk`, `disk_pages`, `disk_count` the file, how far it is complete, and the header's
`page_count`. One call is one step, `sm_close` one step for each page. `CacheHit`,
`CacheMiss` and `ShortRead` are the three ways through `sm_get_page`, eviction
included. `held` is the page fetched last, the only one that callers write: `execute_insert`
does so across an allocation, and so does `WritePage`. (`btree.c:146` and `183` would write
through older pointers, after a call on a child or under a new root has returned; `BTree`
shows that neither ever does, `InsertReturns` and `PagesInv`.) `pending` is
the page just allocated: every caller fetches it next, and uses the result without
looking (`MayFetch`, `ShortRead`). `ListOrder` reads the order of the pages off the
pointers, for `LruOrder`.

Memory from `malloc`: `prev` and `next` of a page that was allocated are `NULL` or
`WILD`; fetching the page with a wild pointer writes through it, and the model then
ends the process. (The real outcome may also be a silent overwrite of foreign memory;
nothing can be said of a process after that.) `Content` stands for the bytes of a
page; `ClearLast` clears the last byte, which `sm_allocate_page` does to the page
before the new one, in the file only. `fresh` and `crashed` are history.

Left out: the wrap of `page_id * PAGE_SIZE` at 4 GB, a bad magic number, I/O errors,
and the first `Page` struct of a new file, which is never used.

### Tables

One integer column, so all rows have one size; `Slots` rows to a page and
`CatalogSlots` schemas on page 1. A row slot is its deleted flag, its row id (always
0 in `serialize_row`) and its value; empty space is a slot of zeros, as in the file.
`CreateTable` is `execute_create_table` with `save_schema`, `Insert` the whole of
`execute_insert` for a table without a key; a scan is one step for each page
(`StartScan`, `ScanPage`, `ScanSchemaPage`, `EndScan`, and `LostLink` where DELETE uses a
page that is not there). A WHERE is the set of values that pass it; a DELETE without one
does nothing, and is no step. `array` is `sm->pages` with its dirty bits, in the order of
the array, in which `ClosePage` writes them. A page that a stale link led to before it
was allocated again is in the array twice; the copy of zeros is written last (`Again`).
`hits`, `rows` and `alive` of a scan are there for the properties.

`NoOverlap` says whether the last slot keeps clear of the link; with one INT column it does
not (315 rows of 13 bytes end on the link's third byte). Then a row written there spells a
link (`LinkOf`), and writing the link leaves a value that is none of those written (`Torn`).
A link may lead to the catalog page (`ScanSchemaPage`): SELECT takes bytes of schemas for
rows (`junk`); UPDATE and DELETE write to whatever looks like a row there, so the names may
become others (`Garbled`) or the columns and sizes, all but the first byte of a name, which
is in reach of neither the flag nor the column (`Overwritten`). `damaged` remembers that,
and a table whose schema was written over is used again only after a CREATE TABLE.

A session touches fewer pages than the cache holds, so nothing is written before
`sm_close`; `Storage` models what happens otherwise. `InsertWithKey` ends the
process, for an insert into a table with a primary key never returns: `BTree` shows
why, in run `keyed_insert`.

### BTree

A node is `is_leaf`, `keys`, `values` (sequences whose length is `num_keys`) and
`children`. `stack` holds the calls of `btree_insert_nonfull` with the local copies
of their nodes, which are written on the way back (`Unwind`); `MaxDepth` calls fit on
the stack. `heap_first` chooses, initially, between the
two users of the index: a caller that owns the root page (as `btree.h` offers it),
and `execute_insert`, which makes the root a row page first.

The pages of `execute_insert` are rows and schemas, read as nodes. A row page is
an inner node (`is_leaf` is a byte of the row id) without keys, or with the one key 0 when
its first slot is marked deleted (`num_keys` is the flag and row id); its values and
children are the bytes of columns and of the rows behind, so they are any number, a page
that is there or not (`RowNode`, `DeletedRowNode`, `PageNumbers`). Any statement may make
one of them another at any time (`HeapPage`). The children that no hash
leads to are zeros in the model. The schema page has the
first letters of a name for `num_keys`, so the loops over its keys leave their arrays and
the outcome is undefined: any answer, any child, or a fault (`SearchOverrun`,
`InsertOverrun`).

`index_root` starts as anything, because `btree_create_index` leaves
`index->root_page` as malloc found it. An insert into a leaf,
the split of the root and every step of the descent are actions. Because the root's
split never returns (`btree.c:181` descends from the new root's page before it is
written), a tree of two levels is never complete: the branches of `DescendToChild`
and `Unwind` for such trees are in the model as in the code, and no state reaches them.

### WebServer

`at` is where the thread is; `Read` splits into the call and the blocked wait
(`"request"`, `"blocked"`), since a signal that comes before the call does not end
the wait and one that comes during it does. `backlog` is the kernel's queue. The
handler runs between any two steps; when the queue is full its `connect` waits
(`handler`), and the thread it interrupted cannot take from the queue, until the
connect times out. A request is a statement or something else; every statement is
taken to return (the ones that do not are in `Tables` and `BTree`).

### Parser

`at` is where in the `parse_*` functions control is, and a step takes or peeks at one
token (`Take`, `Peek`); `Tok` is `NULL` when the text ends and also when a quote is open,
as `tokenizer_next` returns it for both. Places that differ only in the token they
expect and in where they go on share an action (`Expect` with the table `Expected`,
`TableName`, `WhereColumn` ...). `EndOfText` is every test for `NULL`: it sets
`has_error` in `expect_token` and for an empty text, and nowhere else. `stmt` has the
fields of `SQLStatement`; a pointer is a sequence, empty for `NULL`, and counts are set
where the code sets them, apart from the arrays they count. Names are copied as far as
their arrays go (`CutColumns`, `CutTables`), and the columns that a JOIN is on lose what
stands before their dot (`Unqualified`). A filter compares with the first column of its
name, since CREATE TABLE accepts a name twice, and is dropped when that one is not as
wide as an int (`ComparesWith`). `EffectOn` is the dispatch
of `repl.c` and `webserver.c` with the checks that come first in each `execute_*`
function: whether the statement is carried out, on which table, with which filter.
The places are grouped by the function they are in (`CreatePlaces`, `SetPlaces` ...).
Keywords are in capitals and have one spelling each.

### Repl

A text is a sequence of characters. `Chunk` is what `fgets` returns, `Joined` the
statement with the next line behind it, `Complete` is `is_command_complete`;
`TokenEnd` is `tokenizer_next` and `Tokens` calls it until it returns `NULL`. `Q` stands
for QUIT and EXIT. `Handle` is any other text that is complete, dot commands, HELP and
CLEAR included: what they do is elsewhere or changes nothing. The build defines no
`HAVE_READLINE`, so lines come through `simple_readline`. Single characters and lines are chosen
so that two or three together are a statement, quoted and cut in awkward places.

### Processes

`disk` is the files by inode, `dir` the directory, `handle` a process's
`StorageManager` for each file with its own header and its copy of the catalog page.
Opening is two steps where the file is new (`SmOpen`, `WriteNewHeader`), closing is one
step for each dirty page (`ClosePage`) and one for the header (`CloseHeader`), which is
written whether it changed or not. A page is fetched when a statement first needs it
and kept. A statement that reads is `Look`, one that writes rows is `Insert` (what it writes is
left out, and so is what UPDATE and DELETE change on the same page). `stale`, `overlap`
and `committed` are history, for the properties.

## 3. The runs

| Run | Instance | Properties and what they show |
|---|---|---|
| `storage_pages` | 3 frames, cache of 2, pages 0-3, 3 contents; states after a death are not followed (`NobodyDied`) | `UniqueIds`, `HeldIsCurrent`, `AllocatedPagesReadable`; `StoreSpec`: Storage implements `PageStore` |
| `storage_list` | 4 frames, cache of 3, pages 0-4, 1 content, deaths followed | `TypeOK`, `ListLinked`, `NoFrameTwice`, `CacheBounded`; `LruSpec`: the list implements `LruOrder` |
| `heap` | 1 table, 1 slot, values 0 and 1, pages 0-4 | `ChainShort`, `TombstonesStay`, `InsertIsReachable`, `ScansEnd` |
| `catalog` | 3 names, 2 catalog slots, 1 row slot that reaches into the link, values 0-3, pages 0-3; states with a schema written over are checked, not followed (`NothingDamaged`) | `TypeOK`, `NamesUnique`, `CommittedTablesSurvive` |
| `btree` | hashes 0-2, values 1-2, pages 0-4, row pages up to 3, 4 stack frames | `TypeOK`, `KeysOrdered`, `SearchFindsFirst`, `SplitKeepsKeys`, `RowsNotOverwritten`, `SearchReturns`, `InsertReturns` |
| `parser` | arrays of 2, tables with 0, 1 and 2 columns and one with a name twice, names that are cut or have a dot; statements of every kind as they should be, and every text one slip makes of some of each kind | `TypeOK` (arrays and counts in their bounds), `WrittenIsParsed`, `HalfParsedChangesNoRow`, `NothingLeftUnread`, `NoFilterDropped`, `Terminates` |
| `repl` | up to 3 lines of 29, a buffer of 6 | `NothingLost`, `WordsAsTyped`, `EndsWithSemicolon`; `EofEnds`: the end of the input ends the REPL with everything saved |
| `processes` | 2 processes, 2 sessions after the ones that left the files, 2 table names, 3 inodes | `HeaderCovered`, `SequentialSessionsKeep`, `OnlyStaleLoses` |
| `server` | 3 clients, a queue of 2, 2 signals | `AnsweredIsKept`, `OneMoreAtMost`, `EveryClientSettled`, `ShutdownCompletes` |

**Bounds.** A cache of two is the smallest in which a page can be evicted while
another stays, a cache of three the smallest whose list has an inner page; with one
frame more than the cache holds, `malloc` has a choice. Four pages let the cache
fill and one page be evicted and come back; a third content tells a page whose last
byte was cleared. Page 0, the catalog and three heap pages are what the heap needs
to reach a root with a link, to replace the link and to leave a page behind; with one slot
a DELETE and two INSERTs do that. Three
names on two slots fill the catalog. Three keys fill a node of order 4, and the
fourth splits it; hash 0 is the one that the key of a deleted row equals, and
the value says which of two inserts of one hash is found. Three
clients put one in service and two in a full queue; a second SIGINT finds a flag
already cleared and a queue full. Arrays of two are overrun by a list of three, of which
each kind of statement has one. Three lines are a statement that begins on one, goes on
over another and ends on a third; six characters are a buffer that some lines fill to
the last place and leave their newline for the next read, and others overrun. Two processes are what a stale header takes, and files that hold
nothing, a table, or a table and rows are all that an earlier session leaves, as far as
`Processes` looks; the third inode is for a file made after `make clean`. In `catalog`
a row slot is the last one of its page, so every row spells a link: to the root page
itself, to the catalog page, past the file, or none.
`MaxPages`, `HeapEnd`, `MaxDepth`, `MaxSignals`, `MaxLines`, `MaxInodes` and `MaxSessions` bound
what would otherwise grow for ever.

**Fairness.** `Tables`, `BTree`: a statement that has begun runs on, since nothing
else runs on its thread. `WebServer`: the thread runs on when it is not blocked
(`Thread`), the connect's timeout included. `SpeakingSpec` adds that a client that
connected sends something or hangs up; the code has no timeout that would justify
leaving this out: without it, a SIGINT between `accept` and `read` of a silent client
leaves the server in `read` for good, though it says "Press Ctrl+C to stop server"
(`webserver.c:556`). `Parser` is a sequential program that takes its next step; in
`Repl` the program takes its steps (`Program`), and nobody has to type anything.
`Processes` claims no liveness.
`CHECK_DEADLOCK FALSE` is said where the process ends for good.

**Where the code disagrees with its own words.** Each run below checks one sentence
of the repository, and TLC shows the steps that refute it.

| Run | The sentence | What happens |
|---|---|---|
| `select_finds_rows` | INSERT, then SELECT (`README.md:141-142`) | every row that is not deleted looks like empty space |
| `keyed_insert` | INSERT with a key (`README.md:141`), "Update B-Tree index" (`executor.c:492`) | the insert recurses until the stack ends, or reads a NULL page |
| `update_refused` | "UPDATE users SET age = 26 WHERE id = 1;" (`README.md:48`) | WHERE is consumed twice, and the condition is an unexpected token |

Met on the way, without a run of their own:
- Storage: with the cache full, `sm_allocate_page` drops the page it made and hands out
  its number ("Add to cache", `storage.c:142`).
- Heap: the slot of the last row counts as free and the next INSERT overwrites it ("Find
  free space in page", `executor.c:462`). With one INT column the last slot of a page
  ends on the third byte of the link, and a row there makes scans go in circles (with
  the value 512), or leads them to the catalog page (with 256), where SELECT takes bytes of
  schemas for rows and UPDATE and DELETE write over them: a committed table may be lost
  (`CommittedTablesSurvive` names this case, and no other). When the root is full once more
  its link is replaced, and the rows of the page behind it are on no chain any more
  (`executor.c:479`). DELETE with the value 0 marks empty slots.
- Index: the fourth insert into an index used as `btree.h` offers it does not return
  either (`btree.c:181`); a search on a row page does not (`btree.c:52`).
- Parser: `DROP TABLE t;`, which `README.md:43` and HELP describe, is a parse error, since
  DROP takes TABLE for the name. The only UPDATE that is carried out has as many columns as
  the array and no WHERE, says WHERE twice, or ends at WHERE: `UPDATE t SET a = 1 WHERE;` is
  carried out with no filter (`UpdatesNeedWhereTwice`, `WrittenIsParsed`). A filter on a
  name that two columns have is dropped when the first is not as wide as an int.
  Operators are compared as `=` (`README.md:47` has `age > 20`). A JOIN is
  parsed and its left table selected. `CREATE TABLE t (a INT;` is executed, with no
  columns, in the place of a table of that name; into a table without columns, an
  `INSERT INTO e VALUES (` that ends there inserts a row, for no values are what
  `executor.c:425` expects (`HalfParsedChangesNoRow` names this case, and an UPDATE
  with an empty WHERE, as the two where a statement read by half changes rows). An open
  quote ends the text for the parser: what stands behind it is ignored.
- REPL: a line longer than 2047 characters is joined with a space in the middle; QUIT
  is not understood with a space before it or behind a begun statement.
- Processes: a REPL that does nothing takes the first tables or rows that a web server
  saved to `test.db` in the meantime, with the header it writes back.

## 4. What is proved

Each proof module has one inductive invariant, a lemma for every action that says it is
kept, and theorems that follow from it. What is assumed of the constants is said by one
ASSUME in each module, two in `Parser`, one in `WrittenStatements` (`StorageAssumption`, `TablesAssumption`, `BTreeAssumption`,
`ParserAssumption`, `NamedAssumption`, `WrittenAssumption`, `ProcessesAssumption`, `WebServerAssumption`): that sizes are numbers
above 0 and the inputs of their types. Where it says more, the code is the reason: `MaxPages`
is at least 2 in `Tables` and `BTree` because page 1 is the catalog, and row pages of
`BTree` lie below `HeapEnd`, which any number up to `MaxPages` may be; a written-over name
(`Garbled`) is none of `Names`; a node value is never 0 in `BTree`,
which is what `btree_search` answers for "not there"; a token is never `NULL` in `Parser`,
a star is not cut, and
no table has an empty name (`NamedAssumption`), for `load_schema` stops at a schema without
one (`executor.c:837`). `WrittenAssumption` says what counts as written properly; it is
explained with the parser below.
All theorems are about every number of pages, rows, names, processes, texts and so on,
where the runs of section 3 look at the small ones.

### The page array and the list (`StorageProofs`)

`TypeCorrect`, `NoOverrun` (`CacheBounded`), `FrameOnce` (`NoFrameTwice`) and
`ListCorrect` (`ListLinked`) follow from `CacheInv`:

- `TypeOK` and `NoFrameTwice`;
- `ListInv`: some sequence `s` of pages is threaded by the pointers (`IsList`), and
  holds exactly the cached pages that were fetched. `ListLinked`, which looks at
  neighbours only, is not inductive: a ring apart from the rest would satisfy it, so
  the proof carries the sequence and derives the neighbours from it (`ListShape`);
- `RoomInv`: the array is within its bound, and when it is full there is a page on
  the list, or the one page off the list is the one about to be fetched. `CacheBounded`
  alone does not say that an eviction finds a victim;
- `IdleInv`: a process that is down has no cache, and nobody holds a page of it.

The lemmas `RemoveFromList` and `InsertIntoList` say what `lru_remove` and
`lru_insert_front` do to the sequence, `SwapRemoveDrops` what the eviction's move does
to the array, `EvictionMakesRoom` puts the three together.

`ImplementsLru` (`LruSpec`): `Storage` implements `LruOrder`. The refinement mapping
`ListOrder` is the sequence that the pointers thread. `OneOrder` says that there is only
one, so what `RemoveFromList` and `InsertIntoList` say of some sequence is said of
`ListOrder`; `HitUses`, `MissUses`, `ShortReadFails` and `AllocateKeepsOrder` map each step to a
step of `LruOrder` or to a stutter, and `EvictionTakesLast` says that the page evicted is
the last of the order.

### What the pages hold (`StorageProofs`, second half)

`IdsAreUnique` (`UniqueIds`), `HeldStaysCurrent` (`HeldIsCurrent`), `PagesStayReadable`
(`AllocatedPagesReadable`) and `ImplementsPageStore` (`StoreSpec`). The invariant, `DataInv`,
speaks of the time until a process dies, for a file that its header does not
describe keeps none of its parts:

- `CopiesInv`: a page number is cached once, and was handed out. The second half is what
  keeps a new page's number from being in the cache already;
- `CleanInv`: a page that is not dirty is in the file, but for its last byte, or evicting it would
  lose it;
- `FileInv`: the file is not ahead of the page count, and zeros are behind it: the page that
  `sm_allocate_page` hands out has no old content;
- `CallerInv`: a caller holds a page only while the store is open;
- `ReadableInv`: each page handed out is in the file or dirty in the cache, or is the one
  whose allocation found the cache full.

For the refinement, `ReadsStay` and `ContentStays` say that what the next fetch of a page
would return (`Logical`) does not change while pages move between cache and file.

### Catalog and heap (`TablesProofs`)

`TablesTypeCorrect` (`TypeOK`), `NamesAreUnique` (`NamesUnique`), `CommittedTablesStay`
(`CommittedTablesSurvive`), `ChainIsShort` (`ChainShort`, where `NoOverlap`: in the
other case TLC shows longer chains), `TombstonesAreForEver` (`TombstonesStay`) and
`InsertedRowsAreReachable` (`InsertIsReachable`). The first three hold whatever the rows
spell: the properties name the one way out, an UPDATE or DELETE that a row's link led to
the catalog page. `TablesInv` consists of `TypeOK` and

- `HeaderInv`: a header knows the catalog before the heap, and the heap is behind it;
- `CatalogInv`: names once, in memory and in the file, unless `damaged`;
- `SchemaInv`: the catalog page in memory is the one in the file, or is still to be written;
  who scans has fetched it;
- `CommittedInv`: committed tables are in the file at every moment of a close, for the
  catalog page is written before the header, and never after it is known to be there;
- `LinkInv`: where rows keep clear of the link, none leads to the catalog page, so nothing
  is ever damaged;
- `HeapInv`: a root and at most one page behind it, in memory and in the file, which follows
  page by page in the order of the array; no page is in the array twice; and a scan under
  way is on one of the two. A chain that is short in
  memory but not in the file would be back after the next start.

`SelectsFindNothing` turns the finding `select_finds_rows` into a law of the code: no SELECT
finds a row of the heap and no UPDATE changes one, in any session, for every row that is not
deleted has row id 0 (`RowsLookEmpty`). Where rows keep clear of the link nothing else is
found either; where they do not, a SELECT may still answer with bytes of a schema.

### The index (`BTreeProofs`)

`BTreeTypeCorrect` (`TypeOK`), `KeysStayOrdered` (`KeysOrdered`), `SearchesFindTheFirst`
(`SearchFindsFirst`), `SplitsKeepKeys` (`SplitKeepsKeys`) and `RowsAreSafe`
(`RowsNotOverwritten`), from `BTreeInv`:

- `TypeOK`, `KeysOrdered`, and `RootInv`: the header and the index agree on the root;
- `PagesInv`: for the caller of `btree.h` each page is a leaf or was never written; for
  `execute_insert` none reads as a leaf, and none has as many keys as a full node, whatever
  its rows say;
- `CallInv`: an insert under way is about to write the one leaf, or is on a page of zeros
  or of rows, from which it never comes back: it can only go down or die;
- `FirstInv`: between inserts the one leaf answers each hash with its first value.

So the only tree that answers is a single leaf; a split takes place, loses nothing
(`HalvesAre`, `ParentIs`), and is never put to use. `KeyedInsertsNeverReturn` says the
same of `execute_insert`, the finding `keyed_insert`, for every stack and for any bytes in
the columns: since no page reads as a leaf, no insert ever begins to return. `RowsAreSafe`
follows from it, for nodes are written on the way back or when a full one is split.

### The parser (`ParserProofs`)

`ParserTypeCorrect` (`TypeOK`: no index behind its array, no count above what was stored,
for any text), `HalfParsedIsHarmless` (`HalfParsedChangesNoRow`) and
`ChangesReadEverything` (`NothingLeftUnread`). `ParserInv` consists of `TypeOK` and

- `Shape`, what the statement may hold where: its type (`KindOK`), which lists are counted
  (`CountOK`) and which have entries (`ListsOK`). It is a predicate of a place and a
  statement, so that each action only shows that the statement it leaves fits the
  place it goes to (`GoKeeps`);
- `ReadInv`: where the parser gave up without `has_error`, the text is at its end or the
  statement writes no row;
- `EffectInv`: the effect is the one of the statement as it was left.

`FiltersAreApplied` (`NoFilterDropped`) speaks of the filters that the executor can apply,
those on a name whose first column is as wide as an int (`ComparesWith`). It needs an invariant of its own, `FilterInv`: for each
`k` where the text ends with a filter, the parser is before `k`; or it has read the filter
as far as it came (`FilterRead`); or it took this WHERE for something else, a column or the
name of a table, and what is left will be an error (`Astray`); or nothing comes of the
statement, for it is in error, has no table, or is of a kind without filter
(`NothingComes`). The proof showed that the property as the run had it first was a
statement about the run's texts. With a column of the name `=` or `WHERE`, or where WHERE
stands for the value that SET lacks, the words at the end of a text are no filter: `SELECT WHERE a FROM t;`
has a column WHERE, and in `SELECT * FROM t WHERE WHERE a = ;` the second WHERE is the
column. `EndsWithFilter` now says which ends of a text are a filter (`Grammar` is the words that are
none of its parts), and TLC went through 335,000 texts of such words before the proof began.
`UpdatesNeedWhereTwice` generalises the finding `update_refused`. Its invariant,
`SetWhereInv`, follows the token behind which the list of SET ended.
The proof of `HalfParsedIsHarmless` needed the case of a table without columns, which
no small schema had shown, and is why the run has one now.

`WrittenStatementsAreParsed` (`WrittenIsParsed`) says the reverse of all this: what is written
properly is not half-parsed. `WrittenStatements` takes names, values and lists as constants, so
the theorem is about every statement that HELP and the README describe, with lists of any
length, and the longer ones than the arrays do nothing. Names arrive cut to their arrays, and
those of a JOIN without their prefix. Of UPDATE and DROP TABLE it says what becomes
of them: nothing, but for an UPDATE without WHERE that fills its array. `WrittenAssumption` excludes what
no reader would call such a statement: a selected column called `*`, `,` or
`FROM`, a skipped column called `)`, a column called `WHERE` in a filter or behind SET, a comparison that is none of `Operators`, an empty list
of values or columns, two primary keys, a length on a column that is not a STRING.
Everything else may be any token; a table called `WHERE` is read as one.

A *script* says of one statement, for each place in its text, where the parser is, which
tokens are left and what the statement is by then; `WrittenInv` says that the
parser is somewhere in the script of every statement whose text it reads. Scripts are built as
statements are: `SelectScript` is the list with its first `n` columns read, then `JoinScript`,
then `FilterScript`, then `EndScript`, and each part is shown to be followed once, for
whatever comes after it (`EndStep`, `FilterStep`, `JoinStep`, `SelectStep` ...). A list of one item
too many leaves its script: SELECT gives up before it has a table (`Rejected`), the others
leave their loop with the item still to be read, which is too much behind the end of
the statement (`TooMuch`) and so an error. The script of an UPDATE with a WHERE ends where
another WHERE should stand and something else does (`OffTrack`). In CREATE TABLE a column is a script of its own
(`ColumnScript`), with the constraints read so far (`ColumnUpTo`) and the index of the key
that `KeyIndex` finds among the columns before.
The texts themselves are joined lists, and the parser sees one token of them at a time:
`ListText`, `SkippedText`, `ConstraintTextIs` and `CreateTexts` say what is left of such a list after each item,
and `SelectTokens`, `InsertTokens` ... that the whole text is what its script begins with.

### Several processes (`ProcessesProofs`)

`HeadersAreCovered` (`HeaderCovered`), `SessionsKeep` (`SequentialSessionsKeep`) and
`OnlyTheStaleLose` (`OnlyStaleLoses`), for any number of processes and names. `ProcessesInv`:

- `Types` and `HeaderCovered`;
- `PlaceInv`: who is somewhere in a file has it open, with a header that fits the place;
- `CoverInv`: the same as `HeaderCovered` for the headers in memory: what they speak of is in
  the file or will be written before they are;
- `NameInv`: an inode has one name;
- `OverlapInv`: two who have an inode open are on record, and so is everyone stale;
- `AheadInv`: until another writes, a process knows all that is in the file;
- `CommitInv`: what was committed is there.

Statements and writes are proved about once each: `States` sums up what a statement does to a
handle, `Writes` what a write does to a file, and the actions are shown to be among them.

### The web server (`WebServerProofs`)

`ServerTypeCorrect` (`TypeOK`, which no run checks), `AnswersAreKept` (`AnsweredIsKept`)
and `OneMoreClient` (`OneMoreAtMost`), for any clients, any queue and any number of signals.

The inductive invariant is `ServerInv`. `AnsweredIsKept` alone does not survive the
answer: `KeepInv` adds that a client that said nothing has no answer, that the statement
being answered was executed, and that nothing is unsaved after a clean exit; it also says
that the handler's own connection never speaks, so that only clients' statements are
executed. `LateInv` adds to `OneMoreAtMost` that nobody was let in late while the flag is
set, nor between the loop's last look at it and the `accept` that follows.

### The REPL and the tokenizer (`ReplProofs`)

`EverythingIsRead` (`NothingLost`), `SemicolonEndsStatement` (`EndsWithSemicolon`) and
`WordsReachParser` (`WordsAsTyped`), for all lines over any characters and any buffer of
two bytes or more.

The tokenizer is a recursive function over positions, and so is `FlattenSeq`, which joins
texts. Neither the library's induction rules nor its theorems on recursive functions can be
cited here, for they take operators as parameters. `SequenceLemmas` has both in the form of
sets: `FromTheFirst` and `FromTheLast` say that a set of positions that holds each position
whose predecessors (successors) it holds has them all, and `Recursion` that a step
given as a function on partial functions has a function that follows it to the end. With
these, `Joins` and `FlattenConcat` say what `FlattenSeq` does to sequences joined, and `Cuts` and
`Opens` what `Tokens` and `QuoteOpen` are read from.

The invariants, on top of `ReplTypes`:

- `AllThere`: what is executed, waits and is not read yet is all that was typed, spaces
  aside;
- `CompleteOnes`: what was executed is complete as `is_command_complete` says. That a
  complete text ends in a semicolon token, or in an open quote, is a fact of the tokenizer
  alone;
- `TailOfTyped`: what is not read yet is the end of what was typed, so a line that fits the buffer is
  read with its newline (`WholeLineRead`);
- `WordsKept`: what was typed, with its newlines made spaces, is a text `x` whose words
  were executed, then the statement begun, then what is not read. `x` ends with a space and
  leaves no quote open. The property compares words only, and only where all is read; the
  invariant has to say where in the text the joint between two statements is.

The tokenizer's part is `TokensJoined`: behind a text that leaves no quote open and is
kept apart by a space, the words of another text are what they are alone, and the words
of the first do not change. It follows position by position, from behind (`TokensBehind`)
and from the front (`TokensGoOn`).

The proof of `WordsReachParser` did not go through with what `LinesFit` said at first, that a
line has its newline within the size of the buffer. `fgets` keeps a byte for the terminator:
a line of exactly `Buffer - 1` characters is read without its newline, the newline is a
line of its own, and a literal that is open there gets two spaces where one was typed. No
line of the run was of that length; now one is.

`SequenceLemmas` has what several of these proofs need to know of sequences: what
appending, inserting, removing, taking the tail and joining do to elements, length and order.

### Only model-checked

- Liveness: `ScansEnd`, `SearchReturns`, `InsertReturns`, `Terminates`, `EofEnds`, `EveryClientSettled`,
  `ShutdownCompletes`.
- The three runs that refute a sentence; the theorems named above say of each what
  holds instead.

## 5. Not modelled, and the plan

Not modelled: `execute_join` (never called), `execute_drop_table` and `btree_delete`
(change nothing), result printing and JSON, static files, the browser's side, the memory
helpers but for their `exit`; several row sizes on the one heap, and columns that are
longer than their values (`memcpy` then reads behind an allocation); page numbers from
2^20 on, whose offset wraps.

The order of the work: storage first, since all else stands on it; then the heap and
catalog; the B-tree; the web server; the parser, the REPL and several processes. Next:

1. `Storage` and `Tables` composed, so that a statement runs with a cache smaller than
   its pages.
2. Requests that arrive in pieces, in `WebServer`: the loop reads once, and answers 400
   when the query is not in what it read.
