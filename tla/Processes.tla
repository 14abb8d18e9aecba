------------------------------ MODULE Processes ------------------------------
(***************************************************************************)
(* Processes of the program in one directory (main.c, run_repl, sm_open    *)
(* and sm_close).  A web server works on test.db; a REPL opens test.db     *)
(* too, works on nyotadb.db, and closes both.  Nothing locks a file: each  *)
(* process has its own copy of the header and of the pages it fetched, and *)
(* writes the pages it changed, and then the header, when it closes.       *)
(*                                                                         *)
(* Of a file's pages, page 1 is the catalog, which is never full here, and *)
(* page 2 the root of the row heap, of which the rows are left out.  Files *)
(* are inodes: make clean (run.sh, Makefile) unlinks nyotadb.db under      *)
(* whoever has it open.                                                    *)
(***************************************************************************)
EXTENDS Naturals, Sequences, SequencesExt

CONSTANTS
  Procs,         \* processes
  Names,         \* table names
  MaxInodes,     \* bound: files created in all
  MaxSessions    \* bound: programs started after the sessions that left what is there

ASSUME ProcessesAssumption ==
  /\ MaxInodes \in Nat \ {0, 1}
  /\ MaxSessions \in Nat

Files == {"test.db", "nyotadb.db"}
Inodes == 1 .. MaxInodes
SchemaPage == 1
HeapPage == 2

VARIABLES
  dir,        \* the inode of each file, 0 when there is none
  disk,       \* inodes: the header, the pages that are complete, the catalog
  at,         \* where each process is, and with which file
  handle,     \* each process's StorageManager for each file
  sessions,   \* how many programs were started
  committed,  \* history: what the closes that finished left in each file
  overlap     \* history: inodes that two processes had open at once

vars == <<dir, disk, at, handle, sessions, committed, overlap>>

NoHeader == [page_count |-> 0, root_page |-> 0, schema_page |-> 0]
NewHeader == [NoHeader EXCEPT !.page_count = 1]
EmptyFile == [header |-> NoHeader, pages |-> 0, catalog |-> <<>>]

\* A StorageManager: the catalog page when it is cached, the pages to write.
NoHandle == [inode |-> 0, header |-> NoHeader, cached |-> FALSE, catalog |-> <<>>,
             dirty |-> {}, stale |-> FALSE]

Down == [step |-> "down", file |-> "test.db", web |-> FALSE]

Later(a, b) == IF a < b THEN b ELSE a

\* What a session that opens a file now finds in it.
Holds(file) ==
  (IF file.header.schema_page # 0 THEN ToSet(file.catalog) ELSE {})
    \cup (IF file.header.root_page # 0 THEN {"rows"} ELSE {})

Users(i) == {p \in Procs : \E f \in Files : handle[p][f].inode = i}

\* The StorageManager p works with, opens or closes.
Mine(p) == handle[p][at[p].file]

\* The others that have p's file open, and what they know of it, is stale.
Written(p) ==
  [q \in Procs |-> [f \in Files |->
     IF q # p /\ handle[q][f].inode = Mine(p).inode THEN [handle[q][f] EXCEPT !.stale = TRUE]
     ELSE handle[q][f]]]

-----------------------------------------------------------------------------

\* What an earlier session may have left of a file: nothing, or a table,
\* without and with rows.
Left ==
  {EmptyFile} \cup
  {[header |-> [page_count |-> HeapPage + rows,
                root_page |-> rows * HeapPage,
                schema_page |-> SchemaPage],
    pages |-> HeapPage + rows,
    catalog |-> <<name>>] : rows \in {0, 1}, name \in Names}

Init ==
  /\ \E t, n \in Left :
       /\ t = EmptyFile => n = EmptyFile
       /\ dir = [f \in Files |-> IF f = "test.db" THEN IF t = EmptyFile THEN 0 ELSE 1
                                 ELSE IF n = EmptyFile THEN 0 ELSE 2]
       /\ disk = [i \in Inodes |-> CASE i = 1 -> t [] i = 2 -> n [] OTHER -> EmptyFile]
       /\ committed = [f \in Files |-> IF f = "test.db" THEN Holds(t) ELSE Holds(n)]
  /\ at = [p \in Procs |-> Down]
  /\ handle = [p \in Procs |-> [f \in Files |-> NoHandle]]
  /\ sessions = 0
  /\ overlap = {}

\* Where a process goes when a file is open: the REPL opens another one.
Opened(f, web) ==
  [file |-> IF web THEN f ELSE "nyotadb.db", web |-> web,
   step |-> IF web \/ f = "nyotadb.db" THEN "working" ELSE "open"]

Unused == {i \in Inodes : i \notin {dir[f] : f \in Files} /\ disk[i] = EmptyFile /\ Users(i) = {}}

\* Whether sm_open takes a file for a new one.
IsNewAlways(i) == TRUE

IsNew(i) == disk[i].header = NoHeader

\* sm_open: a file is made when there is none, and its header read unless the
\* file is empty.
SmOpen(p, f, web) ==
  /\ dir[f] = 0 => Unused # {}
  /\ LET i == IF dir[f] = 0 THEN CHOOSE n \in Unused : TRUE ELSE dir[f]
     IN /\ dir' = [dir EXCEPT ![f] = i]
        /\ handle' = [handle EXCEPT ![p][f] = [NoHandle EXCEPT !.inode = i, !.header = disk[i].header]]
        /\ at' = [at EXCEPT ![p] = IF IsNew(i)
                                   THEN [step |-> "blank", file |-> f, web |-> web]
                                   ELSE Opened(f, web)]
        /\ overlap' = IF Users(i) # {} THEN overlap \cup {i} ELSE overlap
  /\ UNCHANGED <<disk, committed>>

\* main, with or without --web.
Start(p) ==
  /\ at[p].step = "down"
  /\ sessions < MaxSessions
  /\ sessions' = sessions + 1
  /\ \E web \in BOOLEAN : SmOpen(p, "test.db", web)

\* run_repl, which main calls with the database it opened, takes its own.
StartRepl(p) ==
  /\ at[p].step = "open"
  /\ SmOpen(p, "nyotadb.db", FALSE)
  /\ UNCHANGED sessions

\* The header of a file that was empty when it was looked at.
WriteNewHeader(p) ==
  LET f == at[p].file
  IN /\ at[p].step = "blank"
     /\ disk' = [disk EXCEPT ![handle[p][f].inode].header = NewHeader]
     /\ handle' = [Written(p) EXCEPT ![p][f].header = NewHeader]
     /\ at' = [at EXCEPT ![p] = Opened(f, at[p].web)]
     /\ UNCHANGED <<dir, sessions, committed, overlap>>

-----------------------------------------------------------------------------
(* Statements.                                                             *)

Working(p) == at[p].step = "working"
MyFile(p) == disk[Mine(p).inode]

\* load_schema: the schema page is fetched, from the cache if it is there.
CatalogThere(p) ==
  Mine(p).header.schema_page # 0 /\ (Mine(p).cached \/ MyFile(p).pages > SchemaPage)
CatalogUnfetched(p) == Mine(p).catalog

Catalog(p) == IF Mine(p).cached THEN Mine(p).catalog ELSE MyFile(p).catalog

\* The first statement that only reads, as SHOW TABLES or SELECT.
Look(p) ==
  /\ Working(p)
  /\ CatalogThere(p) /\ ~Mine(p).cached
  /\ handle' = [handle EXCEPT ![p][at[p].file].cached = TRUE,
                              ![p][at[p].file].catalog = Catalog(p)]
  /\ UNCHANGED <<dir, disk, at, sessions, committed, overlap>>

\* A table takes its own slot again, or the first empty one.
Saved(catalog, name) == IF name \in ToSet(catalog) THEN catalog ELSE Append(catalog, name)

\* save_schema; the first table of a file makes the schema page.
CreateTable(p, name) ==
  LET f == at[p].file
      h == Mine(p)
      grow == h.header.schema_page = 0 /\ h.header.page_count <= SchemaPage
      before == IF grow THEN <<>> ELSE Catalog(p)
      header == [h.header EXCEPT !.schema_page = SchemaPage,
                                 !.page_count = IF grow THEN @ + 1 ELSE @]
  IN /\ Working(p)
     /\ grow \/ CatalogThere(p)
     /\ handle' = [handle EXCEPT ![p][f] =
          [h EXCEPT !.header = header,
                    !.cached = TRUE,
                    !.catalog = Saved(before, name),
                    !.dirty = @ \cup {SchemaPage}]]
     /\ disk' = IF grow THEN [disk EXCEPT ![h.inode].pages = Later(@, SchemaPage)] ELSE disk
     /\ UNCHANGED <<dir, at, sessions, committed, overlap>>

\* execute_insert: the first row of a file makes the heap's root page.
Insert(p) ==
  LET f == at[p].file
      h == Mine(p)
      grow == h.header.root_page = 0
  IN /\ Working(p)
     /\ CatalogThere(p)
     /\ Catalog(p) # <<>>
     /\ handle' = [handle EXCEPT ![p][f] =
          [h EXCEPT !.header.root_page = IF grow THEN h.header.page_count ELSE @,
                    !.header.page_count = IF grow THEN @ + 1 ELSE @,
                    !.cached = TRUE,
                    !.catalog = Catalog(p),
                    !.dirty = @ \cup {HeapPage}]]
     /\ disk' = IF grow THEN [disk EXCEPT ![h.inode].pages = Later(@, h.header.page_count)] ELSE disk
     /\ UNCHANGED <<dir, at, sessions, committed, overlap>>

-----------------------------------------------------------------------------
(* The end of a process.                                                   *)

\* The loop ends: QUIT, the end of the input, or SIGINT to the web server.
BeginClose(p) ==
  /\ Working(p)
  /\ at' = [at EXCEPT ![p].step = "pages"]
  /\ UNCHANGED <<dir, disk, handle, sessions, committed, overlap>>

\* sm_close writes the dirty pages, each on its own.
ClosePage(p) ==
  LET f == at[p].file
      h == Mine(p)
      page == IF SchemaPage \in h.dirty THEN SchemaPage ELSE HeapPage
  IN /\ at[p].step = "pages"
     /\ h.dirty # {}
     /\ disk' = [disk EXCEPT ![h.inode].pages = Later(@, page + 1),
                             ![h.inode].catalog = IF page = SchemaPage THEN h.catalog ELSE @]
     /\ handle' = [Written(p) EXCEPT ![p][f].dirty = @ \ {page}]
     /\ UNCHANGED <<dir, at, sessions, committed, overlap>>

\* Where a process goes when its file is closed: the REPL returns to main.
Closed(p) ==
  IF at[p].file = "test.db" THEN Down ELSE [at[p] EXCEPT !.file = "test.db", !.step = "pages"]

\* The loop over the cached pages has ended.
PagesSkipped(p) == at[p].step = "pages"

PagesWritten(p) == at[p].step = "pages" /\ Mine(p).dirty = {}

\* The header, whether it changed or not.
CloseHeader(p) ==
  LET f == at[p].file
      i == Mine(p).inode
  IN /\ PagesWritten(p)
     /\ disk' = [disk EXCEPT ![i].header = Mine(p).header]
     /\ handle' = [Written(p) EXCEPT ![p][f] = NoHandle]
     /\ committed' = [g \in Files |-> IF dir[g] = i THEN committed[g] \cup Holds(disk'[i]) ELSE committed[g]]
     /\ at' = [at EXCEPT ![p] = Closed(p)]
     /\ UNCHANGED <<dir, sessions, overlap>>

\* Ctrl+C in the REPL, SIGTERM, exit() in safe_malloc, a fault.
Killed(p) ==
  /\ at[p].step # "down"
  /\ at' = [at EXCEPT ![p] = Down]
  /\ handle' = [handle EXCEPT ![p] = [f \in Files |-> NoHandle]]
  /\ UNCHANGED <<dir, disk, sessions, committed, overlap>>

\* make clean, with which run.sh begins.
MakeClean ==
  /\ dir["nyotadb.db"] # 0
  /\ dir' = [dir EXCEPT !["nyotadb.db"] = 0]
  /\ committed' = [committed EXCEPT !["nyotadb.db"] = {}]
  /\ UNCHANGED <<disk, at, handle, sessions, overlap>>

Step(p) ==
  \/ Start(p) \/ StartRepl(p) \/ WriteNewHeader(p)
  \/ Look(p) \/ (\E name \in Names : CreateTable(p, name)) \/ Insert(p)
  \/ BeginClose(p) \/ ClosePage(p) \/ CloseHeader(p)

Next == (\E p \in Procs : Step(p) \/ Killed(p)) \/ MakeClean

Spec == Init /\ [][Next]_vars

-----------------------------------------------------------------------------

\* The header of a file never speaks of a page that is not in it, though
\* processes die between the writes of their pages and of the header, and
\* another one writes an older header back (storage.c:110-125): no fetch that
\* follows a header fails.
HeaderCovered ==
  \A i \in Inodes : LET file == disk[i] IN
    /\ file.header.schema_page # 0 => file.pages > SchemaPage
    /\ file.header.root_page # 0 => file.pages > file.header.root_page /\ file.header.root_page = HeapPage

\* What a close left in a file stays there, through any sequence of sessions,
\* of REPLs and web servers, of which some are killed, as long as no two have
\* the file open at once.
SequentialSessionsKeep ==
  \A f \in Files : dir[f] # 0 /\ dir[f] \notin overlap => committed[f] \subseteq Holds(disk[dir[f]])

\* What a step takes out of a file.
Lost(f) ==
  IF dir[f] = 0 \/ dir'[f] # dir[f] THEN {}
  ELSE Holds(disk[dir[f]]) \ Holds(disk'[dir[f]])

\* With several at once, a table or the rows are only lost to a process that
\* opened the file before another one wrote to it, and writes to it after (main.c:7
\* has every REPL do so to test.db).
OnlyStaleLoses ==
  [][\A p \in Procs : \A f \in Files : Step(p) /\ Lost(f) # {} => handle[p][f].stale]_vars

=============================================================================
