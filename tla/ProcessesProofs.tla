-------------------------- MODULE ProcessesProofs --------------------------
(***************************************************************************)
(* Theorems about processes that share the database files, for any number  *)
(* of processes, table names, files created and programs started.          *)
(***************************************************************************)
EXTENDS Processes, SequenceLemmas

-----------------------------------------------------------------------------
(* The inductive invariant.                                                *)

\* The headers a file goes through: page 0 only, then the catalog, then the heap.
TableHeader == [page_count |-> 2, root_page |-> 0, schema_page |-> SchemaPage]
RowsHeader == [page_count |-> 3, root_page |-> HeapPage, schema_page |-> SchemaPage]
Headers == {NoHeader, NewHeader, TableHeader, RowsHeader}

FileType == [header : Headers, pages : Nat, catalog : Seq(Names)]
HandleType == [inode : 0 .. MaxInodes, header : Headers, cached : BOOLEAN,
               catalog : Seq(Names), dirty : SUBSET {SchemaPage, HeapPage}, stale : BOOLEAN]
PlaceType == [step : {"down", "open", "blank", "working", "pages"}, file : Files, web : BOOLEAN]

Types ==
  /\ dir \in [Files -> 0 .. MaxInodes]
  /\ disk \in [Inodes -> FileType]
  /\ at \in [Procs -> PlaceType]
  /\ handle \in [Procs -> [Files -> HandleType]]
  /\ committed \in [Files -> SUBSET (Names \cup {"rows"})]
  /\ overlap \subseteq Inodes

\* Whoever has a place in a file has it open, and past the first moment its
\* header is not empty; a REPL keeps test.db open under its own.
Placed(p) ==
  /\ at[p].step \in {"blank", "working", "pages"} => Mine(p).inode # 0
  /\ at[p].step = "blank" => Mine(p).header = NoHeader
  /\ at[p].step \in {"working", "pages"} => Mine(p).header # NoHeader
  /\ at[p].step = "open" => at[p].file = "nyotadb.db"
  /\ at[p].file = "nyotadb.db" => /\ handle[p]["test.db"].inode # 0
                                  /\ handle[p]["test.db"].header # NoHeader

PlaceInv == \A p \in Procs : Placed(p)

\* The tables and rows that a StorageManager's header speaks of are in the
\* file, or will be written before that header is.
Covers(h, file) ==
  /\ h.header.schema_page # 0 => file.pages > SchemaPage \/ SchemaPage \in h.dirty
  /\ h.header.root_page # 0 => file.pages > HeapPage \/ HeapPage \in h.dirty
  /\ SchemaPage \in h.dirty => h.cached

CoverInv ==
  \A p \in Procs : \A f \in Files :
    handle[p][f].inode # 0 => Covers(handle[p][f], disk[handle[p][f].inode])

\* An inode has one name, the two files never share one.
NameInv ==
  \A f, g \in Files : f # g =>
    /\ dir[f] # 0 => dir[f] # dir[g]
    /\ \A p \in Procs :
         handle[p][f].inode # 0 =>
           /\ handle[p][f].inode # dir[g]
           /\ \A q \in Procs : handle[p][f].inode # handle[q][g].inode

\* Two who have an inode open are on record, and so is everyone who is stale.
OverlapInv ==
  \A p \in Procs : \A f \in Files : LET i == handle[p][f].inode IN
    i # 0 =>
      /\ handle[p][f].stale => i \in overlap
      /\ \A q \in Procs \ {p} : handle[q][f].inode = i => i \in overlap

\* Until another process writes to the file, a process knows all of it.
Ahead(h, file) ==
  /\ file.header.schema_page # 0 => h.header.schema_page # 0
  /\ file.header.root_page # 0 => h.header.root_page # 0
  /\ file.header.schema_page # 0 /\ h.cached => ToSet(file.catalog) \subseteq ToSet(h.catalog)

AheadInv ==
  \A p \in Procs : \A f \in Files :
    handle[p][f].inode # 0 /\ ~handle[p][f].stale => Ahead(handle[p][f], disk[handle[p][f].inode])

\* What was committed is there, and to a file that is gone nothing is owed.
CommitInv ==
  /\ SequentialSessionsKeep
  /\ \A f \in Files : dir[f] = 0 => committed[f] = {}

ProcessesInv ==
  Types /\ HeaderCovered /\ PlaceInv /\ CoverInv /\ NameInv /\ OverlapInv /\ AheadInv /\ CommitInv

-----------------------------------------------------------------------------
(* Files and StorageManagers.                                              *)

\* A header that knows the heap knows the catalog, and only an empty file has
\* no page 0.
LEMMA HeaderStages ==
  /\ NoHeader \in Headers /\ NewHeader \in Headers
  /\ TableHeader \in Headers /\ RowsHeader \in Headers
  /\ NoHeader.schema_page = 0 /\ NoHeader.root_page = 0
  /\ NewHeader.schema_page = 0 /\ NewHeader.root_page = 0
  /\ NewHeader # NoHeader
  /\ \A h \in Headers : h.root_page # 0 => h.schema_page # 0 /\ h.root_page = HeapPage
  /\ \A h \in Headers : h.schema_page = 0 => h = NoHeader \/ h = NewHeader
  /\ \A h \in Headers : h.schema_page # 0 => h = TableHeader \/ h = RowsHeader
BY DEF Headers, NoHeader, NewHeader, TableHeader, RowsHeader, SchemaPage, HeapPage

\* No StorageManager is one, and an empty file is a file.
LEMMA Nothing ==
  /\ NoHandle \in HandleType /\ NoHandle.inode = 0
  /\ EmptyFile \in FileType /\ EmptyFile.header = NoHeader
  /\ Holds(EmptyFile) = {}
  /\ Down \in PlaceType /\ Down.step = "down" /\ Down.file = "test.db"
<1>1. <<>> \in Seq(Names) /\ 0 \in 0 .. MaxInodes
  BY EmptySeq, ProcessesAssumption
<1>2. NoHandle \in HandleType /\ NoHandle.inode = 0
  BY <1>1, HeaderStages DEF NoHandle, HandleType
<1>3. EmptyFile \in FileType /\ EmptyFile.header = NoHeader
  BY <1>1, HeaderStages DEF EmptyFile, FileType
<1>4. Holds(EmptyFile) = {}
  BY <1>3, HeaderStages DEF Holds
<1> QED BY <1>2, <1>3, <1>4 DEF Down, PlaceType, Files

\* What a file holds is tables, or the rows.
LEMMA HoldsTables ==
  ASSUME NEW file \in FileType
  PROVE  Holds(file) \subseteq Names \cup {"rows"}
<1>1. ToSet(file.catalog) \subseteq Names
  BY InSequence DEF FileType
<1> QED BY <1>1 DEF Holds

\* A write of p leaves all StorageManagers as they are, but marks the others
\* of its file stale.
LEMMA WrittenMarks ==
  ASSUME Types, NEW p \in Procs
  PROVE  /\ Written(p) \in [Procs -> [Files -> HandleType]]
         /\ \A q \in Procs : \A g \in Files :
              LET k == handle[q][g]
                  w == Written(p)[q][g]
              IN /\ w.inode = k.inode /\ w.header = k.header /\ w.cached = k.cached
                 /\ w.catalog = k.catalog /\ w.dirty = k.dirty
                 /\ q = p => w = k
                 /\ w.stale <=> k.stale \/ (q # p /\ k.inode = Mine(p).inode)
<1>1. ASSUME NEW q \in Procs, NEW g \in Files
      PROVE  LET k == handle[q][g]
                 w == Written(p)[q][g]
             IN /\ w \in HandleType
                /\ w.inode = k.inode /\ w.header = k.header /\ w.cached = k.cached
                /\ w.catalog = k.catalog /\ w.dirty = k.dirty
                /\ q = p => w = k
                /\ w.stale <=> k.stale \/ (q # p /\ k.inode = Mine(p).inode)
  <2> DEFINE k == handle[q][g]
             w == Written(p)[q][g]
  <2>1. k \in HandleType
    BY DEF Types
  <2>2. w = IF q # p /\ k.inode = Mine(p).inode THEN [k EXCEPT !.stale = TRUE] ELSE k
    BY DEF Written
  <2> HIDE DEF k, w
  <2>3. CASE q # p /\ k.inode = Mine(p).inode
    <3>1. w = [k EXCEPT !.stale = TRUE]
      BY <2>2, <2>3
    <3>2. w \in HandleType /\ w.inode = k.inode /\ w.header = k.header /\ w.cached = k.cached
          /\ w.catalog = k.catalog /\ w.dirty = k.dirty /\ w.stale = TRUE
      BY <2>1, <3>1 DEF HandleType
    <3> QED BY <2>3, <3>2 DEF k, w
  <2>4. CASE ~(q # p /\ k.inode = Mine(p).inode)
    BY <2>1, <2>2, <2>4 DEF k, w
  <2> QED BY <2>3, <2>4
<1>2. Written(p) \in [Procs -> [Files -> HandleType]]
  BY <1>1 DEF Written
<1> QED BY <1>1, <1>2

\* Before the first step: what earlier sessions left.
LEMMA InitProcessesInv == Init => ProcessesInv
<1> SUFFICES ASSUME Init PROVE ProcessesInv
  OBVIOUS
<1>1. PICK t, n \in Left :
        /\ t = EmptyFile => n = EmptyFile
        /\ dir = [f \in Files |-> IF f = "test.db" THEN IF t = EmptyFile THEN 0 ELSE 1
                                  ELSE IF n = EmptyFile THEN 0 ELSE 2]
        /\ disk = [i \in Inodes |-> CASE i = 1 -> t [] i = 2 -> n [] OTHER -> EmptyFile]
        /\ committed = [f \in Files |-> IF f = "test.db" THEN Holds(t) ELSE Holds(n)]
  BY DEF Init
<1>2. /\ at = [p \in Procs |-> Down] /\ handle = [p \in Procs |-> [f \in Files |-> NoHandle]]
      /\ overlap = {}
  BY DEF Init
<1>3. ASSUME NEW file \in Left
      PROVE  /\ file \in FileType
             /\ file.header.schema_page # 0 => file.pages > SchemaPage
             /\ file.header.root_page # 0 => file.pages > file.header.root_page
                                             /\ file.header.root_page = HeapPage
  <2>1. CASE file = EmptyFile
    BY <2>1, Nothing, HeaderStages
  <2>2. ASSUME NEW rows \in {0, 1}, NEW name \in Names,
               file = [header |-> [page_count |-> HeapPage + rows,
                                   root_page |-> rows * HeapPage,
                                   schema_page |-> SchemaPage],
                       pages |-> HeapPage + rows,
                       catalog |-> <<name>>]
        PROVE  /\ file \in FileType
               /\ file.header.schema_page # 0 => file.pages > SchemaPage
               /\ file.header.root_page # 0 => file.pages > file.header.root_page
                                               /\ file.header.root_page = HeapPage
    <3>1. <<name>> \in Seq(Names)
      OBVIOUS
    <3>2. file.header \in Headers /\ file.pages \in Nat
      BY <2>2 DEF Headers, TableHeader, RowsHeader, SchemaPage, HeapPage
    <3> QED BY <2>2, <3>1, <3>2 DEF FileType, SchemaPage, HeapPage
  <2> QED BY <2>1, <2>2 DEF Left
<1>4. 1 \in Inodes /\ 2 \in Inodes /\ 0 \notin Inodes
  BY ProcessesAssumption DEF Inodes
<1>5. \A i \in Inodes : disk[i] \in Left
  BY <1>1 DEF Left
<1>6. Types
  <2>1. dir \in [Files -> 0 .. MaxInodes]
    BY <1>1, ProcessesAssumption DEF Files
  <2>2. disk \in [Inodes -> FileType]
    BY <1>1, <1>3, <1>5
  <2>3. committed \in [Files -> SUBSET (Names \cup {"rows"})]
    BY <1>1, <1>3, HoldsTables
  <2> QED BY <1>2, <2>1, <2>2, <2>3, Nothing DEF Types
<1>7. HeaderCovered
  BY <1>3, <1>5 DEF HeaderCovered
<1>8. PlaceInv /\ CoverInv /\ OverlapInv /\ AheadInv
  BY <1>2, Nothing, Zenon DEF PlaceInv, Placed, CoverInv, OverlapInv, AheadInv, Mine, Down
<1>9. NameInv
  <2>1. \A f, g \in Files : f # g => (dir[f] # 0 => dir[f] # dir[g])
    BY <1>1 DEF Files
  <2>2. \A p \in Procs : \A f \in Files : handle[p][f].inode = 0
    BY <1>2, Nothing
  <2> QED BY <2>1, <2>2 DEF NameInv
<1>10. CommitInv
  <2>1. \A f \in Files : dir[f] = 0 => committed[f] = {}
    BY <1>1, Nothing DEF Files
  <2>2. \A f \in Files : dir[f] # 0 => committed[f] = Holds(disk[dir[f]])
    BY <1>1, <1>4 DEF Files
  <2> QED BY <2>1, <2>2 DEF CommitInv, SequentialSessionsKeep
<1> QED BY <1>6, <1>7, <1>8, <1>9, <1>10 DEF ProcessesInv

-----------------------------------------------------------------------------
(* Each step keeps the invariant.                                          *)

\* sm_open of an inode that has the name already, or is made for it.
Opens(p, f, web, i) ==
  /\ i # 0
  /\ dir[f] # 0 => i = dir[f]
  /\ dir[f] = 0 => i \in Unused
  /\ dir' = [dir EXCEPT ![f] = i]
  /\ handle' = [handle EXCEPT ![p][f] = [NoHandle EXCEPT !.inode = i, !.header = disk[i].header]]
  /\ at' = [at EXCEPT ![p] = IF IsNew(i) THEN [step |-> "blank", file |-> f, web |-> web]
                             ELSE Opened(f, web)]
  /\ overlap' = IF Users(i) # {} THEN overlap \cup {i} ELSE overlap
  /\ UNCHANGED <<disk, committed>>

\* sm_open: the file that p finds, or makes.
LEMMA OpenFinds ==
  ASSUME ProcessesInv, NEW p \in Procs, NEW f \in Files, NEW web \in BOOLEAN, SmOpen(p, f, web)
  PROVE  \E i \in Inodes : Opens(p, f, web, i)
<1> DEFINE i == IF dir[f] = 0 THEN CHOOSE n \in Unused : TRUE ELSE dir[f]
<1>1. dir[f] = 0 => i \in Unused
  BY DEF SmOpen
<1>2. dir[f] # 0 => i = dir[f]
  OBVIOUS
<1>3. i \in Inodes /\ i # 0
  BY <1>1, <1>2, ProcessesAssumption DEF ProcessesInv, Types, Unused, Inodes
<1>4. /\ dir' = [dir EXCEPT ![f] = i]
      /\ handle' = [handle EXCEPT ![p][f] = [NoHandle EXCEPT !.inode = i, !.header = disk[i].header]]
      /\ at' = [at EXCEPT ![p] = IF IsNew(i) THEN [step |-> "blank", file |-> f, web |-> web]
                                 ELSE Opened(f, web)]
      /\ overlap' = IF Users(i) # {} THEN overlap \cup {i} ELSE overlap
      /\ UNCHANGED <<disk, committed>>
  BY DEF SmOpen
<1>5. Opens(p, f, web, i)
  BY <1>1, <1>2, <1>3, <1>4, Zenon DEF Opens
<1> HIDE DEF i
<1> QED BY <1>3, <1>5

\* main opens test.db, and the REPL, with test.db open, nyotadb.db.
LEMMA OpenKeepsInv ==
  ASSUME ProcessesInv, NEW p \in Procs, NEW f \in Files, NEW web \in BOOLEAN, SmOpen(p, f, web),
         f = "test.db" \/ (at[p].file = "nyotadb.db" /\ ~web)
  PROVE  ProcessesInv'
<1>0. PICK i \in Inodes : Opens(p, f, web, i)
  BY OpenFinds
<1>1. /\ i # 0
      /\ dir[f] # 0 => i = dir[f]
      /\ dir[f] = 0 => i \in Unused
      /\ dir' = [dir EXCEPT ![f] = i]
      /\ handle' = [handle EXCEPT ![p][f] = [NoHandle EXCEPT !.inode = i, !.header = disk[i].header]]
      /\ at' = [at EXCEPT ![p] = IF IsNew(i) THEN [step |-> "blank", file |-> f, web |-> web]
                                 ELSE Opened(f, web)]
      /\ overlap' = IF Users(i) # {} THEN overlap \cup {i} ELSE overlap
      /\ UNCHANGED <<disk, committed>>
  BY <1>0 DEF Opens
<1> DEFINE new == [NoHandle EXCEPT !.inode = i, !.header = disk[i].header]
<1>2. /\ new \in HandleType /\ new.inode = i /\ new.header = disk[i].header
      /\ new.dirty = {} /\ ~new.cached /\ ~new.stale /\ i \in 0 .. MaxInodes
  <2>1. i \in 0 .. MaxInodes /\ disk[i].header \in Headers
    BY ProcessesAssumption DEF ProcessesInv, Types, FileType, Inodes
  <2> QED BY <2>1, Nothing DEF NoHandle, HandleType
<1>3. Types
  BY DEF ProcessesInv
<1> HIDE DEF new
<1>4. /\ handle' \in [Procs -> [Files -> HandleType]]
      /\ handle'[p][f] = new
      /\ \A q \in Procs : \A g \in Files : q # p \/ g # f => handle'[q][g] = handle[q][g]
  BY <1>1, <1>2, <1>3 DEF Types, new
<1>5. /\ dir' \in [Files -> 0 .. MaxInodes]
      /\ dir'[f] = i /\ \A g \in Files : g # f => dir'[g] = dir[g]
  BY <1>1, <1>2, <1>3 DEF Types
<1>6. /\ at' \in [Procs -> PlaceType]
      /\ \A q \in Procs : q # p => at'[q] = at[q]
      /\ IsNew(i) => at'[p] = [step |-> "blank", file |-> f, web |-> web]
      /\ ~IsNew(i) => at'[p] = Opened(f, web)
  <2>1. Opened(f, web) \in PlaceType
    BY DEF Opened, PlaceType, Files
  <2>2. [step |-> "blank", file |-> f, web |-> web] \in PlaceType
    BY DEF PlaceType
  <2> QED BY <1>1, <1>3, <2>1, <2>2 DEF Types
<1>7. Types'
  BY <1>1, <1>3, <1>4, <1>5, <1>6 DEF Types
<1>8. HeaderCovered'
  BY <1>1 DEF ProcessesInv, HeaderCovered
<1>9. PlaceInv'
  <2> SUFFICES ASSUME NEW q \in Procs
      PROVE  /\ at'[q].step \in {"blank", "working", "pages"} => handle'[q][at'[q].file].inode # 0
             /\ at'[q].step = "blank" => handle'[q][at'[q].file].header = NoHeader
             /\ at'[q].step \in {"working", "pages"} => handle'[q][at'[q].file].header # NoHeader
             /\ at'[q].step = "open" => at'[q].file = "nyotadb.db"
             /\ at'[q].file = "nyotadb.db" => /\ handle'[q]["test.db"].inode # 0
                                              /\ handle'[q]["test.db"].header # NoHeader
    BY DEF PlaceInv, Placed, Mine
  <2>1. CASE q # p
    <3>1. at'[q] = at[q] /\ \A g \in Files : handle'[q][g] = handle[q][g]
      BY <1>4, <1>6, <2>1
    <3>2. at[q].file \in Files /\ "test.db" \in Files
      BY <1>3 DEF Types, PlaceType, Files
    <3> QED BY <3>1, <3>2 DEF ProcessesInv, PlaceInv, Placed, Mine
  <2>2. CASE q = p /\ IsNew(i)
    <3>1. at'[p] = [step |-> "blank", file |-> f, web |-> web] /\ disk[i].header = NoHeader
      BY <1>6, <2>2 DEF IsNew
    <3>2. f = "nyotadb.db" => /\ handle'[p]["test.db"].inode # 0
                              /\ handle'[p]["test.db"].header # NoHeader
      BY <1>4 DEF ProcessesInv, PlaceInv, Placed, Files
    <3> QED BY <1>1, <1>2, <1>4, <2>2, <3>1, <3>2
  <2>3. CASE q = p /\ ~IsNew(i)
    <3>1. at'[p] = Opened(f, web) /\ disk[i].header # NoHeader
      BY <1>6, <2>3 DEF IsNew
    <3>2. f = "nyotadb.db" => /\ handle'[p]["test.db"].inode # 0
                              /\ handle'[p]["test.db"].header # NoHeader
      BY <1>4 DEF ProcessesInv, PlaceInv, Placed, Files
    <3>3. f = "nyotadb.db" \/ f = "test.db"
      BY DEF Files
    <3> QED BY <1>1, <1>2, <1>4, <2>3, <3>1, <3>2, <3>3 DEF Opened
  <2> QED BY <2>1, <2>2, <2>3
<1>10. CoverInv'
  <2> SUFFICES ASSUME NEW q \in Procs, NEW g \in Files, handle'[q][g].inode # 0
      PROVE  Covers(handle'[q][g], disk[handle'[q][g].inode])
    BY <1>1 DEF CoverInv
  <2>1. CASE q = p /\ g = f
    BY <1>2, <1>4, <2>1 DEF ProcessesInv, HeaderCovered, Covers
  <2>2. CASE q # p \/ g # f
    BY <1>4, <2>2 DEF ProcessesInv, CoverInv
  <2> QED BY <2>1, <2>2
<1>11. \A g \in Files : g # f => i # dir[g] /\ \A q \in Procs : handle[q][g].inode # i
  <2>1. CASE dir[f] # 0
    BY <1>1, <2>1 DEF ProcessesInv, NameInv
  <2>2. CASE dir[f] = 0
    BY <1>1, <2>2 DEF Unused, Users
  <2> QED BY <2>1, <2>2
<1>12. NameInv'
  BY <1>2, <1>4, <1>5, <1>11 DEF ProcessesInv, NameInv
<1>13. OverlapInv'
  <2>1. overlap \subseteq overlap'
    BY <1>1
  <2>2. \A q \in Procs : handle[q][f].inode = i => i \in overlap'
    BY <1>1 DEF Users
  <2> SUFFICES ASSUME NEW q \in Procs, NEW g \in Files, handle'[q][g].inode # 0
      PROVE  /\ handle'[q][g].stale => handle'[q][g].inode \in overlap'
             /\ \A r \in Procs \ {q} :
                  handle'[r][g].inode = handle'[q][g].inode => handle'[q][g].inode \in overlap'
    BY DEF OverlapInv
  <2>3. CASE q = p /\ g = f
    BY <1>2, <1>4, <2>2, <2>3
  <2>4. CASE q # p \/ g # f
    <3>1. handle'[q][g] = handle[q][g]
      BY <1>4, <2>4
    <3>2. handle[q][g].stale => handle[q][g].inode \in overlap'
      BY <2>1, <3>1 DEF ProcessesInv, OverlapInv
    <3>3. ASSUME NEW r \in Procs \ {q}, handle'[r][g].inode = handle[q][g].inode
          PROVE  handle[q][g].inode \in overlap'
      <4>1. CASE r = p /\ g = f
        BY <1>2, <1>4, <2>2, <3>3, <4>1
      <4>2. CASE r # p \/ g # f
        BY <1>4, <2>1, <3>1, <3>3, <4>2 DEF ProcessesInv, OverlapInv
      <4> QED BY <4>1, <4>2
    <3> QED BY <3>1, <3>2, <3>3
  <2> QED BY <2>3, <2>4
<1>14. AheadInv'
  <2> SUFFICES ASSUME NEW q \in Procs, NEW g \in Files, handle'[q][g].inode # 0, ~handle'[q][g].stale
      PROVE  Ahead(handle'[q][g], disk[handle'[q][g].inode])
    BY <1>1 DEF AheadInv
  <2>1. CASE q = p /\ g = f
    BY <1>2, <1>4, <2>1 DEF Ahead
  <2>2. CASE q # p \/ g # f
    BY <1>4, <2>2 DEF ProcessesInv, AheadInv
  <2> QED BY <2>1, <2>2
<1>15. CommitInv'
  <2>1. ASSUME NEW g \in Files, dir'[g] \notin overlap'
        PROVE  committed[g] \subseteq Holds(disk[dir'[g]])
    <3>1. CASE dir[g] # 0
      <4>1. dir'[g] = dir[g]
        BY <1>1, <1>5, <3>1
      <4> QED BY <1>1, <2>1, <3>1, <4>1 DEF ProcessesInv, CommitInv, SequentialSessionsKeep
    <3>2. CASE dir[g] = 0
      BY <3>2 DEF ProcessesInv, CommitInv
    <3> QED BY <3>1, <3>2
  <2>2. ASSUME NEW g \in Files, dir'[g] = 0 PROVE committed[g] = {}
    BY <1>1, <1>5, <2>2 DEF ProcessesInv, CommitInv
  <2> QED BY <1>1, <2>1, <2>2 DEF CommitInv, SequentialSessionsKeep, Holds
<1> QED BY <1>7, <1>8, <1>9, <1>10, <1>12, <1>13, <1>14, <1>15 DEF ProcessesInv

-----------------------------------------------------------------------------
(* Statements.                                                             *)

\* Files whose headers and catalogs stay, and which may have more pages.
Grown ==
  /\ disk' \in [Inodes -> FileType]
  /\ \A i \in Inodes : /\ disk'[i].header = disk[i].header /\ disk'[i].catalog = disk[i].catalog
                       /\ disk'[i].pages >= disk[i].pages

\* What a new page leaves of a file.
LEMMA PageAdded ==
  ASSUME Types, NEW i \in Inodes, NEW n \in Nat,
         disk' = [disk EXCEPT ![i].pages = Later(@, n)]
  PROVE  Grown
<1>1. Later(disk[i].pages, n) \in Nat /\ Later(disk[i].pages, n) >= disk[i].pages
  BY DEF Types, FileType, Later
<1>2. [disk[i] EXCEPT !.pages = Later(disk[i].pages, n)] \in FileType
  BY <1>1 DEF Types, FileType
<1>3. disk' = [disk EXCEPT ![i] = [disk[i] EXCEPT !.pages = Later(disk[i].pages, n)]]
  OBVIOUS
<1>4. disk' \in [Inodes -> FileType]
  BY <1>2, <1>3 DEF Types
<1>5. /\ disk'[i].header = disk[i].header /\ disk'[i].catalog = disk[i].catalog
      /\ disk'[i].pages = Later(disk[i].pages, n)
  BY <1>3 DEF Types, FileType
<1>6. \A j \in Inodes : j # i => disk'[j] = disk[j]
  BY <1>3 DEF Types
<1>7. \A j \in Inodes : disk[j].pages \in Nat
  BY DEF Types, FileType
<1> QED BY <1>1, <1>4, <1>5, <1>6, <1>7 DEF Grown

\* p's StorageManager becomes h1, which knows what the one before knew.
States(p, h1) ==
  /\ h1 \in HandleType
  /\ handle' = [handle EXCEPT ![p][at[p].file] = h1]
  /\ h1.inode = Mine(p).inode /\ h1.stale = Mine(p).stale /\ h1.header # NoHeader
  /\ Grown
  /\ Covers(h1, disk'[Mine(p).inode])
  /\ Mine(p).header.schema_page # 0 => h1.header.schema_page # 0
  /\ Mine(p).header.root_page # 0 => h1.header.root_page # 0
  /\ Mine(p).header.schema_page # 0 /\ h1.cached => ToSet(Catalog(p)) \subseteq ToSet(h1.catalog)
  /\ UNCHANGED <<dir, at, committed, overlap>>

\* A statement keeps the invariant.
LEMMA StatementKeepsInv ==
  ASSUME ProcessesInv, NEW p \in Procs, Working(p), NEW h1, States(p, h1)
  PROVE  ProcessesInv'
<1> DEFINE f == at[p].file
           i == Mine(p).inode
<1>1. Types /\ f \in Files /\ i \in Inodes /\ i # 0 /\ h1.inode = i /\ handle[p][f].inode = i
  <2>1. Types /\ f \in Files
    BY DEF ProcessesInv, Types, PlaceType
  <2>2. i # 0 /\ handle[p][f].inode = i /\ h1.inode = i
    BY DEF ProcessesInv, PlaceInv, Placed, Working, States, Mine
  <2>3. i \in 0 .. MaxInodes
    BY <2>1 DEF Types, HandleType, Mine
  <2> QED BY <2>1, <2>2, <2>3, ProcessesAssumption DEF Inodes
<1>2. /\ h1 \in HandleType /\ handle' = [handle EXCEPT ![p][f] = h1]
      /\ h1.stale = handle[p][f].stale /\ h1.header # NoHeader /\ Grown /\ Covers(h1, disk'[i])
      /\ dir' = dir /\ at' = at /\ committed' = committed /\ overlap' = overlap
  BY DEF States, Mine
<1>3. /\ handle[p][f].header.schema_page # 0 => h1.header.schema_page # 0
      /\ handle[p][f].header.root_page # 0 => h1.header.root_page # 0
      /\ handle[p][f].header.schema_page # 0 /\ h1.cached => ToSet(Catalog(p)) \subseteq ToSet(h1.catalog)
  BY DEF States, Mine
<1>4. Catalog(p) = IF handle[p][f].cached THEN handle[p][f].catalog ELSE disk[i].catalog
  BY DEF Catalog, Mine, MyFile
<1> HIDE DEF f, i
<1>5. /\ handle' \in [Procs -> [Files -> HandleType]]
      /\ handle'[p][f] = h1
      /\ \A q \in Procs : \A g \in Files : q # p \/ g # f => handle'[q][g] = handle[q][g]
      /\ \A q \in Procs : \A g \in Files : /\ handle'[q][g].inode = handle[q][g].inode
                                           /\ handle'[q][g].stale = handle[q][g].stale
  BY <1>1, <1>2 DEF Types
<1>6. /\ disk' \in [Inodes -> FileType]
      /\ \A j \in Inodes : /\ disk'[j].header = disk[j].header /\ disk'[j].catalog = disk[j].catalog
                           /\ disk'[j].pages >= disk[j].pages
                           /\ disk[j].pages \in Nat /\ disk'[j].pages \in Nat
                           /\ Holds(disk'[j]) = Holds(disk[j])
                           /\ disk[j].header \in Headers
  BY <1>1, <1>2 DEF Grown, Holds, Types, FileType
<1>7. \A q \in Procs : \A g \in Files :
        handle[q][g].inode # 0 => handle[q][g].inode \in Inodes
  BY <1>1, ProcessesAssumption DEF Types, HandleType, Inodes
<1>8. Types'
  BY <1>1, <1>2, <1>5, <1>6 DEF Types
<1>9. HeaderCovered'
  <2> SUFFICES ASSUME NEW j \in Inodes
      PROVE  /\ disk'[j].header.schema_page # 0 => disk'[j].pages > SchemaPage
             /\ disk'[j].header.root_page # 0 => disk'[j].pages > disk'[j].header.root_page
                                                 /\ disk'[j].header.root_page = HeapPage
    BY DEF HeaderCovered
  <2>1. /\ disk[j].header.schema_page # 0 => disk[j].pages > SchemaPage
        /\ disk[j].header.root_page # 0 => disk[j].pages > disk[j].header.root_page
                                           /\ disk[j].header.root_page = HeapPage
    BY DEF ProcessesInv, HeaderCovered
  <2> QED BY <1>6, <2>1 DEF SchemaPage, HeapPage
<1>10. PlaceInv'
  <2> SUFFICES ASSUME NEW q \in Procs PROVE Placed(q)'
    BY DEF PlaceInv
  <2>1. Placed(q) /\ at[q].file \in Files /\ "test.db" \in Files
    BY <1>1 DEF ProcessesInv, PlaceInv, Types, PlaceType, Files
  <2>2. at'[q] = at[q]
    BY <1>2
  <2>3. \A g \in Files : /\ handle'[q][g].inode = handle[q][g].inode
                         /\ handle[q][g].header # NoHeader => handle'[q][g].header # NoHeader
    BY <1>2, <1>5
  <2>4. at[q].step = "blank" => handle'[q][at[q].file].header = NoHeader
    <3>1. CASE q = p
      BY <3>1 DEF Working
    <3>2. CASE q # p
      BY <1>5, <2>1, <3>2 DEF Placed, Mine
    <3> QED BY <3>1, <3>2
  <2> QED BY <2>1, <2>2, <2>3, <2>4 DEF Placed, Mine
<1>11. CoverInv'
  <2> SUFFICES ASSUME NEW q \in Procs, NEW g \in Files, handle'[q][g].inode # 0
      PROVE  Covers(handle'[q][g], disk'[handle'[q][g].inode])
    BY DEF CoverInv
  <2>1. CASE q = p /\ g = f
    BY <1>1, <1>2, <1>5, <2>1
  <2>2. CASE q # p \/ g # f
    <3>1. handle'[q][g] = handle[q][g] /\ handle[q][g].inode \in Inodes
          /\ Covers(handle[q][g], disk[handle[q][g].inode])
      BY <1>5, <1>7, <2>2 DEF ProcessesInv, CoverInv
    <3> QED BY <1>6, <3>1 DEF Covers, SchemaPage, HeapPage
  <2> QED BY <2>1, <2>2
<1>12. NameInv'
  BY <1>2, <1>5 DEF ProcessesInv, NameInv
<1>13. OverlapInv'
  BY <1>2, <1>5 DEF ProcessesInv, OverlapInv
<1>14. AheadInv'
  <2> SUFFICES ASSUME NEW q \in Procs, NEW g \in Files, handle'[q][g].inode # 0, ~handle'[q][g].stale
      PROVE  Ahead(handle'[q][g], disk'[handle'[q][g].inode])
    BY DEF AheadInv
  <2>1. handle[q][g].inode \in Inodes /\ handle'[q][g].inode = handle[q][g].inode
        /\ Ahead(handle[q][g], disk[handle[q][g].inode])
    BY <1>5, <1>7 DEF ProcessesInv, AheadInv
  <2>2. CASE q = p /\ g = f
    <3>1. handle'[q][g] = h1 /\ h1.inode = i /\ handle[p][f].inode = i
      BY <1>1, <1>5, <2>2
    <3>2. Ahead(handle[p][f], disk[i])
      BY <2>1, <2>2, <3>1
    <3>3. disk'[i].header = disk[i].header /\ disk'[i].catalog = disk[i].catalog
      BY <1>1, <1>6
    <3>4. Ahead(h1, disk[i])
      <4>1. disk[i].header.schema_page # 0 => ToSet(disk[i].catalog) \subseteq ToSet(Catalog(p))
        BY <1>4, <3>2, Zenon DEF Ahead
      <4> QED BY <1>3, <3>2, <4>1, Zenon DEF Ahead
    <3>5. Ahead(h1, disk'[i])
      BY <3>3, <3>4, Zenon DEF Ahead
    <3> QED BY <3>1, <3>5
  <2>3. CASE q # p \/ g # f
    <3>1. handle'[q][g] = handle[q][g]
      BY <1>5, <2>3
    <3>2. /\ disk'[handle[q][g].inode].header = disk[handle[q][g].inode].header
          /\ disk'[handle[q][g].inode].catalog = disk[handle[q][g].inode].catalog
      BY <1>6, <2>1
    <3> QED BY <2>1, <3>1, <3>2, Zenon DEF Ahead
  <2> QED BY <2>2, <2>3
<1>15. CommitInv'
  <2>1. ASSUME NEW g \in Files, dir[g] # 0
        PROVE  Holds(disk'[dir[g]]) = Holds(disk[dir[g]])
    BY <1>1, <1>6, <2>1, ProcessesAssumption DEF Types, Inodes
  <2>2. \A g \in Files : dir[g] # 0 /\ dir[g] \notin overlap => committed[g] \subseteq Holds(disk'[dir[g]])
    BY <2>1 DEF ProcessesInv, CommitInv, SequentialSessionsKeep
  <2>3. SequentialSessionsKeep'
    BY <1>2, <2>2 DEF SequentialSessionsKeep, Holds
  <2> QED BY <1>2, <2>3 DEF ProcessesInv, CommitInv
<1> QED BY <1>8, <1>9, <1>10, <1>11, <1>12, <1>13, <1>14, <1>15 DEF ProcessesInv

\* What p works with when it executes a statement.
LEMMA AtWork ==
  ASSUME ProcessesInv, NEW p \in Procs, at[p].step \in {"blank", "working", "pages"}
  PROVE  /\ at[p].file \in Files /\ Mine(p) = handle[p][at[p].file] /\ Mine(p) \in HandleType
         /\ Mine(p).inode # 0 /\ Mine(p).inode \in Inodes /\ Covers(Mine(p), MyFile(p))
         /\ MyFile(p) \in FileType /\ Catalog(p) \in Seq(Names)
<1>1. at[p].file \in Files /\ Mine(p) = handle[p][at[p].file]
  BY DEF ProcessesInv, Types, PlaceType, Mine
<1>2. Mine(p) \in HandleType /\ Mine(p).inode # 0
  BY <1>1 DEF ProcessesInv, Types, PlaceInv, Placed
<1>3. Mine(p).inode \in Inodes
  BY <1>2, ProcessesAssumption DEF HandleType, Inodes
<1>4. MyFile(p) \in FileType /\ Covers(Mine(p), MyFile(p))
  BY <1>1, <1>2, <1>3 DEF ProcessesInv, Types, CoverInv, MyFile
<1>5. Catalog(p) \in Seq(Names)
  BY <1>2, <1>4 DEF Catalog, HandleType, FileType
<1> QED BY <1>1, <1>2, <1>3, <1>4, <1>5

\* Look only reads the catalog.
LEMMA LookStates ==
  ASSUME ProcessesInv, NEW p \in Procs, Look(p)
  PROVE  \E h1 : States(p, h1)
<1> DEFINE h == Mine(p)
           h1 == [h EXCEPT !.cached = TRUE, !.catalog = Catalog(p)]
<1>1. /\ at[p].file \in Files /\ h = handle[p][at[p].file] /\ h \in HandleType /\ h.inode \in Inodes
      /\ Covers(h, MyFile(p)) /\ Catalog(p) \in Seq(Names) /\ h.header # NoHeader
  BY AtWork DEF Look, Working, ProcessesInv, PlaceInv, Placed
<1>2. UNCHANGED <<dir, disk, at, committed, overlap>>
  BY DEF Look
<1>3. handle' = [handle EXCEPT ![p][at[p].file].cached = TRUE,
                               ![p][at[p].file].catalog = Catalog(p)]
  BY DEF Look
<1>4. handle \in [Procs -> [Files -> HandleType]]
  BY DEF ProcessesInv, Types
<1> HIDE DEF h
<1>5. /\ h1 \in HandleType /\ h1.inode = h.inode /\ h1.stale = h.stale /\ h1.header = h.header
      /\ h1.dirty = h.dirty /\ h1.cached /\ h1.catalog = Catalog(p)
  BY <1>1 DEF HandleType
<1>6. handle' = [handle EXCEPT ![p][at[p].file] = h1]
  BY <1>1, <1>3, <1>4 DEF HandleType
<1> HIDE DEF h1
<1>7. Grown
  BY <1>2 DEF Grown, ProcessesInv, Types, FileType
<1>8. Covers(h1, disk'[h.inode])
  BY <1>1, <1>2, <1>5 DEF Covers, MyFile, h
<1>9. States(p, h1)
  BY <1>1, <1>2, <1>5, <1>6, <1>7, <1>8 DEF States, h
<1> QED BY <1>9

\* Headers as what is in their fields, which tell them apart.
HeaderType == [page_count : Nat, root_page : Nat, schema_page : Nat]

\* The three headers a file can have, by their fields.
LEMMA HeaderFields ==
  /\ \A h, k \in HeaderType : h.page_count = k.page_count /\ h.root_page = k.root_page
                              /\ h.schema_page = k.schema_page => h = k
  /\ Headers \subseteq HeaderType
  /\ NewHeader.page_count = 1 /\ NewHeader.root_page = 0 /\ NewHeader.schema_page = 0
  /\ TableHeader.page_count = 2 /\ TableHeader.root_page = 0 /\ TableHeader.schema_page = 1
  /\ RowsHeader.page_count = 3 /\ RowsHeader.root_page = 2 /\ RowsHeader.schema_page = 1
<1>1. \A h, k \in HeaderType : h.page_count = k.page_count /\ h.root_page = k.root_page
                               /\ h.schema_page = k.schema_page => h = k
  BY DEF HeaderType
<1>2. NoHeader \in HeaderType /\ NewHeader \in HeaderType
      /\ TableHeader \in HeaderType /\ RowsHeader \in HeaderType
  BY DEF HeaderType, NoHeader, NewHeader, TableHeader, RowsHeader, SchemaPage, HeapPage
<1>3. /\ NewHeader.page_count = 1 /\ NewHeader.root_page = 0 /\ NewHeader.schema_page = 0
      /\ TableHeader.page_count = 2 /\ TableHeader.root_page = 0 /\ TableHeader.schema_page = 1
      /\ RowsHeader.page_count = 3 /\ RowsHeader.root_page = 2 /\ RowsHeader.schema_page = 1
  BY DEF NoHeader, NewHeader, TableHeader, RowsHeader, SchemaPage, HeapPage
<1> QED BY <1>1, <1>2, <1>3 DEF Headers

\* A table that is saved is added to those that are there.
LEMMA SavedAdds ==
  ASSUME NEW s \in Seq(Names), NEW name \in Names
  PROVE  Saved(s, name) \in Seq(Names) /\ ToSet(s) \subseteq ToSet(Saved(s, name))
BY AppendAdds, AppendProperties DEF Saved

\* CREATE TABLE adds a table to the catalog.
LEMMA CreateTableStates ==
  ASSUME ProcessesInv, NEW p \in Procs, NEW name \in Names, CreateTable(p, name)
  PROVE  \E h1 : States(p, h1)
<1> DEFINE h == Mine(p)
           grow == h.header.schema_page = 0 /\ h.header.page_count <= SchemaPage
           before == IF grow THEN <<>> ELSE Catalog(p)
           header == [h.header EXCEPT !.schema_page = SchemaPage,
                                      !.page_count = IF grow THEN @ + 1 ELSE @]
           h1 == [h EXCEPT !.header = header, !.cached = TRUE, !.catalog = Saved(before, name),
                           !.dirty = @ \cup {SchemaPage}]
<1>1. /\ at[p].file \in Files /\ h = handle[p][at[p].file] /\ h \in HandleType /\ h.inode \in Inodes
      /\ Covers(h, MyFile(p)) /\ Catalog(p) \in Seq(Names) /\ h.header # NoHeader
      /\ MyFile(p) \in FileType /\ h.header \in Headers
  BY AtWork DEF CreateTable, Working, ProcessesInv, PlaceInv, Placed, HandleType
<1>2. /\ UNCHANGED <<dir, at, committed, overlap>>
      /\ grow \/ h.header.schema_page # 0
      /\ handle' = [handle EXCEPT ![p][at[p].file] = h1]
      /\ disk' = IF grow THEN [disk EXCEPT ![h.inode].pages = Later(@, SchemaPage)] ELSE disk
  BY DEF CreateTable, CatalogThere
<1>3. before \in Seq(Names)
  BY <1>1, EmptySeq
<1>4. Saved(before, name) \in Seq(Names) /\ ToSet(before) \subseteq ToSet(Saved(before, name))
  BY <1>3, SavedAdds
<1>5. header \in Headers /\ header.schema_page = SchemaPage /\ header.root_page = h.header.root_page
      /\ header # NoHeader
  <2>1. h.header \in HeaderType
    BY <1>1, HeaderFields
  <2> DEFINE count == IF grow THEN h.header.page_count + 1 ELSE h.header.page_count
  <2>2. /\ header \in HeaderType
        /\ header.schema_page = 1 /\ header.root_page = h.header.root_page
        /\ header.page_count = count
    <3>1. count \in Nat
      BY <2>1 DEF HeaderType
    <3>2. header = [h.header EXCEPT !.schema_page = SchemaPage, !.page_count = count]
      OBVIOUS
    <3> HIDE DEF count, header, h
    <3> QED BY <2>1, <3>1, <3>2 DEF HeaderType, SchemaPage
  <2> HIDE DEF header
  <2>3. CASE grow
    <3>1. h.header = NewHeader
      BY <1>1, <2>3, HeaderStages
    <3>2. header = TableHeader
      BY <2>2, <2>3, <3>1, HeaderFields, HeaderStages
    <3> QED BY <2>2, <3>2, HeaderStages, HeaderFields DEF SchemaPage
  <2>4. CASE ~grow
    <3>1. h.header = TableHeader \/ h.header = RowsHeader
      BY <1>1, <1>2, <2>4, HeaderStages
    <3>2. header = h.header
      BY <2>1, <2>2, <2>4, <3>1, HeaderFields
    <3> QED BY <1>1, <2>2, <3>2 DEF SchemaPage
  <2> QED BY <2>3, <2>4
<1>6. ~grow => before = Catalog(p)
  OBVIOUS
<1>7. h.header.schema_page # 0 => ~grow
  OBVIOUS
<1> HIDE DEF h, grow, before, header
<1>8. /\ h1 \in HandleType /\ h1.inode = h.inode /\ h1.stale = h.stale /\ h1.header = header
      /\ h1.dirty = h.dirty \cup {SchemaPage} /\ h1.cached /\ h1.catalog = Saved(before, name)
  BY <1>1, <1>4, <1>5, ZenonT(60) DEF HandleType
<1> HIDE DEF h1
<1>9. Grown
  <2>1. CASE grow
    BY <1>1, <1>2, <2>1, PageAdded DEF ProcessesInv, SchemaPage
  <2>2. CASE ~grow
    BY <1>2, <2>2 DEF Grown, ProcessesInv, Types, FileType
  <2> QED BY <2>1, <2>2
<1>10. Covers(h1, disk'[h.inode])
  <2>1. disk'[h.inode].pages >= MyFile(p).pages /\ MyFile(p).pages \in Nat /\ disk'[h.inode].pages \in Nat
    BY <1>1, <1>9 DEF Grown, MyFile, FileType, h
  <2>2. /\ h1.header.root_page # 0 => MyFile(p).pages > HeapPage \/ HeapPage \in h1.dirty
        /\ SchemaPage \in h1.dirty /\ h1.cached
    BY <1>1, <1>5, <1>8 DEF Covers
  <2> QED BY <2>1, <2>2 DEF Covers, HeapPage
<1>11. h.header.schema_page # 0 => ToSet(Catalog(p)) \subseteq ToSet(h1.catalog)
  BY <1>4, <1>6, <1>7, <1>8
<1>12. h1.header.schema_page # 0
  BY <1>5, <1>8 DEF SchemaPage
<1>13. States(p, h1)
  BY <1>2, <1>5, <1>8, <1>9, <1>10, <1>11, <1>12 DEF States, h
<1> QED BY <1>13

\* INSERT gives the first rows of a file a page.
LEMMA InsertStates ==
  ASSUME ProcessesInv, NEW p \in Procs, Insert(p)
  PROVE  \E h1 : States(p, h1)
<1> DEFINE h == Mine(p)
           grow == h.header.root_page = 0
           header == [h.header EXCEPT !.root_page = IF grow THEN h.header.page_count ELSE @,
                                      !.page_count = IF grow THEN @ + 1 ELSE @]
           h1 == [h EXCEPT !.header = header, !.cached = TRUE, !.catalog = Catalog(p),
                           !.dirty = @ \cup {HeapPage}]
<1>1. /\ at[p].file \in Files /\ h = handle[p][at[p].file] /\ h \in HandleType /\ h.inode \in Inodes
      /\ Covers(h, MyFile(p)) /\ Catalog(p) \in Seq(Names) /\ h.header # NoHeader
      /\ MyFile(p) \in FileType /\ h.header \in Headers /\ h.header.schema_page # 0
  BY AtWork DEF Insert, CatalogThere, Working, ProcessesInv, PlaceInv, Placed, HandleType
<1>2. /\ UNCHANGED <<dir, at, committed, overlap>>
      /\ handle' = [handle EXCEPT ![p][at[p].file] =
           [h EXCEPT !.header.root_page = IF grow THEN h.header.page_count ELSE @,
                     !.header.page_count = IF grow THEN @ + 1 ELSE @,
                     !.cached = TRUE,
                     !.catalog = Catalog(p),
                     !.dirty = @ \cup {HeapPage}]]
      /\ disk' = IF grow THEN [disk EXCEPT ![h.inode].pages = Later(@, h.header.page_count)] ELSE disk
  BY DEF Insert
<1>3. h.header = TableHeader \/ h.header = RowsHeader
  BY <1>1, HeaderStages
<1>4. /\ header = RowsHeader
      /\ grow => h.header.page_count = HeapPage
  <2>1. h.header \in HeaderType /\ RowsHeader \in HeaderType
    BY <1>1, HeaderFields, HeaderStages
  <2> DEFINE root == IF grow THEN h.header.page_count ELSE h.header.root_page
             count == IF grow THEN h.header.page_count + 1 ELSE h.header.page_count
  <2>2. /\ header \in HeaderType
        /\ header.schema_page = h.header.schema_page
        /\ header.root_page = root /\ header.page_count = count
    <3>1. root \in Nat /\ count \in Nat
      BY <2>1 DEF HeaderType
    <3>2. header = [h.header EXCEPT !.root_page = root, !.page_count = count]
      OBVIOUS
    <3> HIDE DEF root, count, header, h
    <3> QED BY <2>1, <3>1, <3>2 DEF HeaderType
  <2> HIDE DEF header
  <2> QED BY <1>3, <2>1, <2>2, HeaderFields DEF HeapPage
<1> HIDE DEF h
<1>5. handle' = [handle EXCEPT ![p][at[p].file] = h1]
  <2>1. [h EXCEPT !.header.root_page = IF grow THEN h.header.page_count ELSE @,
                  !.header.page_count = IF grow THEN @ + 1 ELSE @,
                  !.cached = TRUE,
                  !.catalog = Catalog(p),
                  !.dirty = @ \cup {HeapPage}] = h1
    BY <1>1, <1>3, ZenonT(60) DEF HandleType, TableHeader, RowsHeader
  <2> QED BY <1>2, <2>1, ZenonT(60)
<1> HIDE DEF grow, header
<1>6. /\ h1 \in HandleType /\ h1.inode = h.inode /\ h1.stale = h.stale /\ h1.header = RowsHeader
      /\ h1.dirty = h.dirty \cup {HeapPage} /\ h1.cached /\ h1.catalog = Catalog(p)
  BY <1>1, <1>4, HeaderStages, ZenonT(60) DEF HandleType
<1> HIDE DEF h1
<1>7. Grown
  <2>1. CASE grow
    BY <1>1, <1>2, <1>4, <2>1, PageAdded DEF ProcessesInv, HeapPage
  <2>2. CASE ~grow
    BY <1>2, <2>2 DEF Grown, ProcessesInv, Types, FileType
  <2> QED BY <2>1, <2>2
<1>8. RowsHeader # NoHeader /\ RowsHeader.schema_page # 0 /\ RowsHeader.root_page # 0
  BY DEF RowsHeader, NoHeader, SchemaPage, HeapPage
<1>9. Covers(h1, disk'[h.inode])
  <2>1. disk'[h.inode].pages >= MyFile(p).pages /\ MyFile(p).pages \in Nat /\ disk'[h.inode].pages \in Nat
    BY <1>1, <1>7 DEF Grown, MyFile, FileType, h
  <2>2. /\ MyFile(p).pages > SchemaPage \/ SchemaPage \in h1.dirty
        /\ HeapPage \in h1.dirty /\ h1.cached
    BY <1>1, <1>6 DEF Covers
  <2> QED BY <2>1, <2>2 DEF Covers, SchemaPage
<1>10. States(p, h1)
  BY <1>2, <1>5, <1>6, <1>7, <1>8, <1>9, ZenonT(60) DEF States, h
<1> QED BY <1>10

\* A statement only grows the files.
LEMMA StatementGrows ==
  ASSUME ProcessesInv, NEW p \in Procs,
         Look(p) \/ (\E name \in Names : CreateTable(p, name)) \/ Insert(p)
  PROVE  Working(p) /\ \E h1 : States(p, h1)
<1>1. CASE Look(p)
  BY <1>1, LookStates DEF Look
<1>2. CASE \E name \in Names : CreateTable(p, name)
  BY <1>2, CreateTableStates DEF CreateTable
<1>3. CASE Insert(p)
  BY <1>3, InsertStates DEF Insert
<1> QED BY <1>1, <1>2, <1>3

-----------------------------------------------------------------------------
(* Writes.                                                                 *)

Covered(file) ==
  /\ file.header.schema_page # 0 => file.pages > SchemaPage
  /\ file.header.root_page # 0 => file.pages > file.header.root_page /\ file.header.root_page = HeapPage

\* p writes: its file becomes file1 and its StorageManager h1, or none, and
\* everyone else who has the file open is stale.
Writes(p, h1, file1) ==
  /\ at[p].step \in {"blank", "pages"}
  /\ h1 \in HandleType /\ file1 \in FileType
  /\ handle' = [Written(p) EXCEPT ![p][at[p].file] = h1]
  /\ disk' = [disk EXCEPT ![Mine(p).inode] = file1]
  /\ \/ h1 = NoHandle
     \/ /\ h1.inode = Mine(p).inode /\ h1.stale = Mine(p).stale
        /\ Covers(h1, file1)
        /\ ~h1.stale => Ahead(h1, file1)
  /\ file1.pages >= MyFile(p).pages /\ Covered(file1)
  /\ ~Mine(p).stale => Holds(MyFile(p)) \subseteq Holds(file1)
  /\ \/ committed' = committed
     \/ committed' = [g \in Files |-> IF dir[g] = Mine(p).inode THEN committed[g] \cup Holds(file1)
                                      ELSE committed[g]]
  /\ at' \in [Procs -> PlaceType] /\ \A q \in Procs \ {p} : at'[q] = at[q]
  /\ Placed(p)'
  /\ UNCHANGED <<dir, overlap>>

\* A write keeps the invariant.
LEMMA WriteKeepsInv ==
  ASSUME ProcessesInv, NEW p \in Procs, NEW h1, NEW file1, Writes(p, h1, file1)
  PROVE  ProcessesInv'
<1> DEFINE f == at[p].file
           i == Mine(p).inode
<1>1. /\ Types /\ f \in Files /\ i \in Inodes /\ i # 0 /\ handle[p][f].inode = i
      /\ Mine(p) = handle[p][f] /\ MyFile(p) = disk[i]
  BY AtWork DEF Writes, ProcessesInv, MyFile
<1>2. /\ h1 \in HandleType /\ file1 \in FileType
      /\ handle' = [Written(p) EXCEPT ![p][f] = h1] /\ disk' = [disk EXCEPT ![i] = file1]
      /\ file1.pages >= disk[i].pages /\ Covered(file1)
      /\ ~handle[p][f].stale => Holds(disk[i]) \subseteq Holds(file1)
      /\ dir' = dir /\ overlap' = overlap
  BY <1>1 DEF Writes
<1>3. /\ h1.inode = 0 \/ h1.inode = i
      /\ h1.inode # 0 => /\ h1.stale = handle[p][f].stale /\ Covers(h1, file1)
                         /\ ~h1.stale => Ahead(h1, file1)
  BY <1>1, Nothing DEF Writes
<1>4. /\ at' \in [Procs -> PlaceType] /\ \A q \in Procs \ {p} : at'[q] = at[q]
      /\ Placed(p)'
  BY DEF Writes
<1>5. \/ committed' = committed
      \/ committed' = [g \in Files |-> IF dir[g] = i THEN committed[g] \cup Holds(file1) ELSE committed[g]]
  BY DEF Writes
<1>6. /\ Written(p) \in [Procs -> [Files -> HandleType]]
      /\ \A q \in Procs : \A g \in Files :
           LET k == handle[q][g]
               w == Written(p)[q][g]
           IN /\ w.inode = k.inode /\ w.header = k.header /\ w.cached = k.cached
              /\ w.catalog = k.catalog /\ w.dirty = k.dirty
              /\ q = p => w = k
              /\ w.stale <=> k.stale \/ (q # p /\ k.inode = i)
  BY <1>1, WrittenMarks
<1> HIDE DEF f, i
<1>7. /\ handle' \in [Procs -> [Files -> HandleType]]
      /\ handle'[p][f] = h1
      /\ \A q \in Procs : \A g \in Files : q # p \/ g # f => handle'[q][g] = Written(p)[q][g]
  BY <1>1, <1>2, <1>6
<1>8. ASSUME NEW q \in Procs, NEW g \in Files, q # p \/ g # f
      PROVE  /\ handle'[q][g].inode = handle[q][g].inode /\ handle'[q][g].header = handle[q][g].header
             /\ handle'[q][g].cached = handle[q][g].cached /\ handle'[q][g].catalog = handle[q][g].catalog
             /\ handle'[q][g].dirty = handle[q][g].dirty
             /\ handle'[q][g].stale <=> handle[q][g].stale \/ handle[q][g].inode = i
  <2>1. q = p => handle[q][g].inode # i
    BY <1>1, <1>8 DEF ProcessesInv, NameInv
  <2> QED BY <1>6, <1>7, <1>8, <2>1
<1>9. /\ disk' \in [Inodes -> FileType]
      /\ disk'[i] = file1 /\ \A j \in Inodes : j # i => disk'[j] = disk[j]
      /\ \A j \in Inodes : /\ disk'[j].pages >= disk[j].pages
                           /\ disk[j].pages \in Nat /\ disk'[j].pages \in Nat
  BY <1>1, <1>2 DEF Types, FileType
<1>10. \A q \in Procs : \A g \in Files :
         handle[q][g].inode # 0 => handle[q][g].inode \in Inodes
  BY <1>1, ProcessesAssumption DEF Types, HandleType, Inodes
<1>11. Types'
  <2>1. committed' \in [Files -> SUBSET (Names \cup {"rows"})]
    BY <1>1, <1>2, <1>5, HoldsTables DEF Types
  <2> QED BY <1>1, <1>2, <1>4, <1>7, <1>9, <2>1 DEF Types
<1>12. HeaderCovered'
  <2>1. \A j \in Inodes : Covered(disk'[j])
    BY <1>2, <1>9 DEF ProcessesInv, HeaderCovered, Covered
  <2> QED BY <2>1 DEF HeaderCovered, Covered
<1>13. PlaceInv'
  <2> SUFFICES ASSUME NEW q \in Procs, q # p PROVE Placed(q)'
    BY <1>4 DEF PlaceInv
  <2>1. Placed(q) /\ at[q].file \in Files /\ "test.db" \in Files /\ at'[q] = at[q]
    BY <1>1, <1>4 DEF ProcessesInv, PlaceInv, Types, PlaceType, Files
  <2>2. \A g \in Files : handle'[q][g].inode = handle[q][g].inode /\ handle'[q][g].header = handle[q][g].header
    BY <1>8
  <2> QED BY <2>1, <2>2 DEF Placed, Mine
<1>14. CoverInv'
  <2> SUFFICES ASSUME NEW q \in Procs, NEW g \in Files, handle'[q][g].inode # 0
      PROVE  Covers(handle'[q][g], disk'[handle'[q][g].inode])
    BY DEF CoverInv
  <2>1. CASE q = p /\ g = f
    <3>1. handle'[q][g] = h1 /\ h1.inode = i
      BY <1>3, <1>7, <2>1
    <3> QED BY <1>3, <1>9, <3>1, <1>1
  <2>2. CASE q # p \/ g # f
    <3>1. Covers(handle[q][g], disk[handle[q][g].inode]) /\ handle[q][g].inode \in Inodes
      BY <1>8, <1>10, <2>2 DEF ProcessesInv, CoverInv
    <3> QED BY <1>8, <1>9, <2>2, <3>1 DEF Covers, SchemaPage, HeapPage
  <2> QED BY <2>1, <2>2
<1>15. NameInv'
  <2>1. \A q \in Procs : \A g \in Files :
          handle'[q][g].inode # 0 => handle'[q][g].inode = handle[q][g].inode
    BY <1>1, <1>3, <1>7, <1>8
  <2>2. \A q \in Procs : \A g \in Files :
          handle'[q][g].inode = handle[q][g].inode \/ handle'[q][g].inode = 0
    BY <2>1
  <2> QED BY <1>2, <2>1, <2>2 DEF ProcessesInv, NameInv
<1>16. OverlapInv'
  <2>1. \A q \in Procs : \A g \in Files :
          handle'[q][g].inode # 0 => handle'[q][g].inode = handle[q][g].inode
    BY <1>1, <1>3, <1>7, <1>8
  <2> SUFFICES ASSUME NEW q \in Procs, NEW g \in Files, handle'[q][g].inode # 0
      PROVE  /\ handle'[q][g].stale => handle'[q][g].inode \in overlap
             /\ \A r \in Procs \ {q} :
                  handle'[r][g].inode = handle'[q][g].inode => handle'[q][g].inode \in overlap
    BY <1>2 DEF OverlapInv
  <2>2. \A r \in Procs \ {q} : handle'[r][g].inode = handle'[q][g].inode => handle'[q][g].inode \in overlap
    BY <2>1 DEF ProcessesInv, OverlapInv
  <2>3. ASSUME handle'[q][g].stale PROVE handle'[q][g].inode \in overlap
    <3>1. handle[q][g].inode # 0 /\ (handle[q][g].stale => handle[q][g].inode \in overlap)
      BY <2>1 DEF ProcessesInv, OverlapInv
    <3>2. CASE handle[q][g].stale
      BY <2>1, <3>1, <3>2
    <3>3. CASE ~handle[q][g].stale
      <4>1. q # p \/ g # f
        BY <1>3, <1>7, <2>3, <3>3
      <4>2. handle[q][g].inode = i
        BY <1>8, <2>3, <3>3, <4>1
      <4>3. g = f
        BY <1>1, <4>2 DEF ProcessesInv, NameInv
      <4> QED BY <1>1, <2>1, <4>1, <4>2, <4>3 DEF ProcessesInv, OverlapInv
    <3> QED BY <3>2, <3>3
  <2> QED BY <2>2, <2>3
<1>17. AheadInv'
  <2> SUFFICES ASSUME NEW q \in Procs, NEW g \in Files, handle'[q][g].inode # 0, ~handle'[q][g].stale
      PROVE  Ahead(handle'[q][g], disk'[handle'[q][g].inode])
    BY DEF AheadInv
  <2>1. CASE q = p /\ g = f
    <3>1. handle'[q][g] = h1 /\ h1.inode = i /\ h1.inode # 0 /\ ~h1.stale
      BY <1>3, <1>7, <2>1
    <3> QED BY <1>3, <1>9, <3>1
  <2>2. CASE q # p \/ g # f
    <3>1. handle[q][g].inode # i /\ ~handle[q][g].stale /\ handle'[q][g].inode = handle[q][g].inode
      BY <1>8, <2>2
    <3>2. handle[q][g].inode \in Inodes /\ disk'[handle[q][g].inode] = disk[handle[q][g].inode]
      BY <1>9, <1>10, <3>1
    <3>3. Ahead(handle[q][g], disk'[handle[q][g].inode])
      BY <3>1, <3>2 DEF ProcessesInv, AheadInv
    <3> QED BY <1>8, <2>2, <3>1, <3>3 DEF Ahead
  <2> QED BY <2>1, <2>2
<1>18. CommitInv'
  <2>2. \A g \in Files : dir[g] = i /\ i \notin overlap => committed[g] \subseteq Holds(file1)
    <3>1. i \notin overlap => ~handle[p][f].stale
      BY <1>1 DEF ProcessesInv, OverlapInv
    <3> QED BY <1>1, <1>2, <3>1 DEF ProcessesInv, CommitInv, SequentialSessionsKeep
  <2>3. ASSUME NEW g \in Files
        PROVE  /\ dir[g] # 0 /\ dir[g] \notin overlap => committed'[g] \subseteq Holds(disk'[dir[g]])
               /\ dir[g] = 0 => committed'[g] = {}
    <3>1. CASE dir[g] = i
      BY <1>1, <1>5, <1>9, <2>2, <3>1
    <3>2. CASE dir[g] # i
      <4>1. committed'[g] = committed[g]
        BY <1>5, <3>2
      <4>2. dir[g] # 0 => disk'[dir[g]] = disk[dir[g]]
        BY <1>1, <1>9, <3>2, ProcessesAssumption DEF Types, Inodes
      <4> QED BY <4>1, <4>2 DEF ProcessesInv, CommitInv, SequentialSessionsKeep
    <3> QED BY <3>1, <3>2
  <2>4. SequentialSessionsKeep'
    BY <1>2, <2>3 DEF SequentialSessionsKeep, Holds
  <2> QED BY <1>2, <2>3, <2>4 DEF CommitInv
<1> QED BY <1>11, <1>12, <1>13, <1>14, <1>15, <1>16, <1>17, <1>18 DEF ProcessesInv

\* The first header is written to a file that held nothing, or by one who
\* does not know that another one wrote to it since.
LEMMA WriteNewHeaderWrites ==
  ASSUME ProcessesInv, NEW p \in Procs, WriteNewHeader(p)
  PROVE  \E h1, file1 : Writes(p, h1, file1)
<1> DEFINE f == at[p].file
           h == Mine(p)
           file == MyFile(p)
           h1 == [h EXCEPT !.header = NewHeader]
           file1 == [file EXCEPT !.header = NewHeader]
<1>1. /\ f \in Files /\ h = handle[p][f] /\ h \in HandleType /\ h.inode # 0 /\ h.inode \in Inodes
      /\ file = disk[h.inode] /\ file \in FileType /\ Covers(h, file) /\ h.header = NoHeader
  BY AtWork DEF WriteNewHeader, ProcessesInv, PlaceInv, Placed, MyFile
<1>2. /\ at[p].step = "blank"
      /\ disk' = [disk EXCEPT ![handle[p][f].inode].header = NewHeader]
      /\ handle' = [Written(p) EXCEPT ![p][f].header = NewHeader]
      /\ at' = [at EXCEPT ![p] = Opened(f, at[p].web)]
      /\ UNCHANGED <<dir, committed, overlap>>
  BY DEF WriteNewHeader
<1>3. Types /\ Written(p) \in [Procs -> [Files -> HandleType]] /\ Written(p)[p][f] = h
  BY <1>1, WrittenMarks DEF ProcessesInv
<1>4. ~h.stale => Ahead(h, file)
  BY <1>1 DEF ProcessesInv, AheadInv
<1> HIDE DEF f, h, file
<1>5. handle' = [Written(p) EXCEPT ![p][f] = h1]
  BY <1>1, <1>2, <1>3
<1>6. disk' = [disk EXCEPT ![h.inode] = file1]
  BY <1>1, <1>2
<1>7. /\ h1 \in HandleType /\ h1.inode = h.inode /\ h1.stale = h.stale /\ h1.header = NewHeader
      /\ h1.dirty = h.dirty /\ h1.cached = h.cached
  BY <1>1, HeaderStages DEF HandleType
<1>8. /\ file1 \in FileType /\ file1.header = NewHeader /\ file1.pages = file.pages
      /\ file1.catalog = file.catalog /\ file.pages \in Nat
  BY <1>1, HeaderStages DEF FileType
<1> HIDE DEF h1, file1
<1>9. Covers(h1, file1) /\ Ahead(h1, file1) /\ Covered(file1)
  BY <1>1, <1>7, <1>8, HeaderStages DEF Covers, Ahead, Covered
<1>10. ~h.stale => Holds(file) \subseteq Holds(file1)
  BY <1>1, <1>4, HeaderStages DEF Ahead, Holds
<1>11. at' \in [Procs -> PlaceType] /\ at'[p] = Opened(f, at[p].web)
       /\ \A q \in Procs \ {p} : at'[q] = at[q]
  <2>1. Opened(f, at[p].web) \in PlaceType
    BY <1>1, <1>3 DEF Opened, PlaceType, Files, Types
  <2> QED BY <1>2, <1>3, <2>1 DEF Types
<1>12. handle'[p][f] = h1 /\ \A g \in Files : g # f => handle'[p][g] = handle[p][g]
  BY <1>1, <1>3, <1>5, WrittenMarks
<1>13. Placed(p)'
  <2>1. f = "test.db" \/ (f = "nyotadb.db" /\ /\ handle[p]["test.db"].inode # 0
                                              /\ handle[p]["test.db"].header # NoHeader)
    BY <1>1 DEF ProcessesInv, PlaceInv, Placed, Files, f
  <2>2. "test.db" \in Files
    BY DEF Files
  <2>3. Opened(f, at[p].web).file = f
        \/ (f = "test.db" /\ Opened(f, at[p].web).file = "nyotadb.db" /\ Opened(f, at[p].web).step = "open")
    BY <2>1 DEF Opened
  <2>4. Opened(f, at[p].web).step \in {"working", "open"}
        /\ (Opened(f, at[p].web).step = "open" => Opened(f, at[p].web).file = "nyotadb.db" /\ f # "nyotadb.db")
    BY DEF Opened
  <2>5. h1.inode # 0 /\ h1.header # NoHeader
    BY <1>1, <1>7, HeaderStages
  <2>6. at'[p] = Opened(f, at[p].web)
    BY <1>11
  <2> QED BY <1>12, <2>1, <2>2, <2>3, <2>4, <2>5, <2>6 DEF Placed, Mine
<1>14. /\ at[p].step \in {"blank", "pages"} /\ file1.pages >= file.pages
       /\ dir' = dir /\ overlap' = overlap /\ committed' = committed
  BY <1>2, <1>8
<1>15. Writes(p, h1, file1)
  BY <1>5, <1>6, <1>7, <1>8, <1>9, <1>10, <1>11, <1>13, <1>14, Zenon DEF Writes, f, h, file
<1> QED BY <1>15

\* A page that is written takes from the file only what another one put there.
LEMMA ClosePageWrites ==
  ASSUME ProcessesInv, NEW p \in Procs, ClosePage(p)
  PROVE  \E h1, file1 : Writes(p, h1, file1)
<1> DEFINE f == at[p].file
           h == Mine(p)
           file == MyFile(p)
           page == IF SchemaPage \in h.dirty THEN SchemaPage ELSE HeapPage
           h1 == [h EXCEPT !.dirty = @ \ {page}]
           file1 == [file EXCEPT !.pages = Later(@, page + 1),
                                 !.catalog = IF page = SchemaPage THEN h.catalog ELSE @]
<1>1. /\ f \in Files /\ h = handle[p][f] /\ h \in HandleType /\ h.inode # 0 /\ h.inode \in Inodes
      /\ file = disk[h.inode] /\ file \in FileType /\ Covers(h, file) /\ h.header # NoHeader
  BY AtWork DEF ClosePage, ProcessesInv, PlaceInv, Placed, MyFile
<1>2. /\ at[p].step = "pages"
      /\ disk' = [disk EXCEPT ![h.inode].pages = Later(@, page + 1),
                              ![h.inode].catalog = IF page = SchemaPage THEN h.catalog ELSE @]
      /\ handle' = [Written(p) EXCEPT ![p][f].dirty = @ \ {page}]
      /\ UNCHANGED <<dir, at, committed, overlap>>
      /\ h.dirty # {}
  BY DEF ClosePage
<1>3. Types /\ Written(p) \in [Procs -> [Files -> HandleType]] /\ Written(p)[p][f] = h
  BY <1>1, WrittenMarks DEF ProcessesInv
<1>4. ~h.stale => Ahead(h, file)
  BY <1>1 DEF ProcessesInv, AheadInv
<1>5. /\ page \in {SchemaPage, HeapPage} /\ page \in Nat
      /\ page = SchemaPage => SchemaPage \in h.dirty
  BY <1>1, <1>2 DEF HandleType, SchemaPage, HeapPage
<1> HIDE DEF f, h, file, page
<1>6. handle' = [Written(p) EXCEPT ![p][f] = h1]
  BY <1>1, <1>2, <1>3
<1>7. disk' = [disk EXCEPT ![h.inode] = file1]
  BY <1>1, <1>2, <1>3, ZenonT(60) DEF Types, FileType
<1>8. /\ h1 \in HandleType /\ h1.inode = h.inode /\ h1.stale = h.stale /\ h1.header = h.header
      /\ h1.dirty = h.dirty \ {page} /\ h1.cached = h.cached /\ h1.catalog = h.catalog
  BY <1>1 DEF HandleType
<1>9. /\ file1 \in FileType /\ file1.header = file.header /\ file1.pages = Later(file.pages, page + 1)
      /\ file1.catalog = IF page = SchemaPage THEN h.catalog ELSE file.catalog
      /\ file.pages \in Nat /\ file1.pages >= file.pages /\ file1.pages >= page + 1 /\ file1.pages \in Nat
  <2>1. Later(file.pages, page + 1) \in Nat /\ file.pages \in Nat
        /\ Later(file.pages, page + 1) >= file.pages /\ Later(file.pages, page + 1) >= page + 1
    BY <1>1, <1>5 DEF FileType, Later
  <2>2. h.catalog \in Seq(Names)
    BY <1>1 DEF HandleType
  <2> QED BY <1>1, <2>1, <2>2 DEF FileType
<1> HIDE DEF h1, file1
<1>10. Covers(h1, file1)
  BY <1>1, <1>5, <1>8, <1>9 DEF Covers, SchemaPage, HeapPage
<1>11. Covered(file1)
  <2>1. Covered(file)
    BY <1>1 DEF ProcessesInv, HeaderCovered, Covered
  <2> QED BY <1>9, <2>1 DEF Covered, SchemaPage, HeapPage
<1>12. h1.cached \/ page # SchemaPage
  BY <1>1, <1>5, <1>8 DEF Covers
<1>13. ~h.stale => Ahead(h1, file1)
  <2>1. CASE page = SchemaPage
    BY <1>4, <1>8, <1>9, <2>1 DEF Ahead
  <2>2. CASE page # SchemaPage
    BY <1>4, <1>8, <1>9, <2>2 DEF Ahead
  <2> QED BY <2>1, <2>2
<1>14. ~h.stale => Holds(file) \subseteq Holds(file1)
  <2>1. CASE page = SchemaPage
    BY <1>4, <1>8, <1>9, <1>12, <2>1 DEF Ahead, Holds
  <2>2. CASE page # SchemaPage
    BY <1>9, <2>2 DEF Holds
  <2> QED BY <2>1, <2>2
<1>15. handle'[p][f] = h1 /\ \A g \in Files : g # f => handle'[p][g] = handle[p][g]
  BY <1>1, <1>3, <1>6, WrittenMarks
<1>16. Placed(p)'
  <2>1. Placed(p) /\ at'[p] = at[p] /\ "test.db" \in Files
    BY <1>2 DEF ProcessesInv, PlaceInv, Files
  <2>2. \A g \in Files : handle'[p][g].inode = handle[p][g].inode /\ handle'[p][g].header = handle[p][g].header
    BY <1>1, <1>8, <1>15
  <2> QED BY <1>1, <2>1, <2>2 DEF Placed, Mine, f
<1>17. Writes(p, h1, file1)
  BY <1>2, <1>3, <1>6, <1>7, <1>8, <1>9, <1>10, <1>11, <1>13, <1>14, <1>16
     DEF Writes, f, h, file, Types
<1> QED BY <1>17

\* The header that is written last speaks of pages that are there, and leaves
\* out only what another one put there.
LEMMA CloseHeaderWrites ==
  ASSUME ProcessesInv, NEW p \in Procs, CloseHeader(p)
  PROVE  \E h1, file1 : Writes(p, h1, file1)
<1> DEFINE f == at[p].file
           h == Mine(p)
           file == MyFile(p)
           file1 == [file EXCEPT !.header = h.header]
<1>1. /\ f \in Files /\ h = handle[p][f] /\ h \in HandleType /\ h.inode # 0 /\ h.inode \in Inodes
      /\ file = disk[h.inode] /\ file \in FileType /\ Covers(h, file)
  BY AtWork DEF CloseHeader, PagesWritten, MyFile
<1>2. /\ at[p].step = "pages" /\ h.dirty = {}
      /\ disk' = [disk EXCEPT ![h.inode].header = h.header]
      /\ handle' = [Written(p) EXCEPT ![p][f] = NoHandle]
      /\ committed' = [g \in Files |-> IF dir[g] = h.inode THEN committed[g] \cup Holds(disk'[h.inode])
                                       ELSE committed[g]]
      /\ at' = [at EXCEPT ![p] = Closed(p)]
      /\ UNCHANGED <<dir, overlap>>
  BY DEF CloseHeader, PagesWritten
<1>3. Types /\ Written(p) \in [Procs -> [Files -> HandleType]]
  BY <1>1, WrittenMarks DEF ProcessesInv
<1>4. ~h.stale => Ahead(h, file)
  BY <1>1 DEF ProcessesInv, AheadInv
<1>5. h.header \in Headers
  BY <1>1 DEF HandleType
<1> HIDE DEF f, h, file
<1>6. disk' = [disk EXCEPT ![h.inode] = file1]
  BY <1>1, <1>2
<1>7. /\ file1 \in FileType /\ file1.header = h.header /\ file1.pages = file.pages
      /\ file1.catalog = file.catalog /\ file.pages \in Nat
  BY <1>1, <1>5 DEF FileType
<1> HIDE DEF file1
<1>8. disk'[h.inode] = file1
  BY <1>1, <1>3, <1>6 DEF Types
<1>9. committed' = [g \in Files |-> IF dir[g] = h.inode THEN committed[g] \cup Holds(file1)
                                    ELSE committed[g]]
  BY <1>2, <1>8
<1>10. Covered(file1)
  BY <1>1, <1>2, <1>5, <1>7, HeaderStages DEF Covers, Covered
<1>11. ~h.stale => Holds(file) \subseteq Holds(file1)
  BY <1>4, <1>7 DEF Ahead, Holds
<1>12. at' \in [Procs -> PlaceType] /\ at'[p] = Closed(p)
       /\ \A q \in Procs \ {p} : at'[q] = at[q]
  <2>1. at[p] \in PlaceType
    BY <1>3 DEF Types
  <2>2. [at[p] EXCEPT !.file = "test.db", !.step = "pages"] \in PlaceType
    BY <2>1 DEF PlaceType, Files
  <2>3. Closed(p) \in PlaceType
    BY <2>2, Nothing DEF Closed
  <2> QED BY <1>2, <1>3, <2>3 DEF Types
<1>13. handle'[p][f] = NoHandle /\ \A g \in Files : g # f => handle'[p][g] = handle[p][g]
  BY <1>1, <1>2, <1>3, WrittenMarks
<1>14. Placed(p)'
  <2>1. CASE f = "test.db"
    <3>1. at'[p] = Down
      BY <1>12, <2>1 DEF Closed, f
    <3> QED BY <3>1, Nothing DEF Placed
  <2>2. CASE f # "test.db"
    <3>1. at[p].file = "nyotadb.db" /\ "test.db" \in Files /\ at[p] \in PlaceType
      BY <1>1, <1>3, <2>2 DEF Files, f, Types
    <3>2. handle'[p]["test.db"].inode # 0 /\ handle'[p]["test.db"].header # NoHeader
      BY <1>13, <2>2, <3>1 DEF ProcessesInv, PlaceInv, Placed
    <3>3. at'[p].file = "test.db" /\ at'[p].step = "pages"
      BY <1>12, <3>1 DEF Closed, PlaceType
    <3> QED BY <3>2, <3>3 DEF Placed, Mine
  <2> QED BY <2>1, <2>2
<1>15. /\ at[p].step \in {"blank", "pages"} /\ file1.pages >= file.pages
       /\ dir' = dir /\ overlap' = overlap /\ NoHandle \in HandleType
       /\ handle' = [Written(p) EXCEPT ![p][f] = NoHandle]
  BY <1>2, <1>7, Nothing
<1>16. Writes(p, NoHandle, file1)
  BY <1>6, <1>7, <1>9, <1>10, <1>11, <1>12, <1>14, <1>15, Zenon DEF Writes, f, h, file
<1> QED BY <1>16

\* The three ways to write to a file.
LEMMA WritersWrite ==
  ASSUME ProcessesInv, NEW p \in Procs, WriteNewHeader(p) \/ ClosePage(p) \/ CloseHeader(p)
  PROVE  \E h1, file1 : Writes(p, h1, file1)
BY WriteNewHeaderWrites, ClosePageWrites, CloseHeaderWrites

-----------------------------------------------------------------------------
(* The other steps.                                                        *)

\* The end of the statements moves p alone.
LEMMA BeginCloseKeepsInv ==
  ASSUME ProcessesInv, NEW p \in Procs, BeginClose(p)
  PROVE  ProcessesInv'
<1>1. /\ Types /\ at[p].step = "working" /\ at' = [at EXCEPT ![p].step = "pages"]
      /\ dir' = dir /\ disk' = disk /\ handle' = handle /\ committed' = committed /\ overlap' = overlap
  BY DEF BeginClose, Working, ProcessesInv
<1>2. /\ at' \in [Procs -> PlaceType] /\ at'[p].step = "pages" /\ at'[p].file = at[p].file
      /\ \A q \in Procs : q # p => at'[q] = at[q]
  BY <1>1 DEF Types, PlaceType
<1>3. Types'
  BY <1>1, <1>2 DEF Types
<1>4. PlaceInv'
  <2> SUFFICES ASSUME NEW q \in Procs PROVE Placed(q)'
    BY DEF PlaceInv
  <2>1. Placed(q)
    BY DEF ProcessesInv, PlaceInv
  <2> QED BY <1>1, <1>2, <2>1 DEF Placed, Mine
<1>5. (HeaderCovered /\ CoverInv /\ NameInv /\ OverlapInv /\ AheadInv)'
  BY <1>1 DEF ProcessesInv, HeaderCovered, CoverInv, NameInv, OverlapInv, AheadInv
<1>6. CommitInv'
  BY <1>1 DEF ProcessesInv, CommitInv, SequentialSessionsKeep, Holds
<1> QED BY <1>3, <1>4, <1>5, <1>6 DEF ProcessesInv

\* A process that dies leaves the files as they are.
LEMMA KilledKeepsInv ==
  ASSUME ProcessesInv, NEW p \in Procs, Killed(p)
  PROVE  ProcessesInv'
<1>1. /\ Types /\ at' = [at EXCEPT ![p] = Down]
      /\ handle' = [handle EXCEPT ![p] = [g \in Files |-> NoHandle]]
      /\ dir' = dir /\ disk' = disk /\ committed' = committed /\ overlap' = overlap
  BY DEF Killed, ProcessesInv
<1>2. /\ handle' \in [Procs -> [Files -> HandleType]]
      /\ \A g \in Files : handle'[p][g] = NoHandle
      /\ \A q \in Procs : q # p => handle'[q] = handle[q]
  BY <1>1, Nothing DEF Types
<1>3. /\ at' \in [Procs -> PlaceType] /\ at'[p] = Down
      /\ \A q \in Procs : q # p => at'[q] = at[q]
  BY <1>1, Nothing DEF Types
<1>4. \A q \in Procs : \A g \in Files :
        handle'[q][g].inode # 0 => q # p /\ handle'[q][g] = handle[q][g]
  BY <1>2, Nothing
<1>5. Types'
  BY <1>1, <1>2, <1>3 DEF Types
<1>6. PlaceInv'
  <2> SUFFICES ASSUME NEW q \in Procs PROVE Placed(q)'
    BY DEF PlaceInv
  <2>1. CASE q = p
    BY <1>3, <2>1, Nothing DEF Placed
  <2>2. CASE q # p
    <3>1. at'[q] = at[q] /\ handle'[q] = handle[q] /\ Placed(q)
      BY <1>2, <1>3, <2>2 DEF ProcessesInv, PlaceInv
    <3> QED BY <3>1 DEF Placed, Mine
  <2> QED BY <2>1, <2>2
<1>7. HeaderCovered' /\ CoverInv'
  BY <1>1, <1>4 DEF ProcessesInv, HeaderCovered, CoverInv
<1>8. NameInv'
  <2> SUFFICES ASSUME NEW g \in Files, NEW k \in Files, g # k
      PROVE  /\ dir[g] # 0 => dir[g] # dir[k]
             /\ \A q \in Procs : handle'[q][g].inode # 0 =>
                  /\ handle'[q][g].inode # dir[k]
                  /\ \A r \in Procs : handle'[q][g].inode # handle'[r][k].inode
    BY <1>1 DEF NameInv
  <2> QED BY <1>4 DEF ProcessesInv, NameInv
<1>9. OverlapInv'
  <2> SUFFICES ASSUME NEW q \in Procs, NEW g \in Files, handle'[q][g].inode # 0
      PROVE  /\ handle'[q][g].stale => handle'[q][g].inode \in overlap
             /\ \A r \in Procs \ {q} :
                  handle'[r][g].inode = handle'[q][g].inode => handle'[q][g].inode \in overlap
    BY <1>1 DEF OverlapInv
  <2> QED BY <1>4 DEF ProcessesInv, OverlapInv
<1>10. AheadInv'
  BY <1>1, <1>4 DEF ProcessesInv, AheadInv
<1>11. CommitInv'
  BY <1>1 DEF ProcessesInv, CommitInv, SequentialSessionsKeep, Holds
<1> QED BY <1>5, <1>6, <1>7, <1>8, <1>9, <1>10, <1>11 DEF ProcessesInv

\* make clean takes a name, and nothing from whoever has the file open.
LEMMA MakeCleanKeepsInv ==
  ASSUME ProcessesInv, MakeClean
  PROVE  ProcessesInv'
<1>1. /\ Types /\ dir' = [dir EXCEPT !["nyotadb.db"] = 0]
      /\ committed' = [committed EXCEPT !["nyotadb.db"] = {}]
      /\ at' = at /\ disk' = disk /\ handle' = handle /\ overlap' = overlap
  BY DEF MakeClean, ProcessesInv
<1>2. /\ dir' \in [Files -> 0 .. MaxInodes]
      /\ committed' \in [Files -> SUBSET (Names \cup {"rows"})]
      /\ \A f \in Files : \/ dir'[f] = dir[f] /\ committed'[f] = committed[f]
                          \/ dir'[f] = 0 /\ committed'[f] = {}
  BY <1>1, ProcessesAssumption DEF Types, Files
<1>3. Types'
  BY <1>1, <1>2 DEF Types
<1>4. (HeaderCovered /\ CoverInv /\ OverlapInv /\ AheadInv)'
  BY <1>1 DEF ProcessesInv, HeaderCovered, CoverInv, OverlapInv, AheadInv
<1>5. PlaceInv'
  BY <1>1 DEF ProcessesInv, PlaceInv, Placed, Mine
<1>6. NameInv'
  BY <1>1, <1>2 DEF ProcessesInv, NameInv
<1>7. CommitInv'
  <2>1. \A f \in Files : dir'[f] # 0 /\ dir'[f] \notin overlap => committed'[f] \subseteq Holds(disk[dir'[f]])
    BY <1>2 DEF ProcessesInv, CommitInv, SequentialSessionsKeep
  <2>2. SequentialSessionsKeep'
    BY <1>1, <2>1 DEF SequentialSessionsKeep, Holds
  <2> QED BY <1>2, <2>2 DEF ProcessesInv, CommitInv
<1> QED BY <1>3, <1>4, <1>5, <1>6, <1>7 DEF ProcessesInv

\* Every step keeps the invariant.
LEMMA StepKeepsInv == ProcessesInv /\ [Next]_vars => ProcessesInv'
<1> SUFFICES ASSUME ProcessesInv, [Next]_vars PROVE ProcessesInv'
  OBVIOUS
<1>1. ASSUME NEW p \in Procs, Start(p) PROVE ProcessesInv'
  BY <1>1, OpenKeepsInv DEF Start, Files
<1>2. ASSUME NEW p \in Procs, StartRepl(p) PROVE ProcessesInv'
  <2>1. at[p].file = "nyotadb.db" /\ SmOpen(p, "nyotadb.db", FALSE)
    BY <1>2 DEF StartRepl, ProcessesInv, PlaceInv, Placed
  <2> QED BY <2>1, OpenKeepsInv DEF Files
<1>3. ASSUME NEW p \in Procs, WriteNewHeader(p) \/ ClosePage(p) \/ CloseHeader(p) PROVE ProcessesInv'
  BY <1>3, WritersWrite, WriteKeepsInv
<1>4. ASSUME NEW p \in Procs, Look(p) \/ (\E name \in Names : CreateTable(p, name)) \/ Insert(p)
      PROVE  ProcessesInv'
  BY <1>4, StatementGrows, StatementKeepsInv
<1>5. ASSUME NEW p \in Procs, BeginClose(p) PROVE ProcessesInv'
  BY <1>5, BeginCloseKeepsInv
<1>6. ASSUME NEW p \in Procs, Killed(p) PROVE ProcessesInv'
  BY <1>6, KilledKeepsInv
<1>7. CASE MakeClean
  BY <1>7, MakeCleanKeepsInv
<1>8. CASE UNCHANGED vars
  <2>1. /\ dir' = dir /\ at' = at /\ disk' = disk /\ handle' = handle
        /\ committed' = committed /\ overlap' = overlap
    BY <1>8 DEF vars
  <2>2. Types' /\ PlaceInv' /\ CommitInv'
    BY <2>1 DEF ProcessesInv, Types, PlaceInv, Placed, Mine, CommitInv, SequentialSessionsKeep, Holds
  <2>3. (HeaderCovered /\ CoverInv /\ NameInv /\ OverlapInv /\ AheadInv)'
    BY <2>1 DEF ProcessesInv, HeaderCovered, CoverInv, NameInv, OverlapInv, AheadInv
  <2> QED BY <2>2, <2>3 DEF ProcessesInv
<1> QED BY <1>1, <1>2, <1>3, <1>4, <1>5, <1>6, <1>7, <1>8 DEF Next, Step

-----------------------------------------------------------------------------
(* The theorems.                                                           *)

\* The inductive invariant: what the StorageManagers of all processes, the
\* files and the directory have to do with each other.
THEOREM ProcessesInvariant == Spec => []ProcessesInv
<1>1. Init => ProcessesInv
  BY InitProcessesInv
<1>2. ProcessesInv /\ [Next]_vars => ProcessesInv'
  BY StepKeepsInv
<1> QED BY <1>1, <1>2, PTL DEF Spec

\* sm_close and sm_open (storage.c:77-127): whatever processes die or write
\* over each other, the header of a file speaks only of pages that are in it.
THEOREM HeadersAreCovered == Spec => []HeaderCovered
<1>1. ProcessesInv => HeaderCovered
  BY DEF ProcessesInv
<1> QED BY <1>1, ProcessesInvariant, PTL

\* What a close left in a file is there for the next session, as long as no
\* two processes have the file open at once.
THEOREM SessionsKeep == Spec => []SequentialSessionsKeep
<1>1. ProcessesInv => SequentialSessionsKeep
  BY DEF ProcessesInv, CommitInv
<1> QED BY <1>1, ProcessesInvariant, PTL

\* Only the file that is open under the name f loses anything to p's step.
LEMMA LosesByWriting ==
  ASSUME ProcessesInv, NEW p \in Procs, NEW f \in Files, Step(p), Lost(f) # {}
  PROVE  /\ WriteNewHeader(p) \/ ClosePage(p) \/ CloseHeader(p)
         /\ at[p].file = f /\ dir[f] = Mine(p).inode
<1>1. /\ dir[f] # 0 /\ dir'[f] = dir[f]
      /\ Lost(f) = Holds(disk[dir[f]]) \ Holds(disk'[dir[f]])
      /\ dir[f] \in Inodes
  BY ProcessesAssumption DEF Lost, ProcessesInv, Types, Inodes
<1>2. Holds(disk'[dir[f]]) # Holds(disk[dir[f]])
  BY <1>1
<1>3. disk' # disk
  BY <1>2
<1>4. ~Start(p) /\ ~StartRepl(p) /\ ~BeginClose(p)
  BY <1>3 DEF Start, StartRepl, SmOpen, BeginClose
<1>5. ~(Look(p) \/ (\E name \in Names : CreateTable(p, name)) \/ Insert(p))
  <2> SUFFICES ASSUME Look(p) \/ (\E name \in Names : CreateTable(p, name)) \/ Insert(p)
      PROVE  FALSE
    OBVIOUS
  <2>1. Grown
    BY StatementGrows DEF States
  <2> QED BY <1>1, <1>2, <2>1 DEF Grown, Holds
<1>6. WriteNewHeader(p) \/ ClosePage(p) \/ CloseHeader(p)
  BY <1>4, <1>5 DEF Step
<1>7. PICK h1, file1 : Writes(p, h1, file1)
  BY <1>6, WritersWrite
<1>8. /\ at[p].file \in Files /\ Mine(p) = handle[p][at[p].file]
      /\ Mine(p).inode # 0 /\ Mine(p).inode \in Inodes
  BY <1>7, AtWork DEF Writes
<1>9. dir[f] = Mine(p).inode
  <2>1. disk' = [disk EXCEPT ![Mine(p).inode] = file1]
    BY <1>7 DEF Writes
  <2>2. dir[f] # Mine(p).inode => disk'[dir[f]] = disk[dir[f]]
    BY <1>1, <1>8, <2>1 DEF ProcessesInv, Types
  <2> QED BY <1>2, <2>2
<1>10. at[p].file = f
  BY <1>8, <1>9 DEF ProcessesInv, NameInv
<1> QED BY <1>6, <1>9, <1>10

\* Tables and rows are only lost to a process that opened the file before
\* another one wrote to it.
THEOREM OnlyTheStaleLose == Spec => OnlyStaleLoses
<1>1. ASSUME ProcessesInv, NEW p \in Procs, NEW f \in Files, Step(p), Lost(f) # {}
      PROVE  handle[p][f].stale
  <2>1. PICK h1, file1 : Writes(p, h1, file1)
    BY <1>1, LosesByWriting, WritersWrite
  <2>2. at[p].file = f /\ dir[f] = Mine(p).inode /\ Mine(p) = handle[p][f]
    BY <1>1, LosesByWriting DEF Mine
  <2>3. disk'[dir[f]] = file1 /\ MyFile(p) = disk[dir[f]]
    <3>1. dir[f] \in Inodes
      BY <2>1, <2>2, <1>1, AtWork DEF Writes
    <3> QED BY <2>1, <2>2, <3>1, <1>1 DEF Writes, MyFile, ProcessesInv, Types
  <2>4. Lost(f) = {} \/ Lost(f) = Holds(MyFile(p)) \ Holds(file1)
    BY <2>3 DEF Lost
  <2>5. ~Mine(p).stale => Holds(MyFile(p)) \subseteq Holds(file1)
    BY <2>1 DEF Writes
  <2> QED BY <1>1, <2>2, <2>4, <2>5
<1>2. ProcessesInv /\ [Next]_vars
        => [\A p \in Procs : \A f \in Files : Step(p) /\ Lost(f) # {} => handle[p][f].stale]_vars
  BY <1>1
<1> QED BY <1>2, ProcessesInvariant, PTL DEF Spec, OnlyStaleLoses

=============================================================================
