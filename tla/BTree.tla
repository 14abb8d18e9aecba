------------------------------- MODULE BTree --------------------------------
(***************************************************************************)
(* The B-tree index (btree.c): searching and inserting, one node a step.   *)
(* A key is known by its hash.  The pages of the tree stay in the cache,   *)
(* so a node is read as it was written; module Storage models the cache.   *)
(*                                                                         *)
(* The row heap of the executor hangs on the same header.root_page, so     *)
(* execute_insert has pages of rows, and the page of the schemas, read as  *)
(* nodes.  What the first 45 bytes of such a page say as a node:           *)
(*   - of a row page: the deleted flag and the row id of its first slot,   *)
(*     with the id always zero, are num_keys (0 or 1) and is_leaf (false); *)
(*     its next pointer, always zero, is the key; the columns and the      *)
(*     slots behind them are values and children, which may be anything;   *)
(*   - of the schema page: the first letters of a table's name are         *)
(*     num_keys, more than the arrays of a node hold, so what the loops    *)
(*     over the keys read is undefined.                                    *)
(***************************************************************************)
EXTENDS Naturals, Sequences, SequencesExt, FiniteSets, FiniteSetsExt

CONSTANTS
  Hashes,      \* what key_to_hash can return
  Values,      \* page numbers stored with a key
  MaxPages,    \* bound of the model: page ids are 0 .. MaxPages-1
  HeapEnd,     \* bound of the model: row pages are below it
  MaxDepth     \* bound of the model: calls of btree_insert_nonfull that fit on the stack

Order == 4        \* BTREE_ORDER
Mid == Order \div 2

ASSUME BTreeAssumption ==
  /\ Hashes \subseteq Nat
  /\ Values \subseteq Nat \ {0}
  /\ MaxPages \in Nat \ {0, 1}
  /\ HeapEnd \in 2 .. MaxPages
  /\ MaxDepth \in Nat \ {0}

PageIds == 0 .. MaxPages - 1
SchemaPage == 1

\* A page number read from bytes: MaxPages stands for all that are not there.
PageNumbers == 0 .. MaxPages

VARIABLES
  alive,        \* the process runs
  heap_first,   \* the caller is execute_insert, whose root page is a row page
  root,         \* header.root_page
  page_count,   \* header.page_count
  page,         \* what each page says when read as a node
  index_root,   \* index->root_page; no one writes it before the first tree
  call,         \* the call under way, or what the last one answered
  stack,        \* the calls of btree_insert_nonfull: page, and local node once they wait
  first         \* history: the value that each hash was first inserted with

vars == <<alive, heap_first, root, page_count, page, index_root, call, stack, first>>

-----------------------------------------------------------------------------
(* Nodes.  num_keys is the length of keys and values.                      *)

Children == 0 .. Order - 1
NoChildren == [c \in Children |-> 0]

NewNode(is_leaf) ==
  [is_leaf |-> is_leaf, keys |-> <<>>, values |-> <<>>, children |-> NoChildren]

\* A page of zeros, read as a node, is an inner node whose only child is page 0.
ZeroNode == NewNode(FALSE)

\* A node of the tree has keys and values of its own; a row page has zeros, too.
NodeKeys == Hashes \cup {0}
NodeValues == Values \cup {0}

\* A row page, read as a node: no key, or the key 0 when its first slot is
\* marked deleted.  The one child that a hash can lead to is the last of it.
RowNode(child) == [ZeroNode EXCEPT !.children[0] = child]
DeletedRowNode(value, child) ==
  [ZeroNode EXCEPT !.keys = <<0>>, !.values = <<value>>, !.children[1] = child]
RowNodes ==
  {RowNode(p) : p \in PageNumbers} \cup
  {DeletedRowNode(v, p) : v \in NodeValues, p \in PageNumbers}

\* The schema page, read as a node: more keys than a node has.
SchemaNode ==
  [ZeroNode EXCEPT !.keys = [i \in 1 .. Order |-> 0], !.values = [i \in 1 .. Order |-> 0]]

FullTooLate(node) == Len(node.keys) = Order
FullOrMore(node) == Len(node.keys) >= Order - 1
Full(node) == Len(node.keys) = Order - 1

\* The first key that is not below h, counted from 0 as the children are.
SearchIndexPastEqual(node, h) ==
  CHOOSE i \in 0 .. Len(node.keys) :
    /\ \A j \in 1 .. i : node.keys[j] <= h
    /\ i < Len(node.keys) => node.keys[i + 1] > h
SearchIndex(node, h) ==
  CHOOSE i \in 0 .. Len(node.keys) :
    /\ \A j \in 1 .. i : node.keys[j] < h
    /\ i < Len(node.keys) => node.keys[i + 1] >= h

\* A new key goes behind the last one that is not above it.
InsertIndexAtEnd(node, h) == Len(node.keys)
InsertIndexBeforeEqual(node, h) == Max({0} \cup {i \in DOMAIN node.keys : node.keys[i] < h})
InsertIndex(node, h) == Max({0} \cup {i \in DOMAIN node.keys : node.keys[i] <= h})

LeafInsertWithoutFlag(node, h, v) ==
  [node EXCEPT !.keys = InsertAt(@, InsertIndex(node, h) + 1, h),
               !.values = InsertAt(@, InsertIndex(node, h) + 1, v),
               !.is_leaf = FALSE]
LeafInsert(node, h, v) ==
  [node EXCEPT !.keys = InsertAt(@, InsertIndex(node, h) + 1, h),
               !.values = InsertAt(@, InsertIndex(node, h) + 1, v)]

\* The halves of a full node; the key between them moves up.
RightHalfWithMedian(child) ==
  [child EXCEPT !.keys = SubSeq(@, Mid, Order - 1), !.values = SubSeq(@, Mid, Order - 1)]
RightHalf(child) ==
  [is_leaf  |-> child.is_leaf,
   keys     |-> SubSeq(child.keys, Mid + 1, Order - 1),
   values   |-> SubSeq(child.values, Mid + 1, Order - 1),
   children |-> [c \in Children |->
                   IF ~child.is_leaf /\ c < Mid THEN child.children[c + Mid] ELSE 0]]

LeftHalf(child) ==
  [child EXCEPT !.keys = SubSeq(@, 1, Mid - 1), !.values = SubSeq(@, 1, Mid - 1)]

\* The parent after btree_split_child(parent, i, child) put the new node on
\* page n.
ParentOfSplit(parent, i, child, n) ==
  [parent EXCEPT
     !.keys = InsertAt(@, i + 1, child.keys[Mid]),
     !.values = InsertAt(@, i + 1, child.values[Mid]),
     !.children = [c \in Children |-> IF c <= i THEN @[c] ELSE IF c = i + 1 THEN n ELSE @[c - 1]]]

\* sm_get_page returns the page.
Readable(p) == p < page_count

\* The loops over the keys of this page leave its arrays.
Overruns(p) == heap_first /\ p = SchemaPage

-----------------------------------------------------------------------------

NoCall == [kind |-> "none", hash |-> 0, value |-> 0, at |-> 0, new_root |-> ZeroNode]

Nodes == [is_leaf : BOOLEAN, keys : Seq(NodeKeys), values : Seq(NodeValues),
          children : [Children -> PageNumbers]]

\* A node fits its arrays.
Fits(n) == Len(n.keys) = Len(n.values) /\ Len(n.keys) < Order

Calls == [kind : {"none", "search", "answer", "insert", "unwind", "inserted"},
          hash : Hashes \cup {0}, value : Values \cup {0}, at : PageNumbers, new_root : Nodes]

\* Every node fits its arrays and its page, and every local copy does too, but
\* for what the schemas say when read as a node.
TypeOK ==
  /\ alive \in BOOLEAN
  /\ heap_first \in BOOLEAN
  /\ root \in PageIds
  /\ page_count \in 1 .. MaxPages
  /\ page \in [PageIds -> Nodes] /\ \A p \in PageIds : Fits(page[p]) \/ Overruns(p)
  /\ index_root \in 0 .. MaxPages
  /\ call \in Calls /\ Fits(call.new_root)
  /\ stack \in Seq([page : PageIds, node : Nodes]) /\ Len(stack) <= MaxDepth
  /\ \A i \in DOMAIN stack : Fits(stack[i].node) \/ Overruns(stack[i].page)
  /\ first \in [Hashes -> Values \cup {0}]

Init ==
  /\ alive = TRUE
  /\ heap_first \in BOOLEAN
  /\ root = 0
  /\ page_count = IF heap_first THEN SchemaPage + 1 ELSE 1
  /\ page = [p \in PageIds |-> IF Overruns(p) THEN SchemaNode ELSE ZeroNode]
  /\ index_root \in 0 .. MaxPages
  /\ call = NoCall
  /\ stack = <<>>
  /\ first = [h \in Hashes |-> 0]

Idle == alive /\ call.kind \in {"none", "answer", "inserted"}

\* A NULL page read, or the stack grown past its end.
Dies ==
  /\ alive' = FALSE
  /\ call' = NoCall
  /\ stack' = <<>>
  /\ UNCHANGED <<heap_first, root, page_count, page, index_root, first>>

\* btree_create_index, once for each use in execute_insert: root_page is what
\* malloc's memory held.
CreateIndex ==
  /\ Idle
  /\ heap_first
  /\ index_root' \in 0 .. MaxPages
  /\ UNCHANGED <<alive, heap_first, root, page_count, page, call, stack, first>>

\* Any statement of the executor on any table: its rows come to lie on a page
\* of the heap, the root page or one that it allocates, or are deleted there.
HeapPage(p, node) ==
  /\ Idle
  /\ heap_first
  /\ p \in SchemaPage + 1 .. page_count
  /\ p < HeapEnd
  /\ page' = [page EXCEPT ![p] = node]
  /\ page_count' = IF p = page_count THEN page_count + 1 ELSE page_count
  /\ root' = IF root = 0 THEN p ELSE root
  /\ call' = NoCall
  /\ UNCHANGED <<alive, heap_first, index_root, stack, first>>

\* btree_search, up to its loop.
BeginSearch(h) ==
  /\ Idle
  /\ call' = IF root = 0 THEN [NoCall EXCEPT !.kind = "answer", !.hash = h]
             ELSE [NoCall EXCEPT !.kind = "search", !.hash = h, !.at = root]
  /\ UNCHANGED <<alive, heap_first, root, page_count, page, index_root, stack, first>>

\* One round of the loop.
SearchStep ==
  LET node == page[call.at]
      i == SearchIndex(node, call.hash)
  IN /\ alive
     /\ call.kind = "search"
     /\ ~Overruns(call.at)
     /\ call' =
          IF ~Readable(call.at) THEN [call EXCEPT !.kind = "answer"]
          ELSE IF i < Len(node.keys) /\ node.keys[i + 1] = call.hash
          THEN [call EXCEPT !.kind = "answer", !.value = node.values[i + 1]]
          ELSE IF node.is_leaf THEN [call EXCEPT !.kind = "answer"]
          ELSE [call EXCEPT !.at = node.children[i]]
     /\ UNCHANGED <<alive, heap_first, root, page_count, page, index_root, stack, first>>

\* One round of the loop behind the end of the arrays: it can find any value,
\* go to any page, or fault.
SearchOverrun ==
  /\ alive
  /\ call.kind = "search"
  /\ Overruns(call.at)
  /\ \/ /\ \/ \E v \in Values \cup {0} : call' = [call EXCEPT !.kind = "answer", !.value = v]
           \/ \E p \in PageNumbers : call' = [call EXCEPT !.at = p]
        /\ UNCHANGED <<alive, heap_first, root, page_count, page, index_root, stack, first>>
     \/ Dies

Remember(h, v) == first' = [first EXCEPT ![h] = IF @ = 0 THEN v ELSE @]

\* btree_insert, up to btree_insert_nonfull: the first key makes the root; a
\* full root is split under a new one, whose keys are still in a local copy.
BeginInsert(h, v) ==
  LET grow == root = 0
      tree == IF grow THEN [page EXCEPT ![page_count] = NewNode(TRUE)] ELSE page
      top == IF grow THEN page_count ELSE index_root
      count == IF grow THEN page_count + 1 ELSE page_count
      split == Full(tree[top])
      start == [NoCall EXCEPT !.kind = "insert", !.hash = h, !.value = v]
  IN /\ Idle
     /\ heap_first => root # 0
     /\ heap_first \/ page_count + 2 <= MaxPages
     /\ \/ /\ ~grow /\ ~Readable(index_root)
           /\ Dies
        \/ /\ grow \/ Readable(index_root)
           /\ ~split
           /\ root' = IF grow THEN top ELSE root
           /\ index_root' = top
           /\ page' = tree
           /\ page_count' = count
           /\ stack' = <<[page |-> root', node |-> ZeroNode]>>
           /\ call' = start
           /\ Remember(h, v)
           /\ UNCHANGED <<alive, heap_first>>
        \/ /\ grow \/ Readable(index_root)
           /\ split
           /\ root' = count
           /\ index_root' = count
           /\ page_count' = count + 2
           /\ page' = [tree EXCEPT ![count] = ZeroNode,
                                   ![count + 1] = RightHalf(tree[top]),
                                   ![top] = LeftHalf(tree[top])]
           /\ stack' = <<[page |-> count, node |-> ZeroNode]>>
           /\ call' = [start EXCEPT !.new_root =
                         ParentOfSplit([ZeroNode EXCEPT !.children[0] = top], 0,
                                       tree[top], count + 1)]
           /\ Remember(h, v)
           /\ UNCHANGED <<alive, heap_first>>

\* btree_insert_nonfull on a leaf writes the key and begins to return.
InsertIntoLeaf ==
  LET p == Last(stack).page
  IN /\ alive
     /\ call.kind = "insert"
     /\ ~Overruns(p)
     /\ page[p].is_leaf
     /\ page' = [page EXCEPT ![p] = LeafInsert(page[p], call.hash, call.value)]
     /\ stack' = Front(stack)
     /\ call' = [call EXCEPT !.kind = "unwind"]
     /\ UNCHANGED <<alive, heap_first, root, page_count, index_root, first>>

\* The call on page id that the last one makes, which waits with a copy of its
\* node.
Nested(local, id) ==
  Append(Front(stack), [page |-> Last(stack).page, node |-> local])
    \o <<[page |-> id, node |-> ZeroNode]>>

\* btree_insert_nonfull on an inner node calls itself on a child, which it
\* splits first when it is full.
DescendToChild ==
  LET p == Last(stack).page
      node == page[p]
      i == InsertIndex(node, call.hash)
      child == page[node.children[i]]
      parent == ParentOfSplit(node, i, child, page_count)
      j == IF call.hash > parent.keys[i + 1] THEN i + 1 ELSE i
  IN /\ alive
     /\ call.kind = "insert"
     /\ ~Overruns(p)
     /\ ~node.is_leaf
     /\ IF Len(stack) = MaxDepth \/ ~Readable(node.children[i])
        THEN Dies
        ELSE /\ IF Full(child)
                THEN /\ page_count < MaxPages
                     /\ page' = [page EXCEPT ![page_count] = RightHalf(child),
                                             ![node.children[i]] = LeftHalf(child)]
                     /\ page_count' = page_count + 1
                     /\ stack' = Nested(parent, parent.children[j])
                ELSE /\ stack' = Nested(node, node.children[i])
                     /\ UNCHANGED <<page, page_count>>
             /\ UNCHANGED <<alive, heap_first, root, index_root, call, first>>

\* btree_insert_nonfull on the schema page looks for the last key, far behind
\* the end of the arrays.  Where the fifth letter makes the node a leaf the
\* first four name a place that is not in memory; else it can go to any page.
InsertOverrun ==
  /\ alive
  /\ call.kind = "insert"
  /\ Overruns(Last(stack).page)
  /\ \/ \E id \in PageIds :
          /\ Len(stack) < MaxDepth
          /\ Readable(id)
          /\ stack' = Nested(page[SchemaPage], id)
          /\ UNCHANGED <<alive, heap_first, root, page_count, page, index_root, call, first>>
     \/ Dies

\* A return: the caller writes its copy of its node, and btree_insert at last
\* that of the new root.
Unwind ==
  /\ alive
  /\ call.kind = "unwind"
  /\ IF stack # <<>>
     THEN /\ page' = [page EXCEPT ![Last(stack).page] = Last(stack).node]
          /\ stack' = Front(stack)
          /\ UNCHANGED call
     ELSE /\ page' = IF call.new_root = ZeroNode THEN page
                     ELSE [page EXCEPT ![root] = call.new_root]
          /\ call' = [call EXCEPT !.kind = "inserted"]
          /\ UNCHANGED stack
  /\ UNCHANGED <<alive, heap_first, root, page_count, index_root, first>>

Working ==
  SearchStep \/ SearchOverrun \/ InsertIntoLeaf \/ DescendToChild \/ InsertOverrun \/ Unwind

Next ==
  \/ CreateIndex
  \/ \E p \in PageIds : \E node \in RowNodes : HeapPage(p, node)
  \/ \E h \in Hashes : BeginSearch(h) \/ \E v \in Values : BeginInsert(h, v)
  \/ Working

\* A call runs on until it returns.
Spec == Init /\ [][Next]_vars /\ WF_vars(Working)

-----------------------------------------------------------------------------
(* Properties.                                                             *)

\* The keys of every node are in order, so that the scans of btree_search and
\* btree_insert_nonfull stop at the right place.
KeysOrdered ==
  \A p \in PageIds : \A i, j \in DOMAIN page[p].keys :
    i < j => page[p].keys[i] <= page[p].keys[j]

\* A search answers what its hash was first inserted with, and 0 when it never
\* was: keys with one hash are one key to the index.
SearchFindsFirst ==
  (call.kind = "answer" /\ ~heap_first) => call.value = first[call.hash]

\* Splitting a full root loses no key and doubles none, and leaves each on its
\* side of the one that moves up (btree_split_child).
SplitKeepsKeys ==
  [][(call'.kind = "insert" /\ call'.new_root # call.new_root) =>
       LET top == call'.new_root
       IN page[index_root].keys = page'[top.children[0]].keys \o top.keys
                                  \o page'[top.children[1]].keys]_vars

\* The B-tree never writes over rows or schemas: where the root page is a row
\* page, no insert gets as far as writing a node, whatever the rows say when
\* read as nodes and wherever their children lead.
RowsNotOverwritten ==
  [][heap_first /\ call'.kind \in {"insert", "unwind", "inserted"} => page' = page]_vars

\* Every search of a tree comes to an answer.
SearchReturns == (call.kind = "search" /\ ~heap_first) ~> call.kind = "answer"

\* Every insert into a tree whose root is not full returns; one that splits the
\* root goes down before the new root is written, reads zeros there and does not
\* (btree.c:181).
InsertReturns ==
  (call.kind = "insert" /\ ~heap_first /\ call.new_root = ZeroNode) ~> call.kind = "inserted"

\* README.md:141, and executor.c:492 "Update B-Tree index if primary key
\* exists": an INSERT into a table with a primary key returns.
KeyedInsertReturns == (call.kind = "insert" /\ heap_first) ~> call.kind = "inserted"

=============================================================================
