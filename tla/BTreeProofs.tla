----------------------------- MODULE BTreeProofs -----------------------------
(***************************************************************************)
(* Proofs about the B-tree index (module BTree).  The invariant says what  *)
(* trees the program can build: a page is either a leaf or a page of       *)
(* zeros, because a split root is never written back before the insert has *)
(* run out of stack.  So the only tree that answers is a single leaf, and  *)
(* that leaf is right.  Where the pages hold rows and schemas none of them *)
(* reads as a leaf or as a full node, so no insert that goes down from one *)
(* to the next comes to write, and none comes back.                        *)
(***************************************************************************)
EXTENDS BTree, SequenceLemmas

Sorted(keys) == \A i, j \in DOMAIN keys : i < j => keys[i] <= keys[j]

\* The node answers every hash with the value that the map has for it.
Indexed(node, map) ==
  \A h \in Hashes :
    IF map[h] = 0 THEN \A i \in DOMAIN node.keys : node.keys[i] # h
    ELSE \E i \in DOMAIN node.keys : /\ node.keys[i] = h
                                     /\ node.values[i] = map[h]
                                     /\ \A j \in 1 .. i - 1 : node.keys[j] # h

\* A page of an index is a leaf, or nothing was ever written to it; a page of
\* rows or schemas reads as an inner node that is not full.
PagesInv ==
  /\ page[0] = ZeroNode
  /\ \A p \in PageIds : IF heap_first THEN ~page[p].is_leaf /\ ~Full(page[p])
                         ELSE page[p] = ZeroNode \/ page[p].is_leaf

RootInv ==
  /\ root < page_count
  /\ ~heap_first /\ root # 0 => index_root = root

\* An insert under way either is about to write the leaf that is the tree, or
\* goes down a page of zeros, or pages of rows, and never comes back.
InsertInv ==
  /\ call.hash \in Hashes
  /\ call.value \in Values
  /\ stack # <<>>
  /\ root # 0
  /\ \/ heap_first
     \/ page[Last(stack).page] = ZeroNode
     \/ /\ stack = <<[page |-> root, node |-> ZeroNode]>>
        /\ page[root].is_leaf
        /\ Len(page[root].keys) < Order - 1
        /\ call.new_root = ZeroNode
        /\ Indexed(LeafInsert(page[root], call.hash, call.value), first)

SearchInv ==
  /\ call.value = 0
  /\ call.hash \in Hashes
  /\ ~heap_first => root # 0 /\ call.at = root

AnswerInv ==
  /\ call.hash \in Hashes
  /\ ~heap_first => call.value = first[call.hash]

CallInv ==
  /\ call.kind # "insert" => stack = <<>> /\ call.new_root = ZeroNode
  /\ call.kind = "insert" => InsertInv
  /\ call.kind = "search" => SearchInv
  /\ call.kind = "answer" => AnswerInv
  /\ heap_first => call.kind \notin {"unwind", "inserted"}

\* Between inserts the tree is empty or is one leaf that knows every key.
FirstInv ==
  alive /\ ~heap_first =>
    IF root = 0 THEN \A h \in Hashes : first[h] = 0
    ELSE call.kind # "insert" => page[root].is_leaf /\ Indexed(page[root], first)

BTreeInv == TypeOK /\ KeysOrdered /\ PagesInv /\ RootInv /\ CallInv /\ FirstInv

-----------------------------------------------------------------------------
(* The operators on nodes.                                                 *)

\* A new node is empty and has no child but page 0.
LEMMA NewNodeIs ==
  ASSUME NEW leaf \in BOOLEAN
  PROVE  /\ NewNode(leaf) \in Nodes
         /\ Fits(NewNode(leaf))
         /\ NewNode(leaf).is_leaf = leaf
         /\ NewNode(leaf).keys = <<>>
         /\ NewNode(leaf).values = <<>>
         /\ NewNode(leaf).children = NoChildren
<1>1. 0 \in PageNumbers
  BY BTreeAssumption DEF PageNumbers
<1>2. NoChildren \in [Children -> PageNumbers]
  BY <1>1 DEF NoChildren
<1>3. NewNode(leaf) \in Nodes
  BY <1>2 DEF NewNode, Nodes
<1> QED BY <1>3 DEF NewNode, Fits, Order

\* A page of zeros is such a node, and not a leaf.
LEMMA ZeroNodeIs ==
  /\ ZeroNode \in Nodes
  /\ Fits(ZeroNode)
  /\ ~ZeroNode.is_leaf
  /\ ZeroNode.keys = <<>>
  /\ ZeroNode.children[0] = 0
  /\ ~Full(ZeroNode)
<1>1. NoChildren[0] = 0
  BY DEF NoChildren, Children, Order
<1>2. /\ ZeroNode \in Nodes /\ Fits(ZeroNode) /\ ZeroNode.is_leaf = FALSE
      /\ ZeroNode.keys = <<>> /\ ZeroNode.children = NoChildren
  BY NewNodeIs, Zenon DEF ZeroNode
<1>3. Len(<<>>) # Order - 1
  BY DEF Order
<1> QED BY <1>1, <1>2, <1>3, Zenon DEF Full

\* The keys and values of a node stand at the same positions.
LEMMA NodeFields ==
  ASSUME NEW n \in Nodes, Fits(n)
  PROVE  /\ n.is_leaf \in BOOLEAN
         /\ n.keys \in Seq(NodeKeys)
         /\ n.values \in Seq(NodeValues)
         /\ n.children \in [Children -> PageNumbers]
         /\ Len(n.keys) \in Nat
         /\ Len(n.values) = Len(n.keys)
         /\ Len(n.keys) <= 3
         /\ DOMAIN n.keys = 1 .. Len(n.keys)
         /\ \A i \in 1 .. Len(n.keys) : /\ n.keys[i] \in NodeKeys
                                        /\ n.keys[i] \in Nat
                                        /\ n.values[i] \in NodeValues
<1>1. n.keys \in Seq(NodeKeys) /\ n.values \in Seq(NodeValues)
      /\ n.is_leaf \in BOOLEAN /\ n.children \in [Children -> PageNumbers]
  BY DEF Nodes
<1>2. Len(n.keys) \in Nat /\ Len(n.values) = Len(n.keys) /\ Len(n.keys) <= 3
  BY <1>1, LenProperties DEF Fits, Order
<1>3. DOMAIN n.keys = 1 .. Len(n.keys)
      /\ \A i \in 1 .. Len(n.keys) : n.keys[i] \in NodeKeys /\ n.values[i] \in NodeValues
  BY <1>1, <1>2, LenProperties, ElementOfSeq
<1>4. \A k \in NodeKeys : k \in Nat
  BY BTreeAssumption DEF NodeKeys
<1> QED BY <1>1, <1>2, <1>3, <1>4

\* The scan of btree_insert_nonfull stops behind the last key that is not
\* above the new one.
LEMMA InsertIndexIs ==
  ASSUME NEW n \in Nodes, Fits(n), Sorted(n.keys), NEW h \in Hashes
  PROVE  /\ InsertIndex(n, h) \in 0 .. Len(n.keys)
         /\ \A j \in 1 .. InsertIndex(n, h) : n.keys[j] <= h
         /\ \A j \in InsertIndex(n, h) + 1 .. Len(n.keys) : n.keys[j] > h
<1> DEFINE S == {0} \cup {i \in DOMAIN n.keys : n.keys[i] <= h}
           k == InsertIndex(n, h)
<1>1. /\ Len(n.keys) \in Nat /\ h \in Nat /\ DOMAIN n.keys = 1 .. Len(n.keys)
      /\ \A i \in 1 .. Len(n.keys) : n.keys[i] \in Nat
  BY NodeFields, BTreeAssumption
<1>2. S \subseteq 0 .. Len(n.keys) /\ S # {}
  BY <1>1
<1>3. k = Max(S)
  BY DEF InsertIndex
<1>4. k \in S /\ \A j \in S : j <= k
  BY <1>1, <1>2, <1>3, GreatestPosition
<1> HIDE DEF k
<1>5. k \in 0 .. Len(n.keys)
  BY <1>2, <1>4
<1>6. ASSUME NEW j \in 1 .. k PROVE n.keys[j] <= h
  <2>1. k \in 1 .. Len(n.keys) /\ n.keys[k] <= h /\ j \in 1 .. Len(n.keys)
    BY <1>1, <1>4, <1>5
  <2>2. n.keys[j] <= n.keys[k]
    BY <1>1, <2>1 DEF Sorted
  <2> QED BY <1>1, <2>1, <2>2
<1>7. ASSUME NEW j \in k + 1 .. Len(n.keys) PROVE n.keys[j] > h
  BY <1>1, <1>4, <1>5
<1> QED BY <1>5, <1>6, <1>7 DEF k

\* The scan of btree_search stops at the first key that is not below the
\* hash it looks for.
LEMMA SearchIndexIs ==
  ASSUME NEW n \in Nodes, Fits(n), NEW h \in Hashes
  PROVE  /\ SearchIndex(n, h) \in 0 .. Len(n.keys)
         /\ \A j \in 1 .. SearchIndex(n, h) : n.keys[j] < h
         /\ SearchIndex(n, h) < Len(n.keys) => n.keys[SearchIndex(n, h) + 1] >= h
<1> DEFINE L == Len(n.keys)
           S == {i \in 0 .. L : i = L \/ n.keys[i + 1] >= h}
<1>1. L \in Nat /\ h \in Nat /\ \A i \in 1 .. L : n.keys[i] \in Nat
  BY NodeFields, BTreeAssumption
<1> HIDE DEF L
<1>2. S \subseteq Nat /\ S # {}
  BY <1>1
<1>3. PICK i \in S : \A j \in S : i <= j
  BY <1>2, LeastPosition
<1>4. ASSUME NEW j \in 1 .. i PROVE n.keys[j] < h
  <2>1. j - 1 \in 0 .. L /\ j - 1 \notin S /\ j - 1 # L /\ (j - 1) + 1 = j
    BY <1>1, <1>3
  <2>2. ~(n.keys[j] >= h)
    BY <2>1
  <2> QED BY <1>1, <1>3, <2>2
<1>5. /\ i \in 0 .. L
      /\ \A j \in 1 .. i : n.keys[j] < h
      /\ i < L => n.keys[i + 1] >= h
  BY <1>1, <1>3, <1>4
<1>6. SearchIndex(n, h) = CHOOSE m \in 0 .. L :
        /\ \A j \in 1 .. m : n.keys[j] < h
        /\ m < L => n.keys[m + 1] >= h
  BY DEF SearchIndex, L
<1> QED BY <1>5, <1>6, Zenon DEF L

\* What an insert does to a leaf: the new key stands behind those that are not
\* above it, and its value with it.
LEMMA LeafInsertIs ==
  ASSUME NEW n \in Nodes, Fits(n), Sorted(n.keys), Len(n.keys) < Order - 1,
         NEW h \in Hashes, NEW v \in Values
  PROVE  LET m == LeafInsert(n, h, v)
             k == InsertIndex(n, h) + 1
         IN /\ m \in Nodes /\ Fits(m)
            /\ m.is_leaf = n.is_leaf
            /\ Inserted(m.keys, n.keys, k, h)
            /\ Inserted(m.values, n.values, k, v)
<1> DEFINE m == LeafInsert(n, h, v)
           k == InsertIndex(n, h) + 1
           ks == InsertAt(n.keys, k, h)
           vs == InsertAt(n.values, k, v)
<1>1. k \in 1 .. Len(n.keys) + 1
  BY InsertIndexIs, NodeFields
<1>2. /\ n.keys \in Seq(NodeKeys) /\ n.values \in Seq(NodeValues) /\ Len(n.values) = Len(n.keys)
      /\ Len(n.keys) \in Nat /\ Len(n.keys) < 3
  BY NodeFields DEF Order
<1>7. m = [n EXCEPT !.keys = ks, !.values = vs]
  BY DEF LeafInsert
<1>9. h \in NodeKeys /\ v \in NodeValues
  BY DEF NodeKeys, NodeValues
<1> HIDE DEF k, m
<1>3. ks \in Seq(NodeKeys) /\ Inserted(ks, n.keys, k, h)
  BY <1>1, <1>2, <1>9, InsertAtShifts
<1>4. vs \in Seq(NodeValues) /\ Inserted(vs, n.values, k, v)
  <2>1. k \in 1 .. Len(n.values) + 1 /\ Len(n.values) = Len(n.keys)
    BY <1>1, <1>2
  <2> QED BY <1>2, <1>9, <2>1, InsertAtShifts
<1> HIDE DEF ks, vs
<1>5. m \in Nodes /\ m.keys = ks /\ m.values = vs /\ m.is_leaf = n.is_leaf
  BY <1>3, <1>4, <1>7 DEF Nodes
<1>6. Fits(m)
  BY <1>2, <1>3, <1>4, <1>5 DEF Fits, Inserted, Order
<1>8. /\ Inserted(m.keys, n.keys, k, h) /\ Inserted(m.values, n.values, k, v)
  BY <1>3, <1>4, <1>5
<1> QED BY <1>5, <1>6, <1>8 DEF m, k

\* The leaf stays in order.
LEMMA LeafInsertSorted ==
  ASSUME NEW n \in Nodes, Fits(n), Sorted(n.keys), Len(n.keys) < Order - 1,
         NEW h \in Hashes, NEW v \in Values
  PROVE  Sorted(LeafInsert(n, h, v).keys)
<1> DEFINE m == LeafInsert(n, h, v)
           s == n.keys
           t == m.keys
           k == InsertIndex(n, h) + 1
<1>1. m \in Nodes /\ Fits(m) /\ Inserted(t, s, k, h)
  BY LeafInsertIs
<1>2. /\ k \in 1 .. Len(s) + 1 /\ k - 1 = InsertIndex(n, h)
      /\ \A j \in 1 .. k - 1 : s[j] <= h
      /\ \A j \in k .. Len(s) : s[j] > h
  BY InsertIndexIs, NodeFields
<1>3. /\ Len(s) \in Nat /\ s \in Seq(Nat) /\ h \in Nat /\ DOMAIN s = 1 .. Len(s)
      /\ DOMAIN t = 1 .. Len(t)
  <2>1. NodeKeys \subseteq Nat /\ h \in Nat
    BY BTreeAssumption DEF NodeKeys
  <2>2. /\ Len(s) \in Nat /\ s \in Seq(NodeKeys) /\ DOMAIN s = 1 .. Len(s)
        /\ \A i \in 1 .. Len(s) : s[i] \in Nat
    BY NodeFields
  <2>3. DOMAIN t = 1 .. Len(t)
    BY <1>1, NodeFields
  <2> HIDE DEF s, t
  <2>4. s \in Seq(Nat)
    BY <2>1, <2>2
  <2> QED BY <2>1, <2>2, <2>3, <2>4
<1>4. \A i, j \in 1 .. Len(s) : i < j => s[i] <= s[j]
  BY <1>3 DEF Sorted
<1> HIDE DEF m, k, s, t
<1>5. \A i, j \in 1 .. Len(s) + 1 : i < j => t[i] <= t[j]
  BY <1>1, <1>2, <1>3, <1>4, InsertedSorted
<1>6. DOMAIN t = 1 .. Len(s) + 1
  BY <1>1, <1>3 DEF Inserted
<1>7. Sorted(t)
  BY <1>5, <1>6 DEF Sorted
<1> QED BY <1>7 DEF m, t

\* A leaf that knows every key still does when it has the new one as well: a
\* hash that was there before keeps its first value.
LEMMA LeafInsertIndexed ==
  ASSUME NEW n \in Nodes, Fits(n), Sorted(n.keys), Len(n.keys) < Order - 1,
         NEW h \in Hashes, NEW v \in Values,
         NEW map \in [Hashes -> Values \cup {0}], Indexed(n, map)
  PROVE  Indexed(LeafInsert(n, h, v), [map EXCEPT ![h] = IF @ = 0 THEN v ELSE @])
<1> DEFINE m == LeafInsert(n, h, v)
           s == n.keys
           t == m.keys
           vs == n.values
           vt == m.values
           k == InsertIndex(n, h) + 1
           map2 == [map EXCEPT ![h] = IF @ = 0 THEN v ELSE @]
<1>1. m \in Nodes /\ Fits(m) /\ Inserted(t, s, k, h) /\ Inserted(vt, vs, k, v)
  BY LeafInsertIs
<1>2. /\ k \in 1 .. Len(s) + 1 /\ k - 1 = InsertIndex(n, h)
      /\ \A j \in k .. Len(s) : s[j] > h
  BY InsertIndexIs, NodeFields
<1>3. /\ Len(s) \in Nat /\ s \in Seq(NodeKeys) /\ h \in Nat /\ DOMAIN s = 1 .. Len(s)
      /\ vs \in Seq(NodeValues) /\ Len(vs) = Len(s)
      /\ DOMAIN t = 1 .. Len(t) /\ v # 0
  BY <1>1, NodeFields, BTreeAssumption
<1>4. /\ \A g \in Hashes : g # h => map2[g] = map[g]
      /\ map2[h] = IF map[h] = 0 THEN v ELSE map[h]
  OBVIOUS
<1>5. \A g \in Hashes :
        IF map[g] = 0 THEN \A i \in 1 .. Len(s) : s[i] # g
        ELSE \E i \in 1 .. Len(s) : /\ s[i] = g
                                    /\ vs[i] = map[g]
                                    /\ \A j \in 1 .. i - 1 : s[j] # g
  BY <1>3 DEF Indexed
<1> HIDE DEF m, k, map2, s, t, vs, vt
<1>6. DOMAIN t = 1 .. Len(s) + 1
  BY <1>1, <1>3 DEF Inserted
<1>7. /\ t[k] = h /\ vt[k] = v
      /\ \A j \in 1 .. k - 1 : t[j] = s[j] /\ vt[j] = vs[j]
      /\ \A j \in k .. Len(s) : t[j + 1] = s[j] /\ vt[j + 1] = vs[j]
  BY <1>1, <1>3 DEF Inserted
\* Every key of the new leaf is the new one or one of the old leaf.
<1>8. ASSUME NEW i \in 1 .. Len(s) + 1, i # k
      PROVE  \E j \in 1 .. Len(s) : t[i] = s[j]
  <2>1. \/ i < k /\ i \in 1 .. Len(s) /\ t[i] = s[i]
        \/ i = k /\ t[i] = h
        \/ i > k /\ i - 1 \in k .. Len(s) /\ i - 1 \in 1 .. Len(s) /\ t[i] = s[i - 1]
    BY <1>1, <1>2, <1>3, InsertedFrom
  <2> QED BY <1>8, <2>1
<1> SUFFICES ASSUME NEW g \in Hashes
             PROVE  IF map2[g] = 0 THEN \A i \in 1 .. Len(s) + 1 : t[i] # g
                    ELSE \E i \in 1 .. Len(s) + 1 : /\ t[i] = g
                                                    /\ vt[i] = map2[g]
                                                    /\ \A j \in 1 .. i - 1 : t[j] # g
  BY <1>6 DEF Indexed, m, map2, t, vt
<1>9. CASE map[g] = 0
  <2>1. \A i \in 1 .. Len(s) : s[i] # g
    BY <1>5, <1>9
  <2>2. CASE g = h
    <3>1. ASSUME NEW j \in 1 .. k - 1 PROVE t[j] # g
      <4>1. j \in 1 .. Len(s)
        BY <1>2, <1>3
      <4> QED BY <1>7, <2>1, <4>1
    <3> QED BY <1>2, <1>3, <1>4, <1>7, <1>9, <2>2, <3>1
  <2>3. CASE g # h
    <3>1. \A i \in 1 .. Len(s) + 1 : t[i] # g
      BY <1>7, <1>8, <2>1, <2>3
    <3> QED BY <1>4, <1>9, <2>3, <3>1
  <2> QED BY <2>2, <2>3
<1>10. CASE map[g] # 0
  <2>1. PICK i \in 1 .. Len(s) : /\ s[i] = g
                                 /\ vs[i] = map[g]
                                 /\ \A j \in 1 .. i - 1 : s[j] # g
    BY <1>5, <1>10
  <2>2. map2[g] = map[g] /\ map2[g] # 0
    BY <1>4, <1>10
  <2>3. CASE i < k
    <3>1. i \in 1 .. k - 1 /\ i \in 1 .. Len(s) + 1
      BY <1>2, <1>3, <2>3
    <3>2. t[i] = g /\ vt[i] = map2[g]
      BY <1>7, <2>1, <2>2, <3>1
    <3>3. ASSUME NEW j \in 1 .. i - 1 PROVE t[j] # g
      <4>1. j \in 1 .. k - 1
        BY <1>2, <1>3, <2>3
      <4> QED BY <1>7, <2>1, <4>1
    <3> QED BY <2>2, <3>1, <3>2, <3>3
  <2>4. CASE i >= k
    <3>1. i \in k .. Len(s) /\ i + 1 \in 1 .. Len(s) + 1
      BY <1>2, <1>3, <2>4
    <3>2. s[i] > h /\ g # h
      BY <1>2, <1>3, <2>1, <3>1
    <3>3. t[i + 1] = g /\ vt[i + 1] = map2[g]
      BY <1>7, <2>1, <2>2, <3>1
    <3>4. ASSUME NEW j \in 1 .. (i + 1) - 1 PROVE t[j] # g
      <4>1. j \in 1 .. Len(s) + 1
        BY <1>3
      <4>2. CASE j < k
        <5>1. j \in 1 .. k - 1 /\ j \in 1 .. i - 1
          BY <1>2, <1>3, <2>4, <4>2
        <5> QED BY <1>7, <2>1, <5>1
      <4>3. CASE j = k
        BY <1>7, <3>2, <4>3
      <4>4. CASE j > k
        <5>1. j - 1 \in k .. Len(s) /\ j - 1 \in 1 .. i - 1 /\ (j - 1) + 1 = j
          BY <1>2, <1>3, <4>4
        <5>2. t[(j - 1) + 1] = s[j - 1]
          BY <1>7, <5>1
        <5> QED BY <2>1, <5>1, <5>2
      <4> QED BY <1>2, <4>2, <4>3, <4>4
    <3> QED BY <2>2, <3>1, <3>3, <3>4
  <2> QED BY <1>2, <2>3, <2>4
<1> QED BY <1>9, <1>10

\* The halves of a full leaf and the key between them are the keys it had.
LEMMA HalvesAre ==
  ASSUME NEW n \in Nodes, Fits(n), Full(n), n.is_leaf, Sorted(n.keys)
  PROVE  /\ LeftHalf(n) \in Nodes /\ Fits(LeftHalf(n)) /\ LeftHalf(n).is_leaf
         /\ RightHalf(n) \in Nodes /\ Fits(RightHalf(n)) /\ RightHalf(n).is_leaf
         /\ LeftHalf(n).keys = <<n.keys[1]>>
         /\ RightHalf(n).keys = <<n.keys[3]>>
         /\ n.keys = <<n.keys[1], n.keys[2], n.keys[3]>>
<1>1. /\ n.is_leaf \in BOOLEAN /\ n.keys \in Seq(NodeKeys) /\ n.values \in Seq(NodeValues)
      /\ n.children \in [Children -> PageNumbers]
      /\ Len(n.keys) = 3 /\ Len(n.values) = 3 /\ DOMAIN n.keys = 1 .. 3
  BY NodeFields DEF Full, Order
<1>2. \A i \in 1 .. 3 : n.keys[i] \in NodeKeys /\ n.values[i] \in NodeValues
  BY <1>1, NodeFields
<1>3. /\ SubSeq(n.keys, 1, 1) = <<n.keys[1]>> /\ SubSeq(n.values, 1, 1) = <<n.values[1]>>
      /\ SubSeq(n.keys, 3, 3) = <<n.keys[3]>> /\ SubSeq(n.values, 3, 3) = <<n.values[3]>>
  <2>1. 1 \in 1 .. 3 /\ 3 \in 1 .. 3
    OBVIOUS
  <2> QED BY <1>1, <2>1, OneElement
<1>4. n.keys = <<n.keys[1], n.keys[2], n.keys[3]>>
  BY <1>1, <1>2
<1>5. /\ LeftHalf(n) \in Nodes /\ Fits(LeftHalf(n)) /\ LeftHalf(n).is_leaf
      /\ LeftHalf(n).keys = <<n.keys[1]>>
  <2>1. LeftHalf(n) = [n EXCEPT !.keys = <<n.keys[1]>>, !.values = <<n.values[1]>>]
    <3>1. Mid - 1 = 1
      BY DEF Mid, Order
    <3> QED BY <1>3, <3>1 DEF LeftHalf
  <2>2. <<n.keys[1]>> \in Seq(NodeKeys) /\ <<n.values[1]>> \in Seq(NodeValues)
    BY <1>2
  <2>3. /\ LeftHalf(n) \in Nodes /\ LeftHalf(n).is_leaf = n.is_leaf
        /\ LeftHalf(n).keys = <<n.keys[1]>> /\ LeftHalf(n).values = <<n.values[1]>>
    BY <2>1, <2>2 DEF Nodes
  <2> QED BY <2>3 DEF Fits, Order
<1>6. /\ RightHalf(n) \in Nodes /\ Fits(RightHalf(n)) /\ RightHalf(n).is_leaf
      /\ RightHalf(n).keys = <<n.keys[3]>>
  <2>1. 0 \in PageNumbers
    BY BTreeAssumption DEF PageNumbers
  <2>2. RightHalf(n) = [is_leaf  |-> n.is_leaf,
                        keys     |-> <<n.keys[3]>>,
                        values   |-> <<n.values[3]>>,
                        children |-> NoChildren]
    <3>1. Mid + 1 = 3 /\ Order - 1 = 3
      BY DEF Mid, Order
    <3>2. [c \in Children |-> IF ~n.is_leaf /\ c < Mid THEN n.children[c + Mid] ELSE 0]
            = NoChildren
      BY DEF NoChildren
    <3> QED BY <1>3, <3>1, <3>2, Zenon DEF RightHalf
  <2>3. NoChildren \in [Children -> PageNumbers]
    BY <2>1 DEF NoChildren
  <2>4. <<n.keys[3]>> \in Seq(NodeKeys) /\ <<n.values[3]>> \in Seq(NodeValues)
    BY <1>2
  <2>5. RightHalf(n) \in Nodes
    BY <1>1, <2>2, <2>3, <2>4 DEF Nodes
  <2> QED BY <2>2, <2>5 DEF Fits, Order
<1> QED BY <1>4, <1>5, <1>6

\* The new root over the halves holds the key between them.
LEMMA ParentIs ==
  ASSUME NEW n \in Nodes, Fits(n), Full(n), NEW l \in PageNumbers, NEW r \in PageNumbers
  PROVE  LET top == ParentOfSplit([ZeroNode EXCEPT !.children[0] = l], 0, n, r)
         IN /\ top \in Nodes /\ Fits(top)
            /\ top.keys = <<n.keys[2]>>
            /\ top.children[0] = l /\ top.children[1] = r
<1> DEFINE base == [ZeroNode EXCEPT !.children[0] = l]
           top == ParentOfSplit(base, 0, n, r)
           kids == [c \in Children |-> IF c <= 0 THEN base.children[c]
                                       ELSE IF c = 0 + 1 THEN r ELSE base.children[c - 1]]
<1>1. /\ n.keys[2] \in NodeKeys /\ n.values[2] \in NodeValues
  BY NodeFields DEF Full, Order
<1>2. 0 \in Children /\ \A c \in Children : ~(c <= 0) => c - 1 \in Children
  BY DEF Children, Order
<1>3. /\ base \in Nodes /\ base.keys = <<>> /\ base.values = <<>>
      /\ base.children \in [Children -> PageNumbers] /\ base.children[0] = l
  <2>1. ZeroNode \in Nodes /\ ZeroNode.keys = <<>> /\ ZeroNode.values = <<>>
    BY NewNodeIs, Zenon DEF ZeroNode
  <2> HIDE DEF ZeroNode
  <2> QED BY <1>2, <2>1 DEF Nodes
<1> HIDE DEF base
<1>4. kids \in [Children -> PageNumbers] /\ kids[0] = l /\ kids[1] = r
  BY <1>2, <1>3 DEF Children, Order
<1>5. InsertAt(<<>>, 0 + 1, n.keys[2]) = <<n.keys[2]>>
      /\ InsertAt(<<>>, 0 + 1, n.values[2]) = <<n.values[2]>>
  <2>1. 0 + 1 = 1
    OBVIOUS
  <2> QED BY <1>1, <2>1, InsertIntoEmpty
<1>6. top = [base EXCEPT !.keys = <<n.keys[2]>>, !.values = <<n.values[2]>>, !.children = kids]
  <2>1. Mid = 2
    BY DEF Mid, Order
  <2>2. top = [base EXCEPT !.keys = InsertAt(base.keys, 0 + 1, n.keys[2]),
                           !.values = InsertAt(base.values, 0 + 1, n.values[2]),
                           !.children = kids]
    BY <1>3, <2>1 DEF ParentOfSplit
  <2> QED BY <1>3, <1>5, <2>2
<1> HIDE DEF kids, top
<1>7. <<n.keys[2]>> \in Seq(NodeKeys) /\ <<n.values[2]>> \in Seq(NodeValues)
  BY <1>1
<1>8. /\ top \in Nodes /\ top.keys = <<n.keys[2]>> /\ top.values = <<n.values[2]>>
      /\ top.children = kids
  BY <1>3, <1>4, <1>6, <1>7 DEF Nodes
<1>9. Fits(top)
  BY <1>8 DEF Fits, Order
<1> QED BY <1>4, <1>8, <1>9 DEF top, base

\* A node of at most one key is in order.
LEMMA ShortSorted == Sorted(<<>>) /\ \A e : Sorted(<<e>>)
BY DEF Sorted

\* An empty leaf knows every key of a tree that has none.
LEMMA EmptyIndexed ==
  ASSUME NEW map, \A h \in Hashes : map[h] = 0, NEW leaf \in BOOLEAN
  PROVE  Indexed(NewNode(leaf), map)
<1>1. DOMAIN NewNode(leaf).keys = {}
  BY NewNodeIs
<1> QED BY <1>1 DEF Indexed

-----------------------------------------------------------------------------
(* The steps.                                                              *)

\* The bounds of the model are numbers.
LEMMA PagesAre ==
  /\ 0 \in PageIds
  /\ \A p \in PageIds : p \in Nat /\ p < MaxPages
  /\ \A p \in Nat : p < MaxPages => p \in PageIds
  /\ \A p \in PageIds : p \in PageNumbers
  /\ \A p \in PageNumbers : p \in Nat /\ p <= MaxPages
  /\ MaxPages \in Nat /\ MaxDepth \in Nat /\ 1 <= MaxDepth /\ 2 <= MaxPages
BY BTreeAssumption DEF PageIds, PageNumbers

\* Between calls nothing is under way.
LEMMA NoCallIs ==
  /\ NoCall \in Calls /\ NoCall.kind = "none"
  /\ NoCall.hash = 0 /\ NoCall.value = 0 /\ NoCall.at = 0 /\ NoCall.new_root = ZeroNode
<1> HIDE DEF ZeroNode
<1> QED BY ZeroNodeIs, PagesAre DEF NoCall, Calls

Frames == [page : PageIds, node : Nodes]
Frame(p, n) == [page |-> p, node |-> n]
Fit(f) == Fits(f.node) \/ Overruns(f.page)
FitAll(s) == \A i \in DOMAIN s : Fit(s[i])

\* The first call of btree_insert_nonfull.
LEMMA OneCall ==
  ASSUME NEW p \in PageIds
  PROVE  /\ <<Frame(p, ZeroNode)>> \in Seq(Frames)
         /\ Len(<<Frame(p, ZeroNode)>>) = 1
         /\ FitAll(<<Frame(p, ZeroNode)>>)
         /\ Last(<<Frame(p, ZeroNode)>>).page = p
         /\ Front(<<Frame(p, ZeroNode)>>) = <<>>
<1> DEFINE f == Frame(p, ZeroNode)
<1>1. f \in Frames /\ f.page = p /\ Fit(f)
  <2> HIDE DEF ZeroNode
  <2> QED BY ZeroNodeIs DEF Frame, Frames, Fit
<1> HIDE DEF f
<1>2. Last(<<f>>) = f /\ Front(<<f>>) = <<>>
  BY DEF Last, Front
<1>3. FitAll(<<f>>)
  BY <1>1 DEF FitAll
<1>4. <<f>> \in Seq(Frames) /\ Len(<<f>>) = 1
  BY <1>1
<1> QED BY <1>1, <1>2, <1>3, <1>4 DEF f

\* The call that runs is the last one.
LEMMA LastFrame ==
  ASSUME NEW s \in Seq(Frames), s # <<>>
  PROVE  Last(s) \in Frames /\ Last(s).page \in PageIds
<1>1. Len(s) \in Nat /\ Len(s) >= 1
  BY LenProperties, EmptySeq
<1>2. Last(s) \in Frames
  BY <1>1, ElementOfSeq DEF Last
<1> QED BY <1>2 DEF Frames

\* A call of btree_insert_nonfull by itself.
LEMMA DeeperCall ==
  ASSUME NEW s \in Seq(Frames), s # <<>>, FitAll(s),
         NEW p \in PageIds, NEW q \in PageIds, NEW n \in Nodes, Fits(n) \/ Overruns(p)
  PROVE  LET t == Append(Front(s), Frame(p, n)) \o <<Frame(q, ZeroNode)>>
         IN /\ t \in Seq(Frames) /\ Len(t) = Len(s) + 1
            /\ FitAll(t) /\ t # <<>> /\ Last(t).page = q
<1> DEFINE a == Front(s)
           f == Frame(p, n)
           g == Frame(q, ZeroNode)
           b == Append(a, f)
           t == b \o <<g>>
<1>1. f \in Frames /\ g \in Frames /\ Fit(f) /\ Fit(g) /\ g.page = q
  <2> HIDE DEF ZeroNode
  <2> QED BY ZeroNodeIs DEF Frame, Frames, Fit
<1> HIDE DEF f, g
<1>2. Len(s) \in Nat /\ Len(s) >= 1 /\ DOMAIN s = 1 .. Len(s)
      /\ \A i \in 1 .. Len(s) : s[i] \in Frames
  BY LenProperties, EmptySeq, ElementOfSeq
<1>3. a \in Seq(Frames) /\ Len(a) = Len(s) - 1 /\ \A i \in 1 .. Len(s) - 1 : a[i] = s[i]
  BY <1>2, SubSeqProperties DEF Front
<1> HIDE DEF a
<1>4. b \in Seq(Frames) /\ Len(b) = Len(s)
      /\ \A i \in 1 .. Len(s) : b[i] = IF i < Len(s) THEN s[i] ELSE f
  <2>1. /\ b \in Seq(Frames) /\ Len(b) = Len(a) + 1 /\ b[Len(a) + 1] = f
        /\ \A i \in 1 .. Len(a) : b[i] = a[i]
    BY <1>1, <1>3, AppendProperties
  <2> HIDE DEF b
  <2>2. Len(a) = Len(s) - 1 /\ Len(b) = Len(s) /\ b[Len(s)] = f
    BY <1>2, <1>3, <2>1
  <2>3. \A i \in 1 .. Len(s) - 1 : b[i] = s[i]
    BY <1>3, <2>1, <2>2
  <2> QED BY <1>2, <2>1, <2>2, <2>3
<1> HIDE DEF b
<1>5. t \in Seq(Frames) /\ Len(t) = Len(s) + 1 /\ DOMAIN t = 1 .. Len(s) + 1
      /\ \A i \in 1 .. Len(s) + 1 : t[i] = IF i <= Len(s) THEN b[i] ELSE g
  BY <1>1, <1>2, <1>4
<1> HIDE DEF t
<1>6. FitAll(t)
  <2> SUFFICES ASSUME NEW i \in 1 .. Len(s) + 1 PROVE Fit(t[i])
    BY <1>5 DEF FitAll
  <2>1. CASE i <= Len(s)
    <3>1. i \in 1 .. Len(s) /\ t[i] = b[i]
      BY <1>2, <1>5, <2>1
    <3>2. CASE i < Len(s)
      <4>1. t[i] = s[i]
        BY <1>4, <3>1, <3>2
      <4> QED BY <1>2, <3>1, <4>1 DEF FitAll
    <3>3. CASE i = Len(s)
      <4>1. t[i] = f
        BY <1>4, <3>1, <3>3
      <4> QED BY <1>1, <4>1
    <3>4. i < Len(s) \/ i = Len(s)
      <4>1. Len(s) \in Nat
        BY <1>2
      <4> QED BY <2>1, <4>1
    <3> QED BY <3>2, <3>3, <3>4, Zenon
  <2>2. CASE i = Len(s) + 1
    <3>1. t[i] = g
      BY <1>2, <1>5, <2>2
    <3> QED BY <1>1, <3>1
  <2> QED BY <1>2, <2>1, <2>2
<1>7. Last(t) = g
  BY <1>2, <1>5 DEF Last
<1>8. t # <<>>
  BY <1>2, <1>5, EmptySeq
<1> QED BY <1>1, <1>5, <1>6, <1>7, <1>8 DEF t, b, a, f, g

\* A row page reads as an inner node with at most one key, the schema page as
\* one that is beyond full.
LEMMA RowNodeIs ==
  ASSUME NEW n \in RowNodes
  PROVE  n \in Nodes /\ Fits(n) /\ ~n.is_leaf /\ ~Full(n) /\ Sorted(n.keys)
<1>1. /\ ZeroNode \in Nodes /\ ~ZeroNode.is_leaf /\ ZeroNode.keys = <<>> /\ ZeroNode.values = <<>>
      /\ 0 \in NodeKeys
  BY NewNodeIs, Zenon DEF ZeroNode, NodeKeys
<1> HIDE DEF ZeroNode
<1>2. ASSUME NEW p \in PageNumbers, n = RowNode(p)
      PROVE  n \in Nodes /\ Fits(n) /\ ~n.is_leaf /\ ~Full(n) /\ Sorted(n.keys)
  <2>1. n \in Nodes /\ ~n.is_leaf /\ n.keys = <<>> /\ n.values = <<>>
    BY <1>1, <1>2 DEF RowNode, Nodes
  <2> QED BY <2>1, ShortSorted DEF Fits, Full, Order
<1>3. ASSUME NEW v \in NodeValues, NEW p \in PageNumbers, n = DeletedRowNode(v, p)
      PROVE  n \in Nodes /\ Fits(n) /\ ~n.is_leaf /\ ~Full(n) /\ Sorted(n.keys)
  <2> DEFINE kids == [ZeroNode.children EXCEPT ![1] = p]
  <2>4. kids \in [Children -> PageNumbers]
    BY <1>1 DEF Nodes
  <2>5. <<0>> \in Seq(NodeKeys) /\ <<v>> \in Seq(NodeValues)
    BY <1>1
  <2> HIDE DEF kids
  <2>2. kids \in [Children -> PageNumbers] /\ <<0>> \in Seq(NodeKeys) /\ <<v>> \in Seq(NodeValues)
    BY <2>4, <2>5
  <2>3. n = [ZeroNode EXCEPT !.keys = <<0>>, !.values = <<v>>, !.children = kids]
    BY <1>1, <1>3 DEF DeletedRowNode, Nodes, kids
  <2>1. n \in Nodes /\ ~n.is_leaf /\ n.keys = <<0>> /\ n.values = <<v>>
    BY <1>1, <2>2, <2>3 DEF Nodes
  <2> QED BY <2>1, ShortSorted DEF Fits, Full, Order
<1> QED BY <1>2, <1>3 DEF RowNodes

LEMMA SchemaNodeIs ==
  /\ SchemaNode \in Nodes
  /\ ~SchemaNode.is_leaf
  /\ ~Full(SchemaNode)
  /\ Sorted(SchemaNode.keys)
<1> DEFINE zeros == [i \in 1 .. Order |-> 0]
<1>1. /\ ZeroNode \in Nodes /\ ~ZeroNode.is_leaf /\ 0 \in NodeKeys /\ 0 \in NodeValues
  BY NewNodeIs, Zenon DEF ZeroNode, NodeKeys, NodeValues
<1> HIDE DEF ZeroNode
<1>2. zeros \in Seq(NodeKeys) /\ zeros \in Seq(NodeValues) /\ Len(zeros) = 4 /\ Sorted(zeros)
  BY <1>1 DEF Order, Sorted
<1> HIDE DEF zeros
<1>3. SchemaNode = [ZeroNode EXCEPT !.keys = zeros, !.values = zeros]
  BY DEF SchemaNode, zeros
<1>4. SchemaNode \in Nodes /\ ~SchemaNode.is_leaf /\ SchemaNode.keys = zeros
  BY <1>1, <1>2, <1>3 DEF Nodes
<1>5. ~Full(SchemaNode)
  <2>1. Len(SchemaNode.keys) = 4
    BY <1>2, <1>4
  <2>2. 4 # Order - 1
    BY DEF Order
  <2> QED BY <2>1, <2>2, Zenon DEF Full
<1>6. Sorted(SchemaNode.keys)
  BY <1>2, <1>4, Zenon
<1> QED BY <1>4, <1>5, <1>6, Zenon

\* The invariant holds of a fresh tree, and of a database with schemas and no rows.
LEMMA InitBTreeInv == Init => BTreeInv
<1> SUFFICES ASSUME Init PROVE BTreeInv
  OBVIOUS
<1>1. /\ alive = TRUE /\ heap_first \in BOOLEAN /\ root = 0
      /\ page_count = IF heap_first THEN SchemaPage + 1 ELSE 1
      /\ page = [p \in PageIds |-> IF Overruns(p) THEN SchemaNode ELSE ZeroNode]
      /\ index_root \in 0 .. MaxPages
      /\ call = NoCall /\ stack = <<>> /\ first = [h \in Hashes |-> 0]
  BY DEF Init
<1> HIDE DEF ZeroNode, NoCall, SchemaNode
<1>2. page_count \in 1 .. MaxPages
  BY <1>1, PagesAre DEF SchemaPage
<1>3. ZeroNode \in Nodes /\ Fits(ZeroNode) /\ ~ZeroNode.is_leaf /\ ~Full(ZeroNode)
      /\ Sorted(ZeroNode.keys)
  BY ZeroNodeIs, ShortSorted
<1>4. ~Overruns(0) /\ \A p \in PageIds : Overruns(p) => heap_first
  BY DEF Overruns, SchemaPage
<1>5. TypeOK
  <2>1. page \in [PageIds -> Nodes] /\ \A p \in PageIds : Fits(page[p]) \/ Overruns(p)
    BY <1>1, <1>3, SchemaNodeIs
  <2>2. call \in Calls /\ Fits(call.new_root)
    BY <1>1, NoCallIs, ZeroNodeIs
  <2>3. stack \in Seq(Frames) /\ Len(stack) = 0 /\ DOMAIN stack = {}
    BY <1>1
  <2>4. first \in [Hashes -> Values \cup {0}]
    BY <1>1
  <2>5. root \in PageIds /\ Len(stack) <= MaxDepth
    BY <1>1, <2>3, PagesAre
  <2> QED BY <1>1, <1>2, <2>1, <2>2, <2>3, <2>4, <2>5, Zenon DEF TypeOK, Frames
<1>6. KeysOrdered
  <2>1. \A p \in PageIds : Sorted(page[p].keys)
    BY <1>1, <1>3, SchemaNodeIs
  <2> QED BY <2>1 DEF KeysOrdered, Sorted
<1>7. PagesInv
  BY <1>1, <1>3, <1>4, SchemaNodeIs, PagesAre DEF PagesInv
<1>8. RootInv
  BY <1>1, <1>2 DEF RootInv
<1>9. CallInv
  BY <1>1, NoCallIs DEF CallInv
<1>10. FirstInv
  BY <1>1 DEF FirstInv
<1> QED BY <1>5, <1>6, <1>7, <1>8, <1>9, <1>10 DEF BTreeInv

\* A dead process leaves the pages as they are.
LEMMA DeathKeepsInv ==
  ASSUME BTreeInv, Dies
  PROVE  BTreeInv'
<1> HIDE DEF NoCall
<1>1. /\ alive' = FALSE /\ call' = NoCall /\ stack' = <<>>
      /\ UNCHANGED <<heap_first, root, page_count, page, index_root, first>>
  BY DEF Dies
<1>2. TypeOK'
  <2>1. call' \in Calls /\ Fits(call'.new_root)
    BY <1>1, NoCallIs, ZeroNodeIs
  <2>2. stack' \in Seq(Frames) /\ Len(stack') = 0 /\ DOMAIN stack' = {}
    BY <1>1
  <2>3. Len(stack') <= MaxDepth
    BY <2>2, PagesAre
  <2> QED BY <1>1, <2>1, <2>2, <2>3 DEF BTreeInv, TypeOK, Frames, Overruns
<1>3. KeysOrdered' /\ PagesInv' /\ RootInv' /\ FirstInv'
  BY <1>1 DEF BTreeInv, KeysOrdered, PagesInv, RootInv, FirstInv
<1>4. CallInv'
  BY <1>1, NoCallIs DEF CallInv
<1> QED BY <1>2, <1>3, <1>4 DEF BTreeInv

\* A new index is not yet of any tree.
LEMMA CreateIndexKeepsInv ==
  ASSUME BTreeInv, CreateIndex
  PROVE  BTreeInv'
<1>1. /\ Idle /\ heap_first /\ index_root' \in 0 .. MaxPages
      /\ UNCHANGED <<alive, heap_first, root, page_count, page, call, stack, first>>
  BY DEF CreateIndex
<1>2. TypeOK'
  BY <1>1 DEF BTreeInv, TypeOK, Overruns
<1>3. KeysOrdered' /\ PagesInv' /\ RootInv' /\ FirstInv'
  BY <1>1 DEF BTreeInv, KeysOrdered, PagesInv, RootInv, FirstInv
<1>4. CallInv'
  BY <1>1 DEF BTreeInv, CallInv, Idle, SearchInv, AnswerInv
<1> QED BY <1>2, <1>3, <1>4 DEF BTreeInv

\* The rows of a statement make no page a leaf and none full.
LEMMA HeapKeepsInv ==
  ASSUME BTreeInv, NEW p \in PageIds, NEW node \in RowNodes, HeapPage(p, node)
  PROVE  BTreeInv'
<1> HIDE DEF NoCall, ZeroNode
<1>1. /\ Idle /\ heap_first /\ p \in SchemaPage + 1 .. page_count /\ p < HeapEnd
      /\ page' = [page EXCEPT ![p] = node]
      /\ page_count' = IF p = page_count THEN page_count + 1 ELSE page_count
      /\ root' = IF root = 0 THEN p ELSE root
      /\ call' = NoCall
      /\ UNCHANGED <<alive, heap_first, index_root, stack, first>>
  BY DEF HeapPage
<1>2. /\ page \in [PageIds -> Nodes] /\ \A q \in PageIds : Fits(page[q]) \/ Overruns(q)
      /\ page_count \in 1 .. MaxPages /\ root \in PageIds /\ root < page_count
      /\ stack = <<>>
  BY <1>1 DEF BTreeInv, TypeOK, RootInv, CallInv, Idle
<1>3. root' \in PageIds /\ page_count' \in 1 .. MaxPages /\ root' < page_count' /\ p # 0
  <2>1. HeapEnd <= MaxPages /\ HeapEnd \in Nat
    BY BTreeAssumption
  <2> QED BY <1>1, <1>2, <2>1, PagesAre DEF SchemaPage
<1>4. /\ node \in Nodes /\ Fits(node) /\ ~node.is_leaf /\ ~Full(node) /\ Sorted(node.keys)
  BY RowNodeIs
<1>5. /\ page' \in [PageIds -> Nodes] /\ page'[p] = node
      /\ \A q \in PageIds : q # p => page'[q] = page[q]
  BY <1>1, <1>2, <1>4
<1>6. TypeOK'
  <2>1. \A q \in PageIds : Fits(page'[q]) \/ Overruns(q)'
    BY <1>1, <1>2, <1>4, <1>5 DEF Overruns
  <2>2. call' \in Calls /\ Fits(call'.new_root)
    BY <1>1, NoCallIs, ZeroNodeIs
  <2>3. stack' \in Seq(Frames) /\ Len(stack') = 0 /\ DOMAIN stack' = {}
    BY <1>1, <1>2
  <2>4. Len(stack') <= MaxDepth
    BY <2>3, PagesAre
  <2> QED BY <1>1, <1>3, <1>5, <2>1, <2>2, <2>3, <2>4 DEF BTreeInv, TypeOK, Frames
<1>7. KeysOrdered'
  <2>1. \A q \in PageIds : Sorted(page'[q].keys)
    BY <1>4, <1>5 DEF BTreeInv, KeysOrdered, Sorted
  <2> QED BY <2>1 DEF KeysOrdered, Sorted
<1>8. PagesInv' /\ RootInv' /\ FirstInv'
  BY <1>1, <1>3, <1>4, <1>5, PagesAre DEF BTreeInv, PagesInv, RootInv, FirstInv
<1>9. CallInv'
  BY <1>1, <1>2, NoCallIs DEF CallInv
<1> QED BY <1>6, <1>7, <1>8, <1>9 DEF BTreeInv

\* A search begins at the root, if there is one.
LEMMA BeginSearchKeepsInv ==
  ASSUME BTreeInv, NEW h \in Hashes, BeginSearch(h)
  PROVE  BTreeInv'
<1> HIDE DEF NoCall
<1>1. /\ alive /\ call.kind \in {"none", "answer", "inserted"}
      /\ UNCHANGED <<alive, heap_first, root, page_count, page, index_root, stack, first>>
  BY DEF BeginSearch, Idle
<1>2. \/ root = 0 /\ call' = [NoCall EXCEPT !.kind = "answer", !.hash = h]
      \/ root # 0 /\ call' = [NoCall EXCEPT !.kind = "search", !.hash = h, !.at = root]
  BY DEF BeginSearch
<1>3. root \in PageNumbers
  BY PagesAre DEF BTreeInv, TypeOK
<1>4. /\ call' \in Calls /\ call'.new_root = ZeroNode
      /\ call'.hash = h /\ call'.value = 0
      /\ \/ root = 0 /\ call'.kind = "answer"
         \/ root # 0 /\ call'.kind = "search" /\ call'.at = root
  BY <1>2, <1>3, NoCallIs DEF Calls
<1>5. TypeOK'
  <2>1. Fits(call'.new_root)
    BY <1>4, ZeroNodeIs
  <2> QED BY <1>1, <1>4, <2>1 DEF BTreeInv, TypeOK, Overruns
<1>6. KeysOrdered' /\ PagesInv' /\ RootInv' /\ FirstInv'
  BY <1>1, <1>4 DEF BTreeInv, KeysOrdered, PagesInv, RootInv, FirstInv
<1>7. CallInv'
  <2>1. stack' = <<>>
    BY <1>1 DEF BTreeInv, CallInv
  <2>2. root = 0 /\ ~heap_first => first[h] = 0
    BY <1>1 DEF BTreeInv, FirstInv
  <2> QED BY <1>1, <1>4, <2>1, <2>2 DEF CallInv, SearchInv, AnswerInv
<1> QED BY <1>5, <1>6, <1>7 DEF BTreeInv

\* A search of rows and schemas can go anywhere and answer anything.
LEMMA RowSearchKeepsInv ==
  ASSUME BTreeInv, heap_first, alive, call.kind = "search",
         call' \in Calls, call'.new_root = ZeroNode, call'.hash = call.hash,
         call'.kind = "answer" \/ (call'.kind = "search" /\ call'.value = 0),
         UNCHANGED <<alive, heap_first, root, page_count, page, index_root, stack, first>>
  PROVE  BTreeInv'
<1> HIDE DEF ZeroNode
<1>1. stack = <<>> /\ call.hash \in Hashes
  BY DEF BTreeInv, CallInv, SearchInv
<1>2. TypeOK'
  BY ZeroNodeIs DEF BTreeInv, TypeOK, Overruns
<1>3. KeysOrdered' /\ PagesInv' /\ RootInv' /\ FirstInv'
  BY DEF BTreeInv, KeysOrdered, PagesInv, RootInv, FirstInv
<1>4. CallInv'
  BY <1>1 DEF CallInv, SearchInv, AnswerInv
<1> QED BY <1>2, <1>3, <1>4 DEF BTreeInv

\* So does the scan of such a page.
LEMMA RowSearchStep ==
  ASSUME BTreeInv, heap_first, SearchStep
  PROVE  BTreeInv'
<1> DEFINE node == page[call.at]
           i == SearchIndex(node, call.hash)
<1> HIDE DEF ZeroNode
<1>1. /\ alive /\ call.kind = "search" /\ ~Overruns(call.at)
      /\ UNCHANGED <<alive, heap_first, root, page_count, page, index_root, stack, first>>
      /\ call' = IF ~Readable(call.at) THEN [call EXCEPT !.kind = "answer"]
                 ELSE IF i < Len(node.keys) /\ node.keys[i + 1] = call.hash
                 THEN [call EXCEPT !.kind = "answer", !.value = node.values[i + 1]]
                 ELSE IF node.is_leaf THEN [call EXCEPT !.kind = "answer"]
                 ELSE [call EXCEPT !.at = node.children[i]]
  BY DEF SearchStep
<1>2. /\ call \in Calls /\ call.new_root = ZeroNode /\ call.value = 0 /\ call.hash \in Hashes
  BY <1>1 DEF BTreeInv, TypeOK, CallInv, SearchInv
<1>3. CASE ~Readable(call.at)
  <2>1. call' = [call EXCEPT !.kind = "answer"]
    BY <1>1, <1>3
  <2>2. call' \in Calls /\ call'.new_root = ZeroNode /\ call'.hash = call.hash
        /\ call'.kind = "answer"
    BY <1>2, <2>1 DEF Calls
  <2> QED BY <1>1, <2>2, RowSearchKeepsInv
<1>4. CASE Readable(call.at)
  <2>1. call.at \in PageIds
    <3>1. call.at \in PageNumbers /\ page_count \in 1 .. MaxPages
      BY <1>2 DEF BTreeInv, TypeOK, Calls
    <3> QED BY <1>4, <3>1, PagesAre DEF Readable
  <2>2. node \in Nodes /\ Fits(node)
    BY <1>1, <2>1 DEF BTreeInv, TypeOK
  <2>3. i \in 0 .. Len(node.keys)
    BY <1>2, <2>2, SearchIndexIs
  <2>4. /\ Len(node.keys) \in Nat /\ Len(node.keys) <= 3
        /\ node.children \in [Children -> PageNumbers]
        /\ \A j \in 1 .. Len(node.keys) : node.values[j] \in NodeValues
    BY <2>2, NodeFields
  <2> HIDE DEF node, i
  <2>5. node.children[i] \in PageNumbers
    BY <2>3, <2>4 DEF Children, Order
  <2>6. i < Len(node.keys) => node.values[i + 1] \in Values \cup {0}
    BY <2>3, <2>4 DEF NodeValues
  <2>7. \/ /\ i < Len(node.keys)
           /\ call' = [call EXCEPT !.kind = "answer", !.value = node.values[i + 1]]
        \/ call' = [call EXCEPT !.kind = "answer"]
        \/ call' = [call EXCEPT !.at = node.children[i]]
    BY <1>1, <1>4
  <2>8. /\ call' \in Calls /\ call'.new_root = ZeroNode /\ call'.hash = call.hash
        /\ call'.kind = "answer" \/ (call'.kind = "search" /\ call'.value = 0)
    BY <1>1, <1>2, <2>5, <2>6, <2>7 DEF Calls
  <2> QED BY <1>1, <2>8, RowSearchKeepsInv
<1> QED BY <1>3, <1>4

\* And the loop behind the end of the schema page's arrays.
LEMMA SearchOverrunKeepsInv ==
  ASSUME BTreeInv, SearchOverrun
  PROVE  BTreeInv'
<1> HIDE DEF ZeroNode
<1>1. CASE Dies
  BY <1>1, DeathKeepsInv
<1>2. CASE ~Dies
  <2>1. /\ alive /\ call.kind = "search" /\ heap_first
        /\ UNCHANGED <<alive, heap_first, root, page_count, page, index_root, stack, first>>
        /\ \/ \E v \in Values \cup {0} : call' = [call EXCEPT !.kind = "answer", !.value = v]
           \/ \E p \in PageNumbers : call' = [call EXCEPT !.at = p]
    BY <1>2 DEF SearchOverrun, Overruns
  <2>2. call \in Calls /\ call.new_root = ZeroNode /\ call.value = 0
    BY <2>1 DEF BTreeInv, TypeOK, CallInv, SearchInv
  <2>3. /\ call' \in Calls /\ call'.new_root = ZeroNode /\ call'.hash = call.hash
        /\ call'.kind = "answer" \/ (call'.kind = "search" /\ call'.value = 0)
    BY <2>1, <2>2 DEF Calls
  <2> QED BY <2>1, <2>3, RowSearchKeepsInv
<1> QED BY <1>1, <1>2

\* A search of an index reads its one leaf, and answers what the leaf says.
LEMMA SearchStepKeepsInv ==
  ASSUME BTreeInv, SearchStep
  PROVE  BTreeInv'
<1> DEFINE node == page[call.at]
           i == SearchIndex(node, call.hash)
<1> HIDE DEF ZeroNode
<1> SUFFICES ASSUME ~heap_first PROVE BTreeInv'
  BY RowSearchStep
<1>1. /\ alive /\ call.kind = "search"
      /\ UNCHANGED <<alive, heap_first, root, page_count, page, index_root, stack, first>>
      /\ call' = IF ~Readable(call.at) THEN [call EXCEPT !.kind = "answer"]
                 ELSE IF i < Len(node.keys) /\ node.keys[i + 1] = call.hash
                 THEN [call EXCEPT !.kind = "answer", !.value = node.values[i + 1]]
                 ELSE IF node.is_leaf THEN [call EXCEPT !.kind = "answer"]
                 ELSE [call EXCEPT !.at = node.children[i]]
  BY DEF SearchStep
<1>3. /\ call.value = 0 /\ call.hash \in Hashes
      /\ root # 0 /\ call.at = root
      /\ stack = <<>> /\ call.new_root = ZeroNode
  BY <1>1 DEF BTreeInv, CallInv, SearchInv
<1>2. /\ call \in Calls /\ Fits(call.new_root) /\ call.at \in PageIds
      /\ node \in Nodes /\ Fits(node) /\ Sorted(node.keys)
  BY <1>3 DEF BTreeInv, TypeOK, Calls, KeysOrdered, Sorted, Overruns
<1>4. Readable(call.at) /\ node.is_leaf /\ Indexed(node, first)
  BY <1>1, <1>3 DEF BTreeInv, FirstInv, RootInv, Readable
<1>6. /\ i \in 0 .. Len(node.keys)
      /\ \A j \in 1 .. i : node.keys[j] < call.hash
      /\ i < Len(node.keys) => node.keys[i + 1] >= call.hash
  BY <1>2, <1>3, SearchIndexIs
<1>7. /\ Len(node.keys) \in Nat /\ call.hash \in Nat /\ DOMAIN node.keys = 1 .. Len(node.keys)
      /\ \A j \in 1 .. Len(node.keys) : node.keys[j] \in Nat /\ node.values[j] \in NodeValues
      /\ \A j, k \in 1 .. Len(node.keys) : j < k => node.keys[j] <= node.keys[k]
  BY <1>2, <1>3, NodeFields, BTreeAssumption DEF Sorted
<1> HIDE DEF node, i
<1>9. \/ /\ i < Len(node.keys) /\ node.keys[i + 1] = call.hash
         /\ call' = [call EXCEPT !.kind = "answer", !.value = node.values[i + 1]]
      \/ /\ ~(i < Len(node.keys) /\ node.keys[i + 1] = call.hash)
         /\ call' = [call EXCEPT !.kind = "answer"]
  BY <1>1, <1>4
\* A key that is there is found where it stands first.
<1>10. ASSUME i < Len(node.keys), node.keys[i + 1] = call.hash
       PROVE  node.values[i + 1] = first[call.hash] /\ node.values[i + 1] \in NodeValues
  <2>1. i + 1 \in 1 .. Len(node.keys)
    BY <1>6, <1>7, <1>10
  <2>2. first[call.hash] # 0
    BY <1>3, <1>4, <1>7, <1>10, <2>1 DEF Indexed
  <2>3. PICK j \in 1 .. Len(node.keys) :
          /\ node.keys[j] = call.hash /\ node.values[j] = first[call.hash]
          /\ \A k \in 1 .. j - 1 : node.keys[k] # call.hash
    BY <1>3, <1>4, <1>7, <1>10, <2>2 DEF Indexed
  <2>4. j = i + 1
    <3>1. ~(j \in 1 .. i)
      BY <1>6, <1>7, <2>3
    <3>2. ~(i + 1 \in 1 .. j - 1)
      BY <1>10, <2>3
    <3> QED BY <1>6, <1>7, <2>1, <3>1, <3>2
  <2> QED BY <1>7, <2>1, <2>3, <2>4
\* A key that the scan does not stop at is not there.
<1>11. ASSUME ~(i < Len(node.keys) /\ node.keys[i + 1] = call.hash)
       PROVE  first[call.hash] = 0
  <2> SUFFICES ASSUME first[call.hash] # 0 PROVE FALSE
    OBVIOUS
  <2>1. PICK j \in 1 .. Len(node.keys) : node.keys[j] = call.hash
    BY <1>3, <1>4, <1>7, <1>11 DEF Indexed
  <2>2. ~(j \in 1 .. i)
    BY <1>6, <1>7, <2>1
  <2>3. j > i /\ i < Len(node.keys) /\ i + 1 \in 1 .. Len(node.keys)
    BY <1>6, <1>7, <2>1, <2>2
  <2>4. node.keys[i + 1] > call.hash
    BY <1>6, <1>7, <1>11, <2>3
  <2>5. j # i + 1
    BY <1>11, <2>1, <2>3
  <2>6. node.keys[i + 1] <= node.keys[j]
    BY <1>6, <1>7, <2>1, <2>3, <2>5
  <2> QED BY <1>7, <2>1, <2>3, <2>4, <2>6
<1>12. /\ call' \in Calls /\ call'.new_root = ZeroNode /\ call'.hash = call.hash
       /\ call'.kind = "answer" /\ call'.value = first[call.hash]
  <2>1. CASE i < Len(node.keys) /\ node.keys[i + 1] = call.hash
    <3>1. call' = [call EXCEPT !.kind = "answer", !.value = node.values[i + 1]]
      BY <1>9, <2>1
    <3>2. node.values[i + 1] = first[call.hash] /\ node.values[i + 1] \in NodeValues
      BY <1>10, <2>1
    <3> QED BY <1>2, <1>3, <3>1, <3>2 DEF Calls, NodeValues
  <2>2. CASE ~(i < Len(node.keys) /\ node.keys[i + 1] = call.hash)
    <3>1. call' = [call EXCEPT !.kind = "answer"] /\ first[call.hash] = 0
      BY <1>9, <1>11, <2>2
    <3> QED BY <1>2, <1>3, <3>1 DEF Calls
  <2> QED BY <2>1, <2>2
<1>13. TypeOK'
  <2>1. Fits(call'.new_root)
    BY <1>12, ZeroNodeIs
  <2> QED BY <1>1, <1>12, <2>1 DEF BTreeInv, TypeOK, Overruns
<1>14. KeysOrdered' /\ PagesInv' /\ RootInv' /\ FirstInv'
  BY <1>1, <1>12 DEF BTreeInv, KeysOrdered, PagesInv, RootInv, FirstInv
<1>15. CallInv'
  BY <1>1, <1>3, <1>12 DEF CallInv, SearchInv, AnswerInv
<1> QED BY <1>13, <1>14, <1>15 DEF BTreeInv

\* The leaf is written, and knows the new key.
LEMMA InsertIntoLeafKeepsInv ==
  ASSUME BTreeInv, InsertIntoLeaf
  PROVE  BTreeInv'
<1> DEFINE leaf == LeafInsert(page[root], call.hash, call.value)
<1> HIDE DEF ZeroNode
<1>1. /\ alive /\ call.kind = "insert" /\ page[Last(stack).page].is_leaf
      /\ page' = [page EXCEPT ![Last(stack).page] =
                    LeafInsert(page[Last(stack).page], call.hash, call.value)]
      /\ stack' = Front(stack) /\ call' = [call EXCEPT !.kind = "unwind"]
      /\ UNCHANGED <<alive, heap_first, root, page_count, index_root, first>>
  BY DEF InsertIntoLeaf
<1>20. stack \in Seq(Frames) /\ stack # <<>> /\ Last(stack).page \in PageIds
  BY <1>1, LastFrame DEF BTreeInv, TypeOK, CallInv, InsertInv, Frames
<1>2. page[Last(stack).page] # ZeroNode /\ ~heap_first
  BY <1>1, <1>20, ZeroNodeIs DEF BTreeInv, PagesInv
<1>3. /\ call.hash \in Hashes /\ call.value \in Values /\ root # 0
      /\ stack = <<Frame(root, ZeroNode)>>
      /\ page[root].is_leaf /\ Len(page[root].keys) < Order - 1
      /\ call.new_root = ZeroNode
      /\ Indexed(leaf, first)
  BY <1>1, <1>2 DEF BTreeInv, CallInv, InsertInv, Frame
<1>4. /\ root \in PageIds /\ page \in [PageIds -> Nodes] /\ page[root] \in Nodes
      /\ Fits(page[root]) /\ Sorted(page[root].keys) /\ call \in Calls
  BY <1>2 DEF BTreeInv, TypeOK, KeysOrdered, Sorted, Overruns
<1>5. Last(stack).page = root /\ stack' = <<>>
  BY <1>1, <1>3, <1>4, OneCall
<1>6. /\ leaf \in Nodes /\ Fits(leaf) /\ leaf.is_leaf /\ Sorted(leaf.keys)
  BY <1>3, <1>4, LeafInsertIs, LeafInsertSorted
<1> HIDE DEF leaf
<1>7. page' = [page EXCEPT ![root] = leaf]
  BY <1>1, <1>5 DEF leaf
<1>8. /\ call' \in Calls /\ call'.kind = "unwind" /\ call'.new_root = ZeroNode
  BY <1>1, <1>3, <1>4 DEF Calls
<1>9. ~heap_first /\ page[0] = ZeroNode
  BY <1>2 DEF BTreeInv, PagesInv
<1>10. /\ page' \in [PageIds -> Nodes] /\ page'[root] = leaf
       /\ \A p \in PageIds : p # root => page'[p] = page[p]
  BY <1>4, <1>6, <1>7
<1>11. TypeOK'
  <2>1. \A p \in PageIds : Fits(page'[p]) \/ Overruns(p)'
    BY <1>1, <1>6, <1>10 DEF BTreeInv, TypeOK, Overruns
  <2>2. Fits(call'.new_root)
    BY <1>8, ZeroNodeIs
  <2>3. stack' \in Seq(Frames) /\ Len(stack') <= MaxDepth /\ DOMAIN stack' = {}
    BY <1>5, PagesAre
  <2> QED BY <1>1, <1>8, <1>10, <2>1, <2>2, <2>3 DEF BTreeInv, TypeOK, Frames
<1>12. KeysOrdered'
  <2>1. \A p \in PageIds : Sorted(page'[p].keys)
    BY <1>6, <1>10 DEF BTreeInv, KeysOrdered, Sorted
  <2> QED BY <2>1 DEF KeysOrdered, Sorted
<1>13. PagesInv'
  BY <1>1, <1>3, <1>6, <1>9, <1>10, PagesAre DEF BTreeInv, PagesInv
<1>14. RootInv'
  BY <1>1 DEF BTreeInv, RootInv
<1>15. CallInv'
  BY <1>1, <1>5, <1>8, <1>9 DEF CallInv
<1>16. FirstInv'
  BY <1>1, <1>3, <1>6, <1>10 DEF FirstInv
<1> QED BY <1>11, <1>12, <1>13, <1>14, <1>15, <1>16 DEF BTreeInv

\* One more call of btree_insert_nonfull, which writes nothing: from a page of
\* zeros to page 0, or from a page of rows or schemas to any other.
Descends ==
  /\ alive
  /\ call.kind = "insert"
  /\ Len(stack) < MaxDepth
  /\ \E q \in PageIds :
       /\ heap_first \/ (q = 0 /\ page[Last(stack).page] = ZeroNode)
       /\ stack' = Nested(page[Last(stack).page], q)
  /\ UNCHANGED <<alive, heap_first, root, page_count, page, index_root, call, first>>

\* That is all that btree_insert_nonfull does on an inner node, since no child
\* of it is full.
LEMMA DescendWrites ==
  ASSUME BTreeInv, DescendToChild
  PROVE  Dies \/ Descends
<1> DEFINE p == Last(stack).page
           node == page[p]
           i == InsertIndex(node, call.hash)
           q == node.children[i]
<1> HIDE DEF ZeroNode
<1>1. /\ alive /\ call.kind = "insert" /\ ~Overruns(p) /\ ~node.is_leaf
      /\ \/ Dies
         \/ /\ Len(stack) # MaxDepth /\ Readable(q)
            /\ Full(page[q])
         \/ /\ Len(stack) # MaxDepth /\ Readable(q)
            /\ stack' = Nested(node, q)
            /\ UNCHANGED <<page, page_count, alive, heap_first, root, index_root, call, first>>
  BY DEF DescendToChild
<1>2. /\ stack \in Seq(Frames) /\ stack # <<>> /\ Len(stack) <= MaxDepth
      /\ call.hash \in Hashes
      /\ \/ heap_first
         \/ node = ZeroNode
         \/ stack = <<Frame(root, ZeroNode)>> /\ page[root].is_leaf
  BY <1>1 DEF BTreeInv, TypeOK, CallInv, InsertInv, Frames, Frame
<1>3. p \in PageIds /\ root \in PageIds
  BY <1>2, LastFrame DEF BTreeInv, TypeOK
<1>4. heap_first \/ node = ZeroNode
  <2>1. stack = <<Frame(root, ZeroNode)>> => p = root
    BY <1>3, OneCall
  <2> QED BY <1>1, <1>2, <2>1
<1>5. node \in Nodes /\ Fits(node) /\ Sorted(node.keys)
  BY <1>1, <1>3 DEF BTreeInv, TypeOK, KeysOrdered, Sorted
<1>6. i \in 0 .. Len(node.keys)
  BY <1>2, <1>5, InsertIndexIs
<1>7. /\ Len(node.keys) \in Nat /\ Len(node.keys) <= 3
      /\ node.children \in [Children -> PageNumbers]
  BY <1>5, NodeFields
<1>8. node = ZeroNode => q = 0
  <2> SUFFICES ASSUME node = ZeroNode PROVE q = 0
    OBVIOUS
  <2>1. Len(node.keys) = 0 /\ node.children[0] = 0
    BY ZeroNodeIs
  <2> HIDE DEF node, i
  <2>2. i = 0
    BY <1>6, <2>1
  <2> QED BY <2>1, <2>2
<1>9. i \in Children
  <2> HIDE DEF node, i
  <2> QED BY <1>6, <1>7 DEF Children, Order
<1>10. Len(stack) # MaxDepth => Len(stack) < MaxDepth
  BY <1>2, LenProperties, PagesAre
<1>11. q \in PageNumbers
  <2> HIDE DEF node, i
  <2> QED BY <1>7, <1>9
<1> HIDE DEF q, node, i, p
<1>12. Readable(q) => q \in PageIds
  <2>1. page_count \in 1 .. MaxPages
    BY DEF BTreeInv, TypeOK
  <2> QED BY <1>11, <2>1, PagesAre DEF Readable
<1>13. Readable(q) => ~Full(page[q])
  BY <1>4, <1>8, <1>12, ZeroNodeIs DEF BTreeInv, PagesInv
<1>14. CASE ~Dies
  <2>1. /\ Len(stack) < MaxDepth /\ q \in PageIds /\ stack' = Nested(node, q)
        /\ UNCHANGED <<page, page_count, alive, heap_first, root, index_root, call, first>>
    BY <1>1, <1>10, <1>12, <1>13, <1>14
  <2>2. heap_first \/ (q = 0 /\ node = ZeroNode)
    BY <1>4, <1>8
  <2> QED BY <1>1, <2>1, <2>2 DEF Descends, node, p
<1> QED BY <1>14

\* The overrun of the schema page's arrays does no more.
LEMMA OverrunWrites ==
  ASSUME BTreeInv, InsertOverrun
  PROVE  Dies \/ Descends
<1>1. /\ alive /\ call.kind = "insert" /\ heap_first /\ Last(stack).page = SchemaPage
      /\ \/ \E id \in PageIds :
              /\ Len(stack) < MaxDepth
              /\ stack' = Nested(page[SchemaPage], id)
              /\ UNCHANGED <<alive, heap_first, root, page_count, page, index_root, call, first>>
         \/ Dies
  BY DEF InsertOverrun, Overruns
<1> HIDE DEF ZeroNode
<1> QED BY <1>1, Zenon DEF Descends

\* So both keep the invariant.
LEMMA DescendKeepsInv ==
  ASSUME BTreeInv, Descends
  PROVE  BTreeInv'
<1> HIDE DEF ZeroNode
<1> DEFINE p == Last(stack).page
<1>1. PICK q \in PageIds :
        /\ heap_first \/ (q = 0 /\ page[p] = ZeroNode)
        /\ stack' = Nested(page[p], q)
  BY DEF Descends
<1>2. /\ call.kind = "insert" /\ Len(stack) < MaxDepth
      /\ UNCHANGED <<alive, heap_first, root, page_count, page, index_root, call, first>>
  BY DEF Descends
<1>3. /\ stack \in Seq(Frames) /\ stack # <<>> /\ FitAll(stack)
  BY <1>2 DEF BTreeInv, TypeOK, CallInv, InsertInv, Frames, FitAll, Fit
<1>4. p \in PageIds
  BY <1>3, LastFrame
<1>5. page[p] \in Nodes /\ (Fits(page[p]) \/ Overruns(p))
  BY <1>4 DEF BTreeInv, TypeOK
<1>6. stack' = Append(Front(stack), Frame(p, page[p])) \o <<Frame(q, ZeroNode)>>
  BY <1>1 DEF Nested, Frame
<1> HIDE DEF p
<1>7. /\ stack' \in Seq(Frames) /\ Len(stack') = Len(stack) + 1
      /\ FitAll(stack') /\ stack' # <<>> /\ Last(stack').page = q
  BY <1>3, <1>4, <1>5, <1>6, DeeperCall
<1>8. Len(stack') <= MaxDepth
  BY <1>2, <1>3, <1>7, LenProperties, PagesAre
<1>9. TypeOK'
  BY <1>2, <1>7, <1>8 DEF BTreeInv, TypeOK, Frames, FitAll, Fit, Overruns
<1>10. KeysOrdered' /\ PagesInv' /\ RootInv' /\ FirstInv'
  BY <1>2 DEF BTreeInv, KeysOrdered, PagesInv, RootInv, FirstInv
<1>11. CallInv'
  <2>1. heap_first \/ page'[Last(stack').page] = ZeroNode
    BY <1>1, <1>2, <1>7 DEF BTreeInv, PagesInv
  <2>2. call.hash \in Hashes /\ call.value \in Values /\ root # 0
    BY <1>2 DEF BTreeInv, CallInv, InsertInv
  <2>3. InsertInv'
    BY <1>2, <1>7, <2>1, <2>2 DEF InsertInv
  <2> QED BY <1>2, <2>3 DEF CallInv
<1> QED BY <1>9, <1>10, <1>11 DEF BTreeInv

\* Only the insert into a leaf ever returns, and it has nothing left to write.
LEMMA UnwindWrites ==
  ASSUME BTreeInv, Unwind
  PROVE  /\ alive /\ ~heap_first /\ call.kind = "unwind" /\ call.new_root = ZeroNode
         /\ call' = [call EXCEPT !.kind = "inserted"]
         /\ UNCHANGED <<alive, heap_first, root, page_count, page, index_root, stack, first>>
<1> HIDE DEF ZeroNode
<1>1. call.kind = "unwind"
  BY DEF Unwind
<1>2. stack = <<>> /\ call.new_root = ZeroNode /\ ~heap_first
  BY <1>1 DEF BTreeInv, CallInv, TypeOK
<1> QED BY <1>1, <1>2 DEF Unwind

\* The return keeps the invariant.
LEMMA UnwindKeepsInv ==
  ASSUME BTreeInv, Unwind
  PROVE  BTreeInv'
<1> HIDE DEF ZeroNode
<1>1. /\ alive /\ ~heap_first /\ call.kind = "unwind" /\ call.new_root = ZeroNode
      /\ call' = [call EXCEPT !.kind = "inserted"]
      /\ UNCHANGED <<alive, heap_first, root, page_count, page, index_root, stack, first>>
  BY UnwindWrites
<1>2. /\ call' \in Calls /\ call'.kind = "inserted" /\ call'.new_root = ZeroNode
  <2>1. call \in Calls
    BY DEF BTreeInv, TypeOK
  <2> QED BY <1>1, <2>1 DEF Calls
<1>3. TypeOK'
  <2>1. Fits(call'.new_root)
    BY <1>2, ZeroNodeIs
  <2> QED BY <1>1, <1>2, <2>1 DEF BTreeInv, TypeOK, Overruns
<1>4. KeysOrdered' /\ PagesInv' /\ RootInv' /\ FirstInv'
  BY <1>1, <1>2 DEF BTreeInv, KeysOrdered, PagesInv, RootInv, FirstInv
<1>5. CallInv'
  BY <1>1, <1>2 DEF BTreeInv, CallInv
<1> QED BY <1>3, <1>4, <1>5 DEF BTreeInv

\* What btree_insert does before it goes down the tree: it makes the first
\* leaf, or takes the leaf there is, or splits a full one; where the root is a
\* row page it writes nothing.
LEMMA BeginInsertWrites ==
  ASSUME BTreeInv, NEW h \in Hashes, NEW v \in Values, BeginInsert(h, v), ~Dies
  PROVE  LET top == IF root = 0 THEN page_count ELSE index_root
             tree == IF root = 0 THEN [page EXCEPT ![page_count] = NewNode(TRUE)] ELSE page
             start == [NoCall EXCEPT !.kind = "insert", !.hash = h, !.value = v]
         IN /\ Idle /\ (heap_first \/ page_count + 2 <= MaxPages)
            /\ root # 0 => index_root < page_count
            /\ heap_first => root # 0
            /\ first' = [first EXCEPT ![h] = IF @ = 0 THEN v ELSE @]
            /\ UNCHANGED <<alive, heap_first>>
            /\ \/ /\ ~Full(tree[top])
                  /\ root' = IF root = 0 THEN top ELSE root
                  /\ index_root' = top
                  /\ page' = tree
                  /\ page_count' = IF root = 0 THEN page_count + 1 ELSE page_count
                  /\ stack' = <<Frame(root', ZeroNode)>>
                  /\ call' = start
               \/ /\ Full(page[root]) /\ root # 0 /\ ~heap_first /\ top = root
                  /\ root' = page_count /\ index_root' = page_count
                  /\ page_count' = page_count + 2
                  /\ page' = [page EXCEPT ![page_count] = ZeroNode,
                                          ![page_count + 1] = RightHalf(page[root]),
                                          ![root] = LeftHalf(page[root])]
                  /\ stack' = <<Frame(page_count, ZeroNode)>>
                  /\ call' = [start EXCEPT !.new_root =
                               ParentOfSplit([ZeroNode EXCEPT !.children[0] = root], 0,
                                             page[root], page_count + 1)]
<1> DEFINE grow == root = 0
           tree == IF grow THEN [page EXCEPT ![page_count] = NewNode(TRUE)] ELSE page
           top == IF grow THEN page_count ELSE index_root
           count == IF grow THEN page_count + 1 ELSE page_count
           start == [NoCall EXCEPT !.kind = "insert", !.hash = h, !.value = v]
<1> HIDE DEF ZeroNode, NoCall
<1>1. /\ Idle /\ (heap_first \/ page_count + 2 <= MaxPages) /\ (heap_first => root # 0)
      /\ grow \/ index_root < page_count
      /\ first' = [first EXCEPT ![h] = IF @ = 0 THEN v ELSE @]
      /\ UNCHANGED <<alive, heap_first>>
      /\ \/ /\ ~Full(tree[top])
            /\ root' = IF grow THEN top ELSE root
            /\ index_root' = top
            /\ page' = tree
            /\ page_count' = count
            /\ stack' = <<Frame(root', ZeroNode)>>
            /\ call' = start
         \/ /\ Full(tree[top])
            /\ root' = count /\ index_root' = count
            /\ page_count' = count + 2
            /\ page' = [tree EXCEPT ![count] = ZeroNode,
                                    ![count + 1] = RightHalf(tree[top]),
                                    ![top] = LeftHalf(tree[top])]
            /\ stack' = <<Frame(count, ZeroNode)>>
            /\ call' = [start EXCEPT !.new_root =
                         ParentOfSplit([ZeroNode EXCEPT !.children[0] = top], 0,
                                       tree[top], count + 1)]
  BY DEF BeginInsert, Frame, Readable, Remember
<1>2. /\ page \in [PageIds -> Nodes] /\ page_count \in Nat /\ root \in PageIds
      /\ index_root \in Nat
  BY PagesAre DEF BTreeInv, TypeOK
<1>3. Full(tree[top]) => ~grow
  <2> SUFFICES ASSUME grow PROVE ~Full(tree[top])
    OBVIOUS
  <2>1. page_count \in PageIds
    BY <1>1, <1>2, PagesAre
  <2>2. tree[top] = NewNode(TRUE)
    BY <1>2, <2>1
  <2>3. NewNode(TRUE).keys = <<>>
    BY NewNodeIs, Zenon
  <2>4. Len(<<>>) # Order - 1
    BY DEF Order
  <2> HIDE DEF tree, top
  <2> QED BY <2>2, <2>3, <2>4, Zenon DEF Full
<1>4. Full(tree[top]) => ~heap_first /\ top = root /\ tree[top] = page[root]
  <2> SUFFICES ASSUME Full(tree[top]) PROVE ~heap_first /\ top = root /\ tree[top] = page[root]
    OBVIOUS
  <2>1. ~grow
    BY <1>3
  <2>2. top = index_root /\ tree = page
    BY <2>1
  <2>3. index_root \in PageIds
    <3>1. page_count \in 1 .. MaxPages
      BY DEF BTreeInv, TypeOK
    <3> QED BY <1>1, <1>2, <2>1, <3>1, PagesAre
  <2> HIDE DEF top, tree
  <2>4. Full(page[index_root])
    BY <2>2
  <2>5. ~heap_first
    BY <2>3, <2>4 DEF BTreeInv, PagesInv
  <2>6. index_root = root
    BY <2>1, <2>5 DEF BTreeInv, RootInv
  <2> QED BY <2>2, <2>5, <2>6
<1>5. CASE ~Full(tree[top])
  BY <1>1, <1>5
<1>6. CASE Full(tree[top])
  <2>1. ~grow
    BY <1>3, <1>6
  <2>2. tree = page /\ count = page_count
    BY <2>1
  <2>3. top = root /\ tree[top] = page[root] /\ ~heap_first
    BY <1>4, <1>6
  <2> HIDE DEF tree, count, start, top
  <2>4. /\ Full(page[root]) /\ root # 0 /\ ~heap_first /\ top = root
        /\ root' = page_count /\ index_root' = page_count
        /\ page_count' = page_count + 2
        /\ page' = [page EXCEPT ![page_count] = ZeroNode,
                                ![page_count + 1] = RightHalf(page[root]),
                                ![root] = LeftHalf(page[root])]
        /\ stack' = <<Frame(page_count, ZeroNode)>>
        /\ call' = [start EXCEPT !.new_root =
                     ParentOfSplit([ZeroNode EXCEPT !.children[0] = root], 0,
                                   page[root], page_count + 1)]
    BY <1>1, <1>6, <2>1, <2>2, <2>3
  <2>5. /\ Idle /\ (heap_first \/ page_count + 2 <= MaxPages) /\ (heap_first => root # 0)
        /\ root # 0 => index_root < page_count
        /\ first' = [first EXCEPT ![h] = IF @ = 0 THEN v ELSE @]
        /\ UNCHANGED <<alive, heap_first>>
    BY <1>1
  <2> QED BY <2>4, <2>5 DEF start, top
<1> QED BY <1>5, <1>6

\* The start of an insert keeps the invariant: a tree of one leaf that has
\* room, or a root of zeros above two leaves.
LEMMA BeginInsertKeepsInv ==
  ASSUME BTreeInv, NEW h \in Hashes, NEW v \in Values, BeginInsert(h, v)
  PROVE  BTreeInv'
<1> DEFINE top == IF root = 0 THEN page_count ELSE index_root
           tree == IF root = 0 THEN [page EXCEPT ![page_count] = NewNode(TRUE)] ELSE page
           start == [NoCall EXCEPT !.kind = "insert", !.hash = h, !.value = v]
           map == [first EXCEPT ![h] = IF @ = 0 THEN v ELSE @]
<1> HIDE DEF ZeroNode, NoCall
<1> SUFFICES ASSUME ~Dies PROVE BTreeInv'
  BY DeathKeepsInv
<1>1. /\ Idle /\ (heap_first \/ page_count + 2 <= MaxPages)
      /\ root # 0 => index_root < page_count
      /\ heap_first => root # 0
      /\ first' = map
      /\ UNCHANGED <<alive, heap_first>>
      /\ \/ /\ ~Full(tree[top])
            /\ root' = IF root = 0 THEN top ELSE root
            /\ index_root' = top
            /\ page' = tree
            /\ page_count' = IF root = 0 THEN page_count + 1 ELSE page_count
            /\ stack' = <<Frame(root', ZeroNode)>>
            /\ call' = start
         \/ /\ Full(page[root]) /\ root # 0 /\ ~heap_first /\ top = root
            /\ root' = page_count /\ index_root' = page_count
            /\ page_count' = page_count + 2
            /\ page' = [page EXCEPT ![page_count] = ZeroNode,
                                    ![page_count + 1] = RightHalf(page[root]),
                                    ![root] = LeftHalf(page[root])]
            /\ stack' = <<Frame(page_count, ZeroNode)>>
            /\ call' = [start EXCEPT !.new_root =
                         ParentOfSplit([ZeroNode EXCEPT !.children[0] = root], 0,
                                       page[root], page_count + 1)]
  BY BeginInsertWrites
<1>2. /\ page \in [PageIds -> Nodes] /\ page_count \in 1 .. MaxPages /\ root \in PageIds
      /\ index_root \in Nat /\ root < page_count
      /\ \A p \in PageIds : Fits(page[p]) \/ Overruns(p)
      /\ \A p \in PageIds : Sorted(page[p].keys)
      /\ first \in [Hashes -> Values \cup {0}] /\ heap_first \in BOOLEAN
  BY PagesAre DEF BTreeInv, TypeOK, RootInv, KeysOrdered, Sorted
<1>3. /\ ~heap_first => page_count \in PageIds /\ page_count + 1 \in PageIds
      /\ page_count # 0
      /\ page_count \in Nat /\ page_count + 1 # 0 /\ page_count + 1 # page_count
      /\ root # page_count /\ root # page_count + 1 /\ root \in Nat /\ MaxPages \in Nat
  BY <1>1, <1>2, PagesAre
<1>9. \A p \in PageIds : ~heap_first => Fits(page[p])
  BY <1>2 DEF Overruns
<1>4. /\ start \in Calls /\ start.kind = "insert" /\ start.new_root = ZeroNode
      /\ start.hash = h /\ start.value = v
  BY NoCallIs DEF Calls
<1>5. map \in [Hashes -> Values \cup {0}]
  BY <1>2
<1>6. /\ page[0] = ZeroNode
      /\ ~heap_first => \A p \in PageIds : page[p] = ZeroNode \/ page[p].is_leaf
      /\ ~heap_first =>
           IF root = 0 THEN \A g \in Hashes : first[g] = 0
           ELSE index_root = root /\ page[root].is_leaf /\ Indexed(page[root], first)
  BY <1>1 DEF BTreeInv, PagesInv, FirstInv, RootInv, Idle
<1> HIDE DEF start, map
<1>7. ASSUME ~Full(tree[top]),
             root' = IF root = 0 THEN top ELSE root,
             index_root' = top, page' = tree,
             page_count' = IF root = 0 THEN page_count + 1 ELSE page_count,
             stack' = <<Frame(root', ZeroNode)>>,
             call' = start
      PROVE  BTreeInv'
  <2> DEFINE leaf == NewNode(TRUE)
  <2>1. /\ leaf \in Nodes /\ Fits(leaf) /\ leaf.is_leaf /\ Sorted(leaf.keys)
    BY NewNodeIs, ShortSorted, Zenon
  <2> HIDE DEF leaf
  <2>2. CASE root = 0
    <3>0. ~heap_first /\ page_count \in PageIds /\ page_count + 1 \in PageIds
      BY <1>1, <1>3, <2>2
    <3>1. /\ page' = [page EXCEPT ![page_count] = leaf] /\ root' = page_count
          /\ index_root' = page_count /\ page_count' = page_count + 1
      BY <1>7, <2>2 DEF leaf
    <3>2. /\ page' \in [PageIds -> Nodes] /\ page'[page_count] = leaf
          /\ \A p \in PageIds : p # page_count => page'[p] = page[p]
      BY <1>2, <2>1, <3>0, <3>1
    <3>3. ~heap_first /\ \A g \in Hashes : first[g] = 0
      BY <1>1, <1>6, <2>2
    <3>4. Len(leaf.keys) < Order - 1
      <4>1. leaf.keys = <<>>
        BY NewNodeIs, Zenon DEF leaf
      <4>2. Len(<<>>) < Order - 1
        BY DEF Order
      <4> QED BY <4>1, <4>2
    <3>5. Indexed(LeafInsert(leaf, h, v), map)
      <4>1. Indexed(leaf, first)
        BY <3>3, EmptyIndexed, Zenon DEF leaf
      <4> QED BY <1>2, <2>1, <3>4, <4>1, LeafInsertIndexed DEF map
    <3>6. /\ stack' \in Seq(Frames) /\ Len(stack') = 1 /\ FitAll(stack')
          /\ stack' = <<Frame(root', ZeroNode)>> /\ stack' # <<>>
      BY <1>7, <3>0, <3>1, OneCall
    <3>7. TypeOK'
      <4>1. \A p \in PageIds : Fits(page'[p])
        BY <1>9, <2>1, <3>0, <3>2
      <4>2. root' \in PageIds /\ page_count' \in 1 .. MaxPages /\ index_root' \in 0 .. MaxPages
        BY <1>1, <1>2, <1>3, <3>0, <3>1
      <4>3. Len(stack') <= MaxDepth
        BY <3>6, PagesAre
      <4>4. call' \in Calls /\ Fits(call'.new_root)
        BY <1>4, <1>7, ZeroNodeIs
      <4> QED BY <1>1, <1>5, <3>2, <3>6, <4>1, <4>2, <4>3, <4>4
              DEF BTreeInv, TypeOK, Frames, FitAll, Fit, Overruns
    <3>8. KeysOrdered'
      <4>1. \A p \in PageIds : Sorted(page'[p].keys)
        BY <1>2, <2>1, <3>2
      <4> QED BY <4>1 DEF KeysOrdered, Sorted
    <3>9. PagesInv' /\ RootInv' /\ FirstInv'
      <4>1. PagesInv'
        BY <1>1, <1>3, <1>6, <2>1, <3>0, <3>2, PagesAre DEF PagesInv
      <4>2. RootInv'
        BY <1>3, <3>1 DEF RootInv
      <4>3. FirstInv'
        BY <1>3, <1>4, <1>7, <3>1 DEF FirstInv
      <4> QED BY <4>1, <4>2, <4>3
    <3>10. InsertInv'
      <4>1. /\ page'[root'].is_leaf /\ Len(page'[root'].keys) < Order - 1
            /\ Indexed(LeafInsert(page'[root'], call'.hash, call'.value), first')
        BY <1>1, <1>4, <1>7, <2>1, <3>1, <3>2, <3>4, <3>5
      <4> QED BY <1>3, <1>4, <1>7, <3>1, <3>6, <4>1 DEF InsertInv, Frame
    <3>11. CallInv'
      BY <1>4, <1>7, <3>10 DEF CallInv
    <3> QED BY <3>7, <3>8, <3>9, <3>11 DEF BTreeInv
  <2>3. CASE root # 0
    <3>1. /\ page' = page /\ root' = root /\ index_root' = index_root
          /\ page_count' = page_count /\ ~Full(page[index_root])
      BY <1>7, <2>3
    <3>2. /\ stack' \in Seq(Frames) /\ Len(stack') = 1 /\ FitAll(stack')
          /\ stack' = <<Frame(root, ZeroNode)>> /\ stack' # <<>>
          /\ Last(stack').page = root
      BY <1>2, <1>7, <3>1, OneCall
    <3>3. TypeOK'
      <4>1. Len(stack') <= MaxDepth
        BY <3>2, PagesAre
      <4>2. call' \in Calls /\ Fits(call'.new_root)
        BY <1>4, <1>7, ZeroNodeIs
      <4> QED BY <1>1, <1>5, <3>1, <3>2, <4>1, <4>2
              DEF BTreeInv, TypeOK, Frames, FitAll, Fit, Overruns
    <3>4. KeysOrdered' /\ PagesInv' /\ RootInv' /\ FirstInv'
      <4>1. KeysOrdered' /\ PagesInv' /\ RootInv'
        BY <1>1, <3>1 DEF BTreeInv, KeysOrdered, PagesInv, RootInv
      <4>2. FirstInv'
        BY <1>4, <1>7, <2>3, <3>1 DEF FirstInv
      <4> QED BY <4>1, <4>2
    <3>5. CASE heap_first
      <4>2. InsertInv'
        BY <1>1, <1>4, <1>7, <2>3, <3>1, <3>2, <3>5 DEF InsertInv
      <4>3. CallInv'
        BY <1>4, <1>7, <4>2 DEF CallInv
      <4> QED BY <3>3, <3>4, <4>3 DEF BTreeInv
    <3>6. CASE ~heap_first
      <4>1. /\ index_root = root /\ page[root].is_leaf /\ Indexed(page[root], first)
            /\ page[root] \in Nodes /\ Fits(page[root]) /\ Sorted(page[root].keys)
        BY <1>2, <1>6, <1>9, <2>3, <3>6
      <4>2. Len(page[root].keys) < Order - 1
        <5>1. Len(page[root].keys) # 3
          BY <3>1, <4>1 DEF Full, Order
        <5>2. Len(page[root].keys) \in Nat /\ Len(page[root].keys) <= 3
          BY <4>1, NodeFields
        <5>3. \A n \in Nat : n <= 3 /\ n # 3 => n < Order - 1
          BY DEF Order
        <5> QED BY <5>1, <5>2, <5>3, Zenon
      <4>3. Indexed(LeafInsert(page[root], h, v), map)
        BY <1>2, <4>1, <4>2, LeafInsertIndexed DEF map
      <4>4. InsertInv'
        BY <1>1, <1>4, <1>7, <2>3, <3>1, <3>2, <4>1, <4>2, <4>3 DEF InsertInv, Frame
      <4>5. CallInv'
        BY <1>4, <1>7, <4>4 DEF CallInv
      <4> QED BY <3>3, <3>4, <4>5 DEF BTreeInv
    <3> QED BY <3>5, <3>6
  <2> QED BY <2>2, <2>3
<1>8. ASSUME Full(page[root]), root # 0, ~heap_first,
             root' = page_count, index_root' = page_count,
             page_count' = page_count + 2,
             page' = [page EXCEPT ![page_count] = ZeroNode,
                                  ![page_count + 1] = RightHalf(page[root]),
                                  ![root] = LeftHalf(page[root])],
             stack' = <<Frame(page_count, ZeroNode)>>,
             call' = [start EXCEPT !.new_root =
                       ParentOfSplit([ZeroNode EXCEPT !.children[0] = root], 0,
                                     page[root], page_count + 1)]
      PROVE  BTreeInv'
  <2> DEFINE full == page[root]
             l == LeftHalf(full)
             r == RightHalf(full)
             parent == ParentOfSplit([ZeroNode EXCEPT !.children[0] = root], 0,
                                     full, page_count + 1)
  <2>0. page_count \in PageIds /\ page_count + 1 \in PageIds
    BY <1>3, <1>8
  <2>1. full \in Nodes /\ Fits(full) /\ Full(full) /\ full.is_leaf /\ Sorted(full.keys)
    BY <1>2, <1>6, <1>8, <1>9
  <2>2. parent \in Nodes /\ Fits(parent)
    BY <1>2, <2>0, <2>1, ParentIs, PagesAre
  <2>3. /\ page' = [page EXCEPT ![page_count] = ZeroNode, ![page_count + 1] = r, ![root] = l]
        /\ call' = [start EXCEPT !.new_root = parent]
    BY <1>8
  <2> HIDE DEF full, parent
  <2>4. /\ l \in Nodes /\ Fits(l) /\ l.is_leaf /\ Sorted(l.keys)
        /\ r \in Nodes /\ Fits(r) /\ r.is_leaf /\ Sorted(r.keys)
    BY <2>1, HalvesAre, ShortSorted
  <2> HIDE DEF l, r
  <2>5. /\ page' \in [PageIds -> Nodes]
        /\ page'[page_count] = ZeroNode /\ page'[page_count + 1] = r /\ page'[root] = l
        /\ \A p \in PageIds \ {page_count, page_count + 1, root} : page'[p] = page[p]
    BY <1>2, <1>3, <2>0, <2>3, <2>4, ZeroNodeIs
  <2>6. call' \in Calls /\ call'.kind = "insert" /\ call'.hash = h /\ call'.value = v
        /\ call'.new_root = parent
    BY <1>4, <2>2, <2>3 DEF Calls
  <2>7. /\ stack' \in Seq(Frames) /\ Len(stack') = 1 /\ FitAll(stack')
        /\ stack' # <<>> /\ Last(stack').page = page_count
    BY <1>8, <2>0, OneCall
  <2>8. Sorted(ZeroNode.keys)
    BY ZeroNodeIs, ShortSorted
  <2>9. TypeOK'
    <3>1. \A p \in PageIds : Fits(page'[p])
      BY <1>8, <1>9, <2>4, <2>5, ZeroNodeIs
    <3>2. root' \in PageIds /\ page_count' \in 1 .. MaxPages /\ index_root' \in 0 .. MaxPages
      BY <1>1, <1>2, <1>3, <1>8, <2>0
    <3>3. Len(stack') <= MaxDepth
      BY <2>7, PagesAre
    <3>4. Fits(call'.new_root)
      BY <2>2, <2>6
    <3> QED BY <1>1, <1>5, <2>5, <2>6, <2>7, <3>1, <3>2, <3>3, <3>4
            DEF BTreeInv, TypeOK, Frames, FitAll, Fit, Overruns
  <2>10. KeysOrdered'
    <3>1. \A p \in PageIds : Sorted(page'[p].keys)
      BY <1>2, <2>4, <2>5, <2>8
    <3> QED BY <3>1 DEF KeysOrdered, Sorted
  <2>11. PagesInv'
    <3>1. page'[0] = ZeroNode
      BY <1>3, <1>6, <1>8, <2>5, PagesAre
    <3>2. \A p \in PageIds : page'[p] = ZeroNode \/ page'[p].is_leaf
      BY <1>6, <1>8, <2>4, <2>5
    <3> QED BY <1>1, <1>8, <3>1, <3>2 DEF PagesInv
  <2>12. RootInv' /\ FirstInv'
    <3>1. RootInv'
      BY <1>3, <1>8 DEF RootInv
    <3>2. FirstInv'
      BY <1>3, <1>8, <2>6 DEF FirstInv
    <3> QED BY <3>1, <3>2
  <2>13. CallInv'
    <3>1. page'[Last(stack').page] = ZeroNode
      BY <2>5, <2>7
    <3>2. InsertInv'
      BY <1>3, <1>8, <2>6, <2>7, <3>1 DEF InsertInv
    <3> QED BY <2>6, <3>2 DEF CallInv
  <2> QED BY <2>9, <2>10, <2>11, <2>12, <2>13 DEF BTreeInv
<1> HIDE DEF top, tree
<1> QED BY <1>1, <1>7, <1>8

\* No step breaks the invariant.
LEMMA NextKeepsBTreeInv == BTreeInv /\ [Next]_vars => BTreeInv'
<1> SUFFICES ASSUME BTreeInv, [Next]_vars PROVE BTreeInv'
  OBVIOUS
<1>1. CASE CreateIndex
  BY <1>1, CreateIndexKeepsInv
<1>9. ASSUME NEW p \in PageIds, NEW node \in RowNodes, HeapPage(p, node) PROVE BTreeInv'
  BY <1>9, HeapKeepsInv
<1>2. ASSUME NEW h \in Hashes, BeginSearch(h) PROVE BTreeInv'
  BY <1>2, BeginSearchKeepsInv
<1>3. ASSUME NEW h \in Hashes, NEW v \in Values, BeginInsert(h, v) PROVE BTreeInv'
  BY <1>3, BeginInsertKeepsInv
<1>4. CASE SearchStep
  BY <1>4, SearchStepKeepsInv
<1>5. CASE InsertIntoLeaf
  BY <1>5, InsertIntoLeafKeepsInv
<1>10. CASE SearchOverrun
  BY <1>10, SearchOverrunKeepsInv
<1>6. CASE DescendToChild \/ InsertOverrun
  BY <1>6, DescendWrites, OverrunWrites, DescendKeepsInv, DeathKeepsInv
<1>7. CASE Unwind
  BY <1>7, UnwindKeepsInv
<1>8. CASE UNCHANGED vars
  BY <1>8 DEF vars, BTreeInv, TypeOK, KeysOrdered, PagesInv, RootInv, CallInv, InsertInv,
              SearchInv, AnswerInv, FirstInv, Overruns
<1> QED BY <1>1, <1>2, <1>3, <1>4, <1>5, <1>6, <1>7, <1>8, <1>9, <1>10 DEF Next, Working

-----------------------------------------------------------------------------
(* The theorems.                                                           *)

\* Every page of the index is a leaf in order or a page of zeros, and none of
\* rows or schemas reads as a leaf or as full, at every moment of every run.
THEOREM BTreeInvariant == Spec => []BTreeInv
<1>1. Init => BTreeInv
  BY InitBTreeInv
<1>2. BTreeInv /\ [Next]_vars => BTreeInv'
  BY NextKeepsBTreeInv
<1> QED BY <1>1, <1>2, PTL DEF Spec

\* Every node fits its page, its keys and its values match, and the stack of
\* btree_insert_nonfull stays within its bound.
THEOREM BTreeTypeCorrect == Spec => []TypeOK
<1>1. BTreeInv => TypeOK
  BY DEF BTreeInv
<1> QED BY <1>1, BTreeInvariant, PTL

\* The keys of every node are in order whenever a search may read them.
THEOREM KeysStayOrdered == Spec => []KeysOrdered
<1>1. BTreeInv => KeysOrdered
  BY DEF BTreeInv
<1> QED BY <1>1, BTreeInvariant, PTL

\* btree_search answers the value that btree_insert first got for the hash,
\* and 0 for a hash that it never got.
THEOREM SearchesFindTheFirst == Spec => []SearchFindsFirst
<1>1. BTreeInv => SearchFindsFirst
  BY DEF BTreeInv, CallInv, AnswerInv, SearchFindsFirst
<1> QED BY <1>1, BTreeInvariant, PTL

\* Where execute_insert has put rows on the root page, no insert into the
\* index writes a page, whatever the columns of the rows say when read as
\* children and whichever rows are deleted.
THEOREM RowsAreSafe == Spec => RowsNotOverwritten
<1> DEFINE Inserting == heap_first /\ call'.kind \in {"insert", "unwind", "inserted"}
<1>1. ASSUME BTreeInv, Next, Inserting PROVE page' = page
  <2>1. CASE CreateIndex
    BY <2>1 DEF CreateIndex
  <2>2. ASSUME NEW p \in PageIds, NEW node \in RowNodes, HeapPage(p, node) PROVE page' = page
    <3>1. call'.kind = "none"
      BY <2>2, NoCallIs DEF HeapPage
    <3> QED BY <1>1, <3>1
  <2>3. ASSUME NEW h \in Hashes, BeginSearch(h) PROVE page' = page
    BY <2>3 DEF BeginSearch
  <2>4. ASSUME NEW h \in Hashes, NEW v \in Values, BeginInsert(h, v) PROVE page' = page
    <3>1. CASE Dies
      BY <3>1 DEF Dies
    <3>2. CASE ~Dies
      BY <1>1, <2>4, <3>2, BeginInsertWrites
    <3> QED BY <3>1, <3>2
  <2>5. CASE SearchStep
    BY <2>5 DEF SearchStep
  <2>6. CASE SearchOverrun
    BY <2>6 DEF SearchOverrun, Dies
  <2>7. CASE InsertIntoLeaf
    <3>1. Last(stack).page \in PageIds
      BY <1>1, <2>7, LastFrame DEF InsertIntoLeaf, BTreeInv, TypeOK, CallInv, InsertInv, Frames
    <3>2. ~page[Last(stack).page].is_leaf
      BY <1>1, <3>1 DEF BTreeInv, PagesInv
    <3> QED BY <2>7, <3>2 DEF InsertIntoLeaf
  <2>8. CASE DescendToChild \/ InsertOverrun
    BY <1>1, <2>8, DescendWrites, OverrunWrites DEF Dies, Descends
  <2>9. CASE Unwind
    BY <1>1, <2>9, UnwindWrites
  <2> HIDE DEF Inserting
  <2> QED BY <1>1, <2>1, <2>2, <2>3, <2>4, <2>5, <2>6, <2>7, <2>8, <2>9 DEF Next, Working
<1>2. BTreeInv /\ [Next]_vars => [Inserting => page' = page]_vars
  BY <1>1
<1> QED BY <1>2, BTreeInvariant, PTL DEF Spec, RowsNotOverwritten

\* btree_split_child loses no key of a full root and doubles none: its keys
\* are the left half, the one that moves up, and the right half, in order.
THEOREM SplitsKeepKeys == Spec => SplitKeepsKeys
<1> DEFINE Splits == call'.kind = "insert" /\ call'.new_root # call.new_root
           Kept == LET top == call'.new_root
                   IN page[index_root].keys = page'[top.children[0]].keys \o top.keys
                                              \o page'[top.children[1]].keys
<1>1. ASSUME BTreeInv, Next, Splits PROVE Kept
  <2> HIDE DEF ZeroNode, NoCall
  <2>1. CASE CreateIndex
    BY <1>1, <2>1 DEF CreateIndex
  <2>8. ASSUME NEW p \in PageIds, NEW node \in RowNodes, HeapPage(p, node) PROVE Kept
    <3>1. call'.kind = "none"
      BY <2>8, NoCallIs DEF HeapPage
    <3> QED BY <1>1, <3>1
  <2>2. ASSUME NEW h \in Hashes, BeginSearch(h) PROVE Kept
    <3>1. call'.kind # "insert"
      <4>1. \/ call' = [NoCall EXCEPT !.kind = "answer", !.hash = h]
            \/ call' = [NoCall EXCEPT !.kind = "search", !.hash = h, !.at = root]
        BY <2>2 DEF BeginSearch
      <4>2. root \in PageNumbers
        BY <1>1, PagesAre DEF BTreeInv, TypeOK
      <4> QED BY <4>1, <4>2, NoCallIs DEF Calls
    <3> QED BY <1>1, <3>1
  <2>3. ASSUME NEW h \in Hashes, NEW v \in Values, BeginInsert(h, v) PROVE Kept
    <3> DEFINE start == [NoCall EXCEPT !.kind = "insert", !.hash = h, !.value = v]
               full == page[root]
               parent == ParentOfSplit([ZeroNode EXCEPT !.children[0] = root], 0,
                                       full, page_count + 1)
    <3>1. ~Dies
      BY <1>1, NoCallIs DEF Dies
    <3>2. start \in Calls /\ start.new_root = ZeroNode
      BY NoCallIs DEF Calls
    <3>3. call.new_root = ZeroNode
      BY <1>1, <2>3 DEF BTreeInv, CallInv, BeginInsert, Idle
    <3>4. call' # start
      BY <1>1, <3>2, <3>3
    <3>5. /\ Full(full) /\ root # 0 /\ ~heap_first /\ index_root = root
          /\ page_count + 2 <= MaxPages /\ Idle
          /\ page' = [page EXCEPT ![page_count] = ZeroNode,
                                  ![page_count + 1] = RightHalf(full),
                                  ![root] = LeftHalf(full)]
          /\ call' = [start EXCEPT !.new_root = parent]
      BY <1>1, <2>3, <3>1, <3>4, BeginInsertWrites
    <3>6. /\ page \in [PageIds -> Nodes] /\ root \in PageIds /\ root < page_count
          /\ page_count \in Nat /\ full \in Nodes /\ Fits(full) /\ Sorted(full.keys)
          /\ full.is_leaf
      <4>1. page \in [PageIds -> Nodes] /\ root \in PageIds /\ root < page_count
            /\ page_count \in Nat /\ \A p \in PageIds : Fits(page[p]) /\ Sorted(page[p].keys)
        BY <1>1, <3>5, PagesAre DEF BTreeInv, TypeOK, RootInv, KeysOrdered, Sorted, Overruns
      <4>2. full.is_leaf
        BY <1>1, <3>5 DEF BTreeInv, FirstInv, Idle
      <4> QED BY <4>1, <4>2
    <3>7. /\ page_count + 1 \in PageIds /\ root # page_count /\ root # page_count + 1
      BY <3>5, <3>6, PagesAre
    <3>8. page'[root] = LeftHalf(full) /\ page'[page_count + 1] = RightHalf(full)
      BY <3>5, <3>6, <3>7
    <3>9. /\ parent \in Nodes /\ parent.keys = <<full.keys[2]>>
          /\ parent.children[0] = root /\ parent.children[1] = page_count + 1
      <4>1. full \in Nodes /\ Fits(full) /\ Full(full)
            /\ root \in PageNumbers /\ page_count + 1 \in PageNumbers
        BY <3>5, <3>6, <3>7, PagesAre
      <4> HIDE DEF full
      <4> QED BY <4>1, ParentIs
    <3>10. /\ LeftHalf(full).keys = <<full.keys[1]>>
           /\ RightHalf(full).keys = <<full.keys[3]>>
           /\ full.keys = <<full.keys[1], full.keys[2], full.keys[3]>>
      BY <3>5, <3>6, HalvesAre
    <3> HIDE DEF start, parent
    <3>11. call'.new_root = parent
      BY <3>2, <3>5, <3>9 DEF Calls
    <3> HIDE DEF full
    <3>12. /\ page'[call'.new_root.children[0]].keys = <<full.keys[1]>>
           /\ call'.new_root.keys = <<full.keys[2]>>
           /\ page'[call'.new_root.children[1]].keys = <<full.keys[3]>>
           /\ page[index_root].keys = full.keys
      BY <3>5, <3>8, <3>9, <3>10, <3>11 DEF full
    <3>13. full.keys[1] \in NodeKeys /\ full.keys[2] \in NodeKeys /\ full.keys[3] \in NodeKeys
      <4>1. Len(full.keys) = 3
        BY <3>5 DEF Full, Order
      <4> QED BY <3>6, <4>1, NodeFields
    <3>14. full.keys = <<full.keys[1]>> \o <<full.keys[2]>> \o <<full.keys[3]>>
      <4> DEFINE a == full.keys[1]
                 b == full.keys[2]
                 c == full.keys[3]
      <4>1. a \in NodeKeys /\ b \in NodeKeys /\ c \in NodeKeys /\ full.keys = <<a, b, c>>
        BY <3>10, <3>13
      <4> HIDE DEF a, b, c
      <4>2. <<a, b, c>> = <<a>> \o <<b>> \o <<c>>
        BY <4>1, OneByOne
      <4> QED BY <4>1, <4>2, Zenon DEF a, b, c
    <3> QED BY <3>12, <3>14
  <2>4. CASE SearchStep
    <3>1. call.kind = "search" /\ call \in Calls /\ ~(call'.kind = "insert")
      <4>1. call.kind = "search" /\ call \in Calls
        BY <1>1, <2>4 DEF SearchStep, BTreeInv, TypeOK
      <4> QED BY <2>4, <4>1 DEF SearchStep, Calls
    <3> QED BY <1>1, <3>1
  <2>9. CASE SearchOverrun
    <3>1. call.kind = "search" /\ call \in Calls
      BY <1>1, <2>9 DEF SearchOverrun, BTreeInv, TypeOK
    <3>2. ~(call'.kind = "insert")
      BY <2>9, <3>1, NoCallIs DEF SearchOverrun, Dies, Calls
    <3> QED BY <1>1, <3>2
  <2>5. CASE InsertIntoLeaf
    <3>1. call \in Calls /\ call' = [call EXCEPT !.kind = "unwind"]
      BY <1>1, <2>5 DEF InsertIntoLeaf, BTreeInv, TypeOK
    <3>2. call'.kind = "unwind"
      BY <3>1 DEF Calls
    <3> QED BY <1>1, <3>2
  <2>6. CASE DescendToChild \/ InsertOverrun
    <3>1. call' = call \/ call' = NoCall
      BY <1>1, <2>6, DescendWrites, OverrunWrites DEF Dies, Descends
    <3> QED BY <1>1, <3>1, NoCallIs
  <2>7. CASE Unwind
    <3>1. call \in Calls /\ call' = [call EXCEPT !.kind = "inserted"]
      BY <1>1, <2>7, UnwindWrites DEF BTreeInv, TypeOK
    <3>2. call'.kind = "inserted"
      BY <3>1 DEF Calls
    <3> QED BY <1>1, <3>2
  <2> HIDE DEF Kept
  <2> QED BY <1>1, <2>1, <2>2, <2>3, <2>4, <2>5, <2>6, <2>7, <2>8, <2>9 DEF Next, Working
<1>2. BTreeInv /\ [Next]_vars => [Splits => Kept]_vars
  BY <1>1
<1> QED BY <1>2, BTreeInvariant, PTL DEF Spec, SplitKeepsKeys

\* An insert into a table with a key, whose root page execute_insert has made
\* a row page, never comes back, however deep the stack, whatever the rows say
\* when read as nodes and wherever index->root_page points (btree.c:186).
THEOREM KeyedInsertsNeverReturn == Spec => [](heap_first => call.kind # "inserted")
<1>1. BTreeInv => (heap_first => call.kind # "inserted")
  BY DEF BTreeInv, CallInv
<1> QED BY <1>1, BTreeInvariant, PTL

=============================================================================
