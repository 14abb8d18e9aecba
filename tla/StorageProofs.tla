--------------------------- MODULE StorageProofs ----------------------------
(***************************************************************************)
(* Theorems about the storage manager, for every cache size and file size. *)
(***************************************************************************)
EXTENDS Storage, SequenceLemmas, FiniteSetTheorems

-----------------------------------------------------------------------------
(* The page array.                                                         *)

\* The scan of sm_get_page returns a cached page with the number asked for.
LEMMA FindInCache ==
  ASSUME TypeOK, NEW id \in PageIds, Hits(id) # {}
  PROVE  /\ Find(id) \in Cached
         /\ Find(id) \in Frames
         /\ frame[Find(id)].page_id = id
<1>1. Hits(id) \subseteq 1 .. Len(pages)
  BY LenProperties DEF Hits, TypeOK
<1>2. \E i \in Hits(id) : \A j \in Hits(id) : i <= j
  BY <1>1, LeastPosition, LenProperties DEF TypeOK
<1> QED BY <1>1, <1>2, ElementOfSeq DEF Find, Hits, Cached, ToSet, TypeOK

\* Swapping the last entry into the victim's place drops the victim only.
LEMMA SwapRemoveDrops ==
  ASSUME NEW s \in Seq(Frames), NEW v \in ToSet(s),
         \A i, j \in DOMAIN s : s[i] = s[j] => i = j
  PROVE  /\ SwapRemove(s, v) \in Seq(Frames)
         /\ Len(SwapRemove(s, v)) = Len(s) - 1
         /\ ToSet(SwapRemove(s, v)) = ToSet(s) \ {v}
         /\ \A i, j \in DOMAIN SwapRemove(s, v) :
              SwapRemove(s, v)[i] = SwapRemove(s, v)[j] => i = j
<1> DEFINE n == Len(s)
           r == SwapRemove(s, v)
<1>1. n \in Nat /\ DOMAIN s = 1 .. n /\ \A i \in 1 .. n : s[i] \in Frames
  BY LenProperties, ElementOfSeq
<1>2. PICK k \in 1 .. n : s[k] = v
  BY <1>1 DEF ToSet
<1>3. n - 1 \in Nat
  BY <1>1, <1>2
<1>4. r \in [1 .. n - 1 -> Frames]
  BY <1>1, <1>3 DEF SwapRemove
<1>5. r \in Seq(Frames) /\ Len(r) = n - 1 /\ DOMAIN r = 1 .. n - 1
  BY <1>3, <1>4
<1>6. \A i \in 1 .. n - 1 : r[i] = IF i = k THEN s[n] ELSE s[i]
  BY <1>1, <1>2 DEF SwapRemove
<1>7. ToSet(r) = ToSet(s) \ {v}
  <2>1. ToSet(r) \subseteq ToSet(s) \ {v}
    BY <1>1, <1>2, <1>5, <1>6 DEF ToSet
  <2>2. ASSUME NEW i \in 1 .. n, s[i] # v  PROVE s[i] \in ToSet(r)
    <3> DEFINE j == IF i = n THEN k ELSE i
    <3>1. j \in 1 .. n - 1 /\ r[j] = s[i]
      BY <1>1, <1>2, <1>6, <2>2
    <3> QED BY <1>5, <3>1, InSequence
  <2>3. ASSUME NEW x \in ToSet(s) \ {v}  PROVE x \in ToSet(r)
    BY <2>2, InSequence
  <2> QED BY <2>1, <2>3
<1>8. \A i, j \in 1 .. n - 1 : r[i] = r[j] => i = j
  BY <1>1, <1>2, <1>6
<1> HIDE DEF r
<1> QED BY <1>5, <1>7, <1>8 DEF r

-----------------------------------------------------------------------------
(* The LRU list.                                                           *)

ListType == [head : Pointers, tail : Pointers,
             prev : [Frames -> Pointers], next : [Frames -> Pointers]]

\* lru_remove takes one page out of the order and leaves the rest as it was.
LEMMA RemoveFromList ==
  ASSUME NEW l \in ListType, NEW s \in Seq(Frames), NEW S, IsList(l, s, S), NEW f \in S
  PROVE  /\ LruRemove(l, f) \in ListType
         /\ \E t \in Seq(Frames) : IsList(LruRemove(l, f), t, S \ {f})
         /\ \A k \in 1 .. Len(s) : s[k] = f => IsList(LruRemove(l, f), RemoveAt(s, k), S \ {f})
<1> DEFINE n == Len(s)
           m == LruRemove(l, f)
<1>1. n \in Nat /\ DOMAIN s = 1 .. n /\ \A i \in 1 .. n : s[i] \in Frames
  BY LenProperties, ElementOfSeq
<1>2. PICK k \in 1 .. n : s[k] = f
  BY <1>1 DEF IsList, ToSet
<1> DEFINE t == [i \in 1 .. n - 1 |-> IF i < k THEN s[i] ELSE s[i + 1]]
<1>3. n - 1 \in Nat
  BY <1>1, <1>2
<1>7. \A i, j \in 1 .. n : s[i] = s[j] => i = j
  BY <1>1 DEF IsList
<1>8. \A i \in 1 .. n : /\ l.prev[s[i]] = IF i = 1 THEN NULL ELSE s[i - 1]
                        /\ l.next[s[i]] = IF i = n THEN NULL ELSE s[i + 1]
  BY <1>1 DEF IsList
<1>9. \A i \in 1 .. n : s[i] # NULL
  BY <1>1, StorageAssumption
<1>4. t \in Seq(Frames) /\ Len(t) = n - 1 /\ DOMAIN t = 1 .. n - 1
  <2>1. t \in [1 .. n - 1 -> Frames]
    BY <1>1, <1>2, <1>3
  <2> QED BY <1>3, <2>1
<1>5. f \in Frames /\ m \in ListType
  BY <1>1, <1>2 DEF LruRemove, ListType, Pointers
<1>10. \A i \in 1 .. n - 1 : t[i] = IF i < k THEN s[i] ELSE s[i + 1]
  OBVIOUS
<1>11. (n = 0 <=> s = <<>>) /\ (n - 1 = 0 <=> t = <<>>)
  BY <1>1, <1>4, EmptySeq
<1>12. /\ ToSet(s) = S
       /\ l.head = IF n = 0 THEN NULL ELSE s[1]
       /\ l.tail = IF n = 0 THEN NULL ELSE s[n]
  BY <1>11 DEF IsList
<1> HIDE DEF n, t
<1>6. IsList(m, t, S \ {f})
  <2>1. ToSet(t) = S \ {f}
    <3>1. \A i \in 1 .. n - 1 : t[i] \in S \ {f}
      <4>1. \A i \in 1 .. n : s[i] \in S
        BY <1>12, InSequence DEF n
      <4> QED BY <1>1, <1>2, <1>7, <1>10, <4>1
    <3>2. ASSUME NEW x \in S \ {f}  PROVE x \in ToSet(t)
      <4>1. PICK i \in 1 .. n : s[i] = x
        BY <1>12, InSequence DEF n
      <4> DEFINE j == IF i < k THEN i ELSE i - 1
      <4>2. j \in 1 .. n - 1 /\ t[j] = x
        BY <1>1, <1>2, <1>10, <4>1
      <4> QED BY <1>4, <4>2, InSequence
    <3>3. ASSUME NEW x \in ToSet(t)  PROVE x \in S \ {f}
      BY <1>4, <3>1, InSequence
    <3> QED BY <3>2, <3>3
  <2>2. \A i, j \in 1 .. n - 1 : t[i] = t[j] => i = j
    BY <1>1, <1>2, <1>7, <1>10
  <2>3. m.head = IF n - 1 = 0 THEN NULL ELSE t[1]
    <3>1. m.head = IF l.head = f THEN l.next[f] ELSE l.head
      BY DEF LruRemove
    <3>2. CASE k = 1
      BY <1>1, <1>2, <1>8, <1>10, <1>12, <3>1, <3>2
    <3>3. CASE k # 1
      BY <1>1, <1>2, <1>7, <1>10, <1>12, <3>1, <3>3
    <3> QED BY <3>2, <3>3
  <2>4. m.tail = IF n - 1 = 0 THEN NULL ELSE t[n - 1]
    <3>1. m.tail = IF l.tail = f THEN l.prev[f] ELSE l.tail
      BY DEF LruRemove
    <3>2. CASE k = n
      BY <1>1, <1>2, <1>8, <1>10, <1>12, <3>1, <3>2
    <3>3. CASE k # n
      BY <1>1, <1>2, <1>7, <1>10, <1>12, <3>1, <3>3
    <3> QED BY <3>2, <3>3
  <2>5. ASSUME NEW i \in DOMAIN t
        PROVE  /\ m.prev[t[i]] = IF i = 1 THEN NULL ELSE t[i - 1]
               /\ m.next[t[i]] = IF i = Len(t) THEN NULL ELSE t[i + 1]
    <3>1. i \in 1 .. n - 1 /\ t[i] \in Frames \ {f}
      BY <1>1, <1>2, <1>4, <1>7, <1>10
    <3>2. m.prev[t[i]] = IF t[i] = l.next[f] THEN l.prev[f] ELSE l.prev[t[i]]
      BY <3>1 DEF LruRemove
    <3>3. m.next[t[i]] = IF t[i] = l.prev[f] THEN l.next[f] ELSE l.next[t[i]]
      BY <3>1 DEF LruRemove
    <3>4. /\ l.prev[f] = IF k = 1 THEN NULL ELSE s[k - 1]
          /\ l.next[f] = IF k = n THEN NULL ELSE s[k + 1]
      BY <1>2, <1>8
    <3>5. CASE i < k
      <4>1. i \in 1 .. n /\ t[i] = s[i] /\ (i # 1 => t[i - 1] = s[i - 1])
        BY <1>1, <1>2, <3>1, <3>5, <1>10
      <4>2. s[i] # l.next[f]
        BY <1>1, <1>2, <1>7, <1>9, <3>4, <3>5, <4>1
      <4>3. s[i] = l.prev[f] <=> i = k - 1
        BY <1>1, <1>2, <1>7, <1>9, <3>4, <3>5, <4>1
      <4>4. m.prev[t[i]] = IF i = 1 THEN NULL ELSE t[i - 1]
        BY <1>8, <3>2, <4>1, <4>2
      <4>5. CASE i = k - 1
        <5>1. k # n => k \in 1 .. n - 1 /\ t[k] = s[k + 1]
          BY <1>1, <1>2, <1>10
        <5> QED BY <1>1, <1>2, <1>4, <3>3, <3>4, <4>1, <4>3, <4>4, <4>5, <5>1
      <4>6. CASE i # k - 1
        <5>1. i + 1 \in 1 .. n - 1 /\ t[i + 1] = s[i + 1]
          BY <1>1, <1>2, <3>1, <3>5, <4>6, <1>10
        <5>2. l.next[s[i]] = s[i + 1]
          BY <1>1, <1>2, <1>8, <4>1, <5>1
        <5> QED BY <1>1, <1>2, <1>4, <3>3, <4>1, <4>3, <4>4, <4>6, <5>1, <5>2
      <4> QED BY <4>5, <4>6
    <3>6. CASE i >= k
      <4> DEFINE p == i + 1
      <4>1. p \in 1 .. n /\ p - 1 = i /\ p # 1 /\ t[i] = s[p]
        BY <1>1, <1>2, <3>1, <3>6, <1>10
      <4>2. l.prev[s[p]] = s[i] /\ l.next[s[p]] = IF p = n THEN NULL ELSE s[p + 1]
        BY <1>8, <4>1
      <4>3. s[p] # l.prev[f]
        BY <1>1, <1>2, <1>7, <1>9, <3>4, <3>6, <4>1
      <4>4. s[p] = l.next[f] <=> i = k
        BY <1>1, <1>2, <1>7, <1>9, <3>4, <3>6, <4>1
      <4>5. m.next[t[i]] = IF i = Len(t) THEN NULL ELSE t[i + 1]
        <5>1. i # n - 1 => i + 1 \in 1 .. n - 1 /\ t[i + 1] = s[p + 1]
          BY <1>1, <1>2, <3>1, <3>6, <1>10
        <5> QED BY <1>1, <1>4, <3>1, <3>3, <4>1, <4>2, <4>3, <5>1
      <4>6. m.prev[t[i]] = IF i = 1 THEN NULL ELSE t[i - 1]
        <5>1. CASE i = k
          <6>1. i # 1 => t[i - 1] = s[i - 1]
            BY <1>1, <1>2, <3>1, <5>1, <1>10
          <6> QED BY <3>2, <3>4, <4>1, <4>4, <5>1, <6>1
        <5>2. CASE i # k
          <6>1. i # 1 /\ t[i - 1] = s[i]
            BY <1>1, <1>2, <3>1, <3>6, <5>2, <1>10
          <6> QED BY <3>2, <4>1, <4>2, <4>4, <5>2, <6>1
        <5> QED BY <5>1, <5>2
      <4> QED BY <4>5, <4>6
    <3> QED BY <1>1, <1>2, <3>1, <3>5, <3>6
  <2> QED BY <1>4, <1>11, <2>1, <2>2, <2>3, <2>4, <2>5 DEF IsList
<1>13. ASSUME NEW j \in 1 .. n, s[j] = f
       PROVE  IsList(m, RemoveAt(s, j), S \ {f})
  <2>1. j = k
    BY <1>2, <1>7, <1>13
  <2>2. /\ RemoveAt(s, k) \in Seq(Frames) /\ Len(RemoveAt(s, k)) = n - 1
        /\ \A i \in 1 .. n - 1 : RemoveAt(s, k)[i] = IF i < k THEN s[i] ELSE s[i + 1]
    BY <1>2, RemoveAtCloses DEF n
  <2>3. RemoveAt(s, k) = t
    BY <1>4, <1>10, <2>2, SeqEqual
  <2> QED BY <1>6, <2>1, <2>3
<1> QED BY <1>4, <1>5, <1>6, <1>13 DEF n

\* lru_insert_front puts a page that is not on the list before all others.
LEMMA InsertIntoList ==
  ASSUME NEW l \in ListType, NEW s \in Seq(Frames), NEW S, IsList(l, s, S),
         NEW f \in Frames, f \notin S
  PROVE  /\ LruInsertFront(l, f) \in ListType
         /\ \E t \in Seq(Frames) : IsList(LruInsertFront(l, f), t, S \cup {f})
         /\ IsList(LruInsertFront(l, f), <<f>> \o s, S \cup {f})
<1> DEFINE n == Len(s)
           m == LruInsertFront(l, f)
           t == [i \in 1 .. n + 1 |-> IF i = 1 THEN f ELSE s[i - 1]]
<1>1. n \in Nat /\ DOMAIN s = 1 .. n /\ \A i \in 1 .. n : s[i] \in Frames
  BY LenProperties, ElementOfSeq
<1>2. t \in Seq(Frames) /\ Len(t) = n + 1 /\ DOMAIN t = 1 .. n + 1
  <2>1. t \in [1 .. n + 1 -> Frames]
    BY <1>1
  <2> QED BY <1>1, <2>1
<1>3. \A i \in 1 .. n + 1 : t[i] = IF i = 1 THEN f ELSE s[i - 1]
  OBVIOUS
<1>4. m \in ListType
  BY DEF LruInsertFront, ListType, Pointers
<1>5. (n = 0 <=> s = <<>>) /\ t # <<>>
  BY <1>1, <1>2, EmptySeq
<1>6. /\ ToSet(s) = S
      /\ l.head = IF n = 0 THEN NULL ELSE s[1]
      /\ l.tail = IF n = 0 THEN NULL ELSE s[n]
  BY <1>5 DEF IsList
<1>7. \A i, j \in 1 .. n : s[i] = s[j] => i = j
  BY <1>1 DEF IsList
<1>8. \A i \in 1 .. n : /\ l.prev[s[i]] = IF i = 1 THEN NULL ELSE s[i - 1]
                        /\ l.next[s[i]] = IF i = n THEN NULL ELSE s[i + 1]
  BY <1>1 DEF IsList
<1>9. \A i \in 1 .. n : s[i] \in S /\ s[i] # f /\ s[i] # NULL
  BY <1>1, <1>6, InSequence, StorageAssumption
<1> HIDE DEF n, t
<1>10. IsList(m, t, S \cup {f})
  <2>1. ToSet(t) = S \cup {f}
    <3>1. ASSUME NEW x \in ToSet(t)  PROVE x \in S \cup {f}
      <4>1. PICK i \in 1 .. n + 1 : t[i] = x
        BY <1>2, InSequence
      <4>2. i # 1 => i - 1 \in 1 .. n
        BY <1>1
      <4>3. CASE i = 1
        BY <1>3, <4>1, <4>3
      <4>4. CASE i # 1
        BY <1>3, <1>9, <4>1, <4>2, <4>4
      <4> QED BY <4>3, <4>4
    <3>2. ASSUME NEW x \in S  PROVE x \in ToSet(t)
      <4>1. PICK i \in 1 .. n : s[i] = x
        BY <1>6, InSequence DEF n
      <4>2. i + 1 \in 1 .. n + 1 /\ t[i + 1] = x
        BY <1>1, <1>3, <4>1
      <4> QED BY <1>2, <4>2, InSequence
    <3>3. f \in ToSet(t)
      <4>1. 1 \in 1 .. n + 1 /\ t[1] = f
        BY <1>1, <1>3
      <4> QED BY <1>2, <4>1, InSequence
    <3> QED BY <3>1, <3>2, <3>3
  <2>2. \A i, j \in 1 .. n + 1 : t[i] = t[j] => i = j
    <3> SUFFICES ASSUME NEW i \in 1 .. n + 1, NEW j \in 1 .. n + 1, t[i] = t[j]
                 PROVE  i = j
      OBVIOUS
    <3>1. (i # 1 => i - 1 \in 1 .. n) /\ (j # 1 => j - 1 \in 1 .. n)
      BY <1>1
    <3>2. CASE i = 1 \/ j = 1
      BY <1>3, <1>9, <3>1, <3>2
    <3>3. CASE i # 1 /\ j # 1
      <4>1. i - 1 = j - 1
        BY <1>3, <1>7, <3>1, <3>3
      <4> QED BY <4>1
    <3> QED BY <3>2, <3>3
  <2>3. m.head = t[1]
    BY <1>1, <1>3 DEF LruInsertFront
  <2>4. m.tail = t[n + 1]
    <3>1. m.tail = IF l.tail = NULL THEN f ELSE l.tail
      BY DEF LruInsertFront
    <3>2. CASE n = 0
      BY <1>1, <1>3, <1>6, <3>1, <3>2
    <3>3. CASE n # 0
      BY <1>1, <1>3, <1>6, <1>9, <3>1, <3>3
    <3> QED BY <3>2, <3>3
  <2>5. ASSUME NEW i \in 1 .. n + 1
        PROVE  /\ m.prev[t[i]] = IF i = 1 THEN NULL ELSE t[i - 1]
               /\ m.next[t[i]] = IF i = n + 1 THEN NULL ELSE t[i + 1]
    <3>1. t[i] \in Frames
      BY <1>1, <1>3
    <3>2. m.prev[t[i]] = IF t[i] = f THEN NULL ELSE IF t[i] = l.head THEN f ELSE l.prev[t[i]]
      BY <3>1 DEF LruInsertFront
    <3>3. m.next[t[i]] = IF t[i] = f THEN l.head ELSE l.next[t[i]]
      BY <3>1 DEF LruInsertFront, ListType
    <3>4. CASE i = 1
      <4>1. n # 0 => i + 1 \in 1 .. n + 1 /\ t[i + 1] = s[1]
        BY <1>1, <1>3, <3>4
      <4> QED BY <1>1, <1>3, <1>6, <3>2, <3>3, <3>4, <4>1
    <3>5. CASE i # 1
      <4> DEFINE p == i - 1
      <4>1. p \in 1 .. n /\ t[i] = s[p] /\ (p = n <=> i = n + 1)
        BY <1>1, <1>3, <3>5
      <4>2. s[p] = l.head <=> p = 1
        BY <1>1, <1>6, <1>7, <4>1
      <4>3. m.prev[t[i]] = t[i - 1]
        <5>1. t[p] = IF p = 1 THEN f ELSE s[p - 1]
          BY <1>1, <1>3, <4>1
        <5> QED BY <1>8, <1>9, <3>2, <4>1, <4>2, <5>1
      <4>4. m.next[t[i]] = IF i = n + 1 THEN NULL ELSE t[i + 1]
        <5>1. i # n + 1 => i + 1 \in 1 .. n + 1 /\ t[i + 1] = s[p + 1]
          BY <1>1, <1>3, <3>5
        <5> QED BY <1>8, <1>9, <3>3, <4>1, <5>1
      <4> QED BY <3>5, <4>3, <4>4
    <3> QED BY <3>4, <3>5
  <2> QED BY <1>2, <1>5, <2>1, <2>2, <2>3, <2>4, <2>5 DEF IsList
<1>11. t = <<f>> \o s
  <2>1. /\ <<f>> \o s \in Seq(Frames) /\ Len(<<f>> \o s) = n + 1
        /\ \A i \in 1 .. n + 1 : (<<f>> \o s)[i] = IF i = 1 THEN f ELSE s[i - 1]
    BY PrependShifts DEF n
  <2> QED BY <1>2, <1>3, <2>1, SeqEqual
<1> QED BY <1>2, <1>4, <1>10, <1>11

\* What a list looks like from one of its pages.
LEMMA ListShape ==
  ASSUME NEW l \in ListType, NEW s \in Seq(Frames), NEW S, IsList(l, s, S)
  PROVE  /\ S \subseteq Frames
         /\ l.head \in S \cup {NULL}
         /\ l.tail \in S \cup {NULL}
         /\ (l.head = NULL) <=> (S = {})
         /\ (l.tail = NULL) <=> (S = {})
         /\ \A f \in S :
              /\ l.prev[f] \in S \cup {NULL}
              /\ l.next[f] \in S \cup {NULL}
              /\ (l.prev[f] = NULL) <=> (l.head = f)
              /\ (l.next[f] = NULL) <=> (l.tail = f)
              /\ l.next[f] # NULL => l.prev[l.next[f]] = f
              /\ l.prev[f] # NULL => l.next[l.prev[f]] = f
<1> DEFINE n == Len(s)
<1>1. n \in Nat /\ DOMAIN s = 1 .. n /\ (n = 0 <=> s = <<>>)
  BY LenProperties, EmptySeq
<1>2. \A i \in 1 .. n : s[i] \in S /\ s[i] \in Frames /\ s[i] # NULL
  BY <1>1, InSequence, ElementOfSeq, StorageAssumption DEF IsList
<1>3. \A f \in S : \E i \in 1 .. n : s[i] = f
  BY InSequence DEF IsList
<1>4. \A i, j \in 1 .. n : s[i] = s[j] => i = j
  BY <1>1 DEF IsList
<1>5. \A i \in 1 .. n : /\ l.prev[s[i]] = IF i = 1 THEN NULL ELSE s[i - 1]
                        /\ l.next[s[i]] = IF i = n THEN NULL ELSE s[i + 1]
  BY <1>1 DEF IsList
<1>6. /\ l.head = IF n = 0 THEN NULL ELSE s[1]
      /\ l.tail = IF n = 0 THEN NULL ELSE s[n]
  BY <1>1 DEF IsList
<1> HIDE DEF n
<1>7. n = 0 <=> S = {}
  BY <1>1, <1>2, <1>3
<1>8. n # 0 => 1 \in 1 .. n /\ n \in 1 .. n
  BY <1>1
<1>9. ASSUME NEW f \in S
      PROVE  /\ l.prev[f] \in S \cup {NULL}
             /\ l.next[f] \in S \cup {NULL}
             /\ (l.prev[f] = NULL) <=> (l.head = f)
             /\ (l.next[f] = NULL) <=> (l.tail = f)
             /\ l.next[f] # NULL => l.prev[l.next[f]] = f
             /\ l.prev[f] # NULL => l.next[l.prev[f]] = f
  <2>1. PICK i \in 1 .. n : s[i] = f
    BY <1>3
  <2>2. /\ i # 1 => i - 1 \in 1 .. n /\ (i - 1) + 1 = i /\ i - 1 # n
        /\ i # n => i + 1 \in 1 .. n /\ (i + 1) - 1 = i /\ i + 1 # 1
    BY <1>1
  <2>3. (i = 1 <=> l.head = f) /\ (i = n <=> l.tail = f)
    BY <1>1, <1>4, <1>6, <1>8, <2>1
  <2>4. l.prev[f] = (IF i = 1 THEN NULL ELSE s[i - 1])
        /\ l.next[f] = (IF i = n THEN NULL ELSE s[i + 1])
    BY <1>5, <2>1
  <2>5. i # n => l.prev[s[i + 1]] = s[i]
    BY <1>5, <2>2
  <2>6. i # 1 => l.next[s[i - 1]] = s[i]
    BY <1>5, <2>2
  <2> QED BY <1>2, <2>1, <2>2, <2>3, <2>4, <2>5, <2>6
<1> QED BY <1>2, <1>3, <1>6, <1>7, <1>8, <1>9

-----------------------------------------------------------------------------
(* The inductive invariant: the types; the list is some order of the       *)
(* fetched pages and the others are loose; and a full cache always has a   *)
(* page to evict, or holds the page that is fetched next.                  *)

Loose(l, S) == \A f \in S : l.prev[f] \in {NULL, WILD} /\ l.next[f] \in {NULL, WILD}

ListInv ==
  proc = "running" =>
    /\ fresh \subseteq Cached
    /\ Loose(lru, fresh)
    /\ \E s \in Seq(Frames) : IsList(lru, s, Listed)

RoomInv ==
  /\ Len(pages) <= MaxCache
  /\ proc # "down" => page_count # 0
  /\ proc = "running" /\ Len(pages) = MaxCache =>
       Listed # {} \/ (pending # 0 /\ Hits(pending) # {})

IdleInv ==
  /\ proc # "running" => lru = EmptyList /\ fresh = {} /\ held = NULL
  /\ proc = "down" => pages = <<>>

CacheInv == TypeOK /\ NoFrameTwice /\ ListInv /\ RoomInv /\ IdleInv

\* Writing a page back keeps the file a file.
LEMMA PersistTypes ==
  ASSUME NEW f, frame[f] \in [page_id : PageIds, data : Content, is_dirty : BOOLEAN],
         disk \in [PageIds -> Content], disk_pages \in 0 .. MaxPages
  PROVE  /\ PersistTo(OnDisk, f).disk \in [PageIds -> Content]
         /\ PersistTo(OnDisk, f).pages \in 0 .. MaxPages
<1>1. CASE frame[f].is_dirty
  <2>1. /\ PersistTo(OnDisk, f).disk = [disk EXCEPT ![frame[f].page_id] = frame[f].data]
        /\ PersistTo(OnDisk, f).pages = Later(disk_pages, frame[f].page_id + 1)
    BY <1>1 DEF PersistTo, OnDisk
  <2>2. Later(disk_pages, frame[f].page_id + 1) \in 0 .. MaxPages
    BY StorageAssumption DEF Later, PageIds
  <2>3. [disk EXCEPT ![frame[f].page_id] = frame[f].data] \in [PageIds -> Content]
    OBVIOUS
  <2> QED BY <2>1, <2>2, <2>3
<1>2. CASE ~frame[f].is_dirty
  BY <1>2 DEF PersistTo, OnDisk
<1> QED BY <1>1, <1>2

\* Evicting makes room, drops only pages that are on the list, and keeps the
\* list an order of the rest.
LEMMA EvictionMakesRoom ==
  ASSUME CacheInv, NEW id \in PageIds, MayFetch(id), Hits(id) = {}
  PROVE  /\ MadeRoom.pages \in Seq(Frames)
         /\ Len(MadeRoom.pages) < MaxCache
         /\ \A i, j \in DOMAIN MadeRoom.pages :
              MadeRoom.pages[i] = MadeRoom.pages[j] => i = j
         /\ MadeRoom.freed \subseteq Listed
         /\ ToSet(MadeRoom.pages) = Cached \ MadeRoom.freed
         /\ MadeRoom.lru \in ListType
         /\ Loose(MadeRoom.lru, fresh)
         /\ \E s \in Seq(Frames) : IsList(MadeRoom.lru, s, Listed \ MadeRoom.freed)
         /\ MadeRoom.file.disk \in [PageIds -> Content]
         /\ MadeRoom.file.pages \in 0 .. MaxPages
<1>1. /\ proc = "running" /\ pages \in Seq(Frames) /\ Len(pages) \in Nat
      /\ lru \in ListType /\ fresh \subseteq Cached /\ Loose(lru, fresh)
      /\ \A i, j \in DOMAIN pages : pages[i] = pages[j] => i = j
      /\ disk \in [PageIds -> Content] /\ disk_pages \in 0 .. MaxPages
  BY LenProperties DEF CacheInv, TypeOK, NoFrameTwice, ListInv, ListType, MayFetch
<1>2. PICK s \in Seq(Frames) : IsList(lru, s, Listed)
  BY <1>1 DEF CacheInv, ListInv
<1>3. CASE Room
  BY <1>1, <1>2, <1>3, StorageAssumption DEF MadeRoom, Unchanged, Room, OnDisk, Cached
<1>4. CASE ~Room
  <2> DEFINE v == lru.tail
  <2>1. Listed # {}
    BY <1>1, <1>4, StorageAssumption DEF CacheInv, RoomInv, Room, MayFetch
  <2>2. v \in Listed /\ v # NULL /\ v \in Cached /\ v \in Frames
    <3>1. lru.tail \in Listed \cup {NULL} /\ lru.tail # NULL /\ Listed \subseteq Frames
      BY <1>1, <1>2, <2>1, ListShape
    <3> QED BY <3>1 DEF Listed
  <2>3. MadeRoom = Evict(v)
    BY <1>4, <2>2 DEF MadeRoom
  <2>4. /\ SwapRemove(pages, v) \in Seq(Frames)
        /\ Len(SwapRemove(pages, v)) = Len(pages) - 1
        /\ ToSet(SwapRemove(pages, v)) = Cached \ {v}
        /\ \A i, j \in DOMAIN SwapRemove(pages, v) :
             SwapRemove(pages, v)[i] = SwapRemove(pages, v)[j] => i = j
    BY <1>1, <2>2, SwapRemoveDrops DEF Cached
  <2>5. /\ LruRemove(lru, v) \in ListType
        /\ \E t \in Seq(Frames) : IsList(LruRemove(lru, v), t, Listed \ {v})
    BY <1>1, <1>2, <2>2, RemoveFromList
  <2>6. Loose(LruRemove(lru, v), fresh)
    <3>1. lru.prev[v] \in Listed \cup {NULL} /\ lru.next[v] \in Listed \cup {NULL}
      BY <1>1, <1>2, <2>2, ListShape
    <3>2. \A f \in fresh : f \in Frames \ {v} /\ f \notin Listed /\ f # NULL
      BY <1>1, <2>2, InSequence, StorageAssumption DEF Listed, Cached
    <3> QED BY <1>1, <3>1, <3>2 DEF Loose, LruRemove
  <2>7. /\ PersistTo(OnDisk, v).disk \in [PageIds -> Content]
        /\ PersistTo(OnDisk, v).pages \in 0 .. MaxPages
    <3>1. frame[v] \in [page_id : PageIds, data : Content, is_dirty : BOOLEAN]
      BY <2>2 DEF CacheInv, TypeOK
    <3> QED BY <1>1, <3>1, PersistTypes DEF CacheInv, TypeOK
  <2>8. Len(SwapRemove(pages, v)) < MaxCache
    BY <1>1, <2>4, StorageAssumption DEF CacheInv, RoomInv
  <2> QED BY <2>2, <2>3, <2>4, <2>5, <2>6, <2>7, <2>8 DEF Evict
<1> QED BY <1>3, <1>4

\* Adding one page that is not there yet.
LEMMA AppendPage ==
  ASSUME NEW s \in Seq(Frames), NEW f \in Frames \ ToSet(s),
         \A i, j \in DOMAIN s : s[i] = s[j] => i = j
  PROVE  /\ Append(s, f) \in Seq(Frames)
         /\ Len(Append(s, f)) = Len(s) + 1
         /\ ToSet(Append(s, f)) = ToSet(s) \cup {f}
         /\ \A i, j \in DOMAIN Append(s, f) : Append(s, f)[i] = Append(s, f)[j] => i = j
<1> DEFINE n == Len(s)
           r == Append(s, f)
<1>1. n \in Nat /\ DOMAIN s = 1 .. n
  BY LenProperties
<1>2. r \in Seq(Frames) /\ Len(r) = n + 1 /\ DOMAIN r = 1 .. n + 1
  BY <1>1
<1>3. \A i \in 1 .. n + 1 : r[i] = IF i = n + 1 THEN f ELSE s[i]
  BY <1>1
<1>4. \A i \in 1 .. n : s[i] \in ToSet(s) /\ s[i] # f
  BY InSequence
<1> HIDE DEF n, r
<1>5. \A i, j \in 1 .. n + 1 : r[i] = r[j] => i = j
  BY <1>1, <1>3, <1>4
<1>6. ToSet(r) = ToSet(s) \cup {f}
  <2>1. ASSUME NEW x \in ToSet(r)  PROVE x \in ToSet(s) \cup {f}
    <3>1. PICK i \in 1 .. n + 1 : r[i] = x
      BY <1>2, InSequence
    <3> QED BY <1>1, <1>3, <1>4, <3>1
  <2>2. ASSUME NEW x \in ToSet(s)  PROVE x \in ToSet(r)
    <3>1. PICK i \in 1 .. n : s[i] = x
      BY InSequence DEF n
    <3>2. i \in 1 .. n + 1 /\ r[i] = x
      BY <1>1, <1>3, <3>1
    <3> QED BY <1>2, <3>2, InSequence
  <2>3. f \in ToSet(r)
    <3>1. n + 1 \in 1 .. n + 1 /\ r[n + 1] = f
      BY <1>1, <1>3
    <3> QED BY <1>2, <3>1, InSequence
  <2> QED BY <2>1, <2>2, <2>3
<1> QED BY <1>2, <1>5, <1>6 DEF n, r

\* An empty page array caches nothing (sm_open).
LEMMA EmptyCache ==
  /\ <<>> \in Seq(Frames)
  /\ Len(<<>>) = 0
  /\ ToSet(<<>>) = {}
  /\ DOMAIN <<>> = {}
BY EmptySeq DEF ToSet

\* Before the first sm_open there is no cache to go wrong.
LEMMA InitCacheInv == Init => CacheInv
<1> SUFFICES ASSUME Init  PROVE CacheInv
  OBVIOUS
<1>1. TypeOK
  <2>1. 0 \in PageIds /\ 0 \in 0 .. MaxPages
    BY StorageAssumption DEF PageIds
  <2>2. frame \in [Frames -> [page_id : PageIds, data : Content, is_dirty : BOOLEAN]]
    BY <2>1, StorageAssumption DEF Init, Blank
  <2>3. EmptyList \in ListType
    BY DEF EmptyList, ListType, Pointers
  <2> QED BY <2>1, <2>2, <2>3, EmptyCache, StorageAssumption DEF Init, TypeOK, ListType
<1>2. NoFrameTwice
  BY EmptyCache DEF Init, NoFrameTwice
<1>3. ListInv
  BY DEF Init, ListInv
<1>4. RoomInv
  BY EmptyCache, StorageAssumption DEF Init, RoomInv
<1>5. IdleInv
  BY DEF Init, IdleInv
<1> QED BY <1>1, <1>2, <1>3, <1>4, <1>5 DEF CacheInv

\* Losing the memory leaves an empty cache and an intact file.
LEMMA DeathKeepsCacheInv ==
  ASSUME CacheInv, MemoryLost, crashed' = TRUE,
         disk' \in [PageIds -> Content], disk_pages' \in 0 .. MaxPages,
         disk_count' = disk_count
  PROVE  CacheInv'
<1>1. TypeOK'
  BY EmptyCache, StorageAssumption
  DEF CacheInv, MemoryLost, TypeOK, Blank, EmptyList, Pointers, PageIds
<1>2. NoFrameTwice'
  BY EmptyCache DEF MemoryLost, NoFrameTwice
<1>3. ListInv' /\ RoomInv' /\ IdleInv'
  BY EmptyCache, StorageAssumption DEF MemoryLost, ListInv, RoomInv, IdleInv, EmptyList
<1> QED BY <1>1, <1>2, <1>3 DEF CacheInv

\* lru_remove of a page that was allocated and is on no list, and whose
\* pointers happen to be NULL, changes nothing.
LEMMA RemoveFresh ==
  ASSUME NEW l \in ListType, NEW s \in Seq(Frames), NEW S, IsList(l, s, S),
         NEW f \in Frames, f \notin S, l.prev[f] = NULL, l.next[f] = NULL
  PROVE  LruRemove(l, f) = l
<1>1. l.head # f /\ l.tail # f
  <2>1. l.head \in S \cup {NULL} /\ l.tail \in S \cup {NULL}
    BY ListShape
  <2> QED BY <2>1, StorageAssumption
<1> QED BY <1>1, StorageAssumption DEF LruRemove, ListType

\* sm_get_page on a cached page, lru_touch included: a page on the list moves
\* to the front, a page that was allocated joins it, and a wild link kills.
LEMMA HitKeepsCacheInv ==
  ASSUME CacheInv, NEW id \in PageIds, CacheHit(id)
  PROVE  CacheInv'
<1> DEFINE f == Find(id)
<1>1. /\ MayFetch(id) /\ Hits(id) # {} /\ proc = "running"
      /\ UNCHANGED <<disk, disk_pages, disk_count>>
  BY DEF CacheHit, MayFetch
<1>2. TypeOK /\ ListInv /\ fresh \subseteq Cached /\ Loose(lru, fresh) /\ lru \in ListType
  BY <1>1 DEF CacheInv, ListInv, TypeOK, ListType
<1>3. f \in Cached /\ f \in Frames
  BY <1>1, <1>2, FindInCache
<1>4. CASE WILD \in {lru.prev[f], lru.next[f]}
  <2>1. MemoryLost /\ crashed' = TRUE
    BY <1>4 DEF CacheHit
  <2> QED BY <1>1, <1>2, <2>1, DeathKeepsCacheInv DEF TypeOK
<1>5. CASE WILD \notin {lru.prev[f], lru.next[f]}
  <2>1. /\ lru' = LruTouch(lru, f) /\ held' = f /\ pending' = 0 /\ fresh' = fresh \ {f}
        /\ UNCHANGED <<proc, page_count, pages, frame, crashed, disk, disk_pages, disk_count>>
    BY <1>1, <1>5 DEF CacheHit
  <2>2. PICK s \in Seq(Frames) : IsList(lru, s, Listed)
    BY <1>1, <1>2 DEF ListInv
  <2> DEFINE m == LruRemove(lru, f)
  <2>3. /\ m \in ListType
        /\ \E t \in Seq(Frames) : IsList(m, t, Listed \ {f})
        /\ Loose(m, fresh \ {f})
    <3>1. CASE f \in Listed
      <4>1. m \in ListType /\ \E t \in Seq(Frames) : IsList(m, t, Listed \ {f})
        BY <1>2, <2>2, <3>1, RemoveFromList
      <4>2. lru.prev[f] \in Listed \cup {NULL} /\ lru.next[f] \in Listed \cup {NULL}
        BY <1>2, <2>2, <3>1, ListShape
      <4>3. \A g \in fresh : g \in Frames \ {f} /\ g \notin Listed /\ g # NULL
        BY <1>2, <3>1, InSequence, StorageAssumption DEF Listed, Cached, TypeOK
      <4>4. Loose(m, fresh \ {f})
        BY <1>2, <4>2, <4>3 DEF Loose, LruRemove
      <4> QED BY <4>1, <4>4
    <3>2. CASE f \notin Listed
      <4>1. f \in fresh /\ lru.prev[f] = NULL /\ lru.next[f] = NULL
        BY <1>2, <1>3, <1>5, <3>2 DEF Listed, Loose
      <4>2. m = lru
        BY <1>2, <1>3, <2>2, <3>2, <4>1, RemoveFresh
      <4> QED BY <1>2, <2>2, <3>2, <4>2 DEF Loose
    <3> QED BY <3>1, <3>2
  <2>4. PICK t \in Seq(Frames) : IsList(m, t, Listed \ {f})
    BY <2>3
  <2>5. /\ lru' \in ListType
        /\ \E u \in Seq(Frames) : IsList(lru', u, (Listed \ {f}) \cup {f})
    <3>1. lru' = LruInsertFront(m, f)
      BY <2>1 DEF LruTouch
    <3>2. f \notin Listed \ {f}
      OBVIOUS
    <3> HIDE DEF m, f
    <3>3. /\ LruInsertFront(m, f) \in ListType
          /\ \E u \in Seq(Frames) : IsList(LruInsertFront(m, f), u, (Listed \ {f}) \cup {f})
      BY <1>3, <2>3, <2>4, <3>2, InsertIntoList
    <3> QED BY <3>1, <3>3
  <2>6. Cached' = Cached /\ Listed' = (Listed \ {f}) \cup {f}
    BY <1>3, <2>1 DEF Cached, Listed
  <2>7. Loose(lru', fresh')
    <3>1. m.head \in Listed \cup {NULL}
      BY <2>3, <2>4, ListShape
    <3>2. \A g \in fresh \ {f} : g \in Frames \ {f} /\ g # m.head
      BY <1>2, <3>1, InSequence, StorageAssumption DEF Listed, Cached, TypeOK
    <3>3. lru'.prev = [g \in Frames |-> IF g = f THEN NULL
                                        ELSE IF g = m.head THEN f ELSE m.prev[g]]
          /\ lru'.next = [m.next EXCEPT ![f] = m.head]
      BY <2>1 DEF LruTouch, LruInsertFront
    <3> QED BY <2>1, <2>3, <3>2, <3>3 DEF Loose, ListType
  <2>8. TypeOK'
    BY <1>2, <1>3, <2>1, <2>5, StorageAssumption DEF TypeOK, ListType, PageIds
  <2>9. NoFrameTwice'
    BY <2>1 DEF CacheInv, NoFrameTwice
  <2>10. ListInv'
    BY <1>2, <2>1, <2>5, <2>6, <2>7 DEF ListInv
  <2>11. RoomInv'
    BY <2>1, <2>6 DEF CacheInv, RoomInv
  <2>12. IdleInv'
    BY <1>1, <2>1 DEF IdleInv
  <2> QED BY <2>8, <2>9, <2>10, <2>11, <2>12 DEF CacheInv
<1> QED BY <1>4, <1>5

\* sm_get_page on a page the file has: one page leaves a full cache first.
LEMMA MissKeepsCacheInv ==
  ASSUME CacheInv, NEW id \in PageIds, CacheMiss(id)
  PROVE  CacheInv'
<1> DEFINE R == MadeRoom
<1>1. MayFetch(id) /\ Hits(id) = {} /\ proc = "running"
  BY DEF CacheMiss, MayFetch
<1>2. PICK f \in Frames \ ToSet(R.pages) :
        /\ pages' = Append(R.pages, f)
        /\ lru' = LruInsertFront(R.lru, f)
        /\ frame' = [g \in Frames |->
             IF g = f THEN [page_id |-> id, data |-> R.file.disk[id], is_dirty |-> FALSE]
             ELSE IF g \in R.freed THEN Blank ELSE frame[g]]
        /\ held' = f
  BY DEF CacheMiss
<1>3. /\ disk' = R.file.disk /\ disk_pages' = R.file.pages /\ pending' = 0
      /\ UNCHANGED <<proc, page_count, disk_count, fresh, crashed>>
  BY DEF CacheMiss
<1>4. /\ R.pages \in Seq(Frames) /\ Len(R.pages) < MaxCache
      /\ \A i, j \in DOMAIN R.pages : R.pages[i] = R.pages[j] => i = j
      /\ R.freed \subseteq Listed /\ ToSet(R.pages) = Cached \ R.freed
      /\ R.lru \in ListType /\ Loose(R.lru, fresh)
      /\ \E s \in Seq(Frames) : IsList(R.lru, s, Listed \ R.freed)
      /\ R.file.disk \in [PageIds -> Content] /\ R.file.pages \in 0 .. MaxPages
  BY <1>1, EvictionMakesRoom
<1> HIDE DEF R
<1>5. TypeOK /\ ListInv /\ fresh \subseteq Cached
  BY <1>1 DEF CacheInv, ListInv
<1>6. /\ pages' \in Seq(Frames) /\ Len(pages') = Len(R.pages) + 1
      /\ Cached' = (Cached \ R.freed) \cup {f}
      /\ \A i, j \in DOMAIN pages' : pages'[i] = pages'[j] => i = j
  BY <1>2, <1>4, AppendPage DEF Cached
<1>7. f \notin fresh /\ f \notin Listed \ R.freed
  BY <1>2, <1>4, <1>5 DEF Listed
<1>8. Listed' = (Listed \ R.freed) \cup {f}
  BY <1>3, <1>4, <1>5, <1>6, <1>7 DEF Listed
<1>9. PICK s \in Seq(Frames) : IsList(R.lru, s, Listed \ R.freed)
  BY <1>4
<1>10. lru' \in ListType /\ \E t \in Seq(Frames) : IsList(lru', t, Listed')
  BY <1>2, <1>4, <1>7, <1>8, <1>9, InsertIntoList
<1>11. Loose(lru', fresh')
  <2>1. R.lru.head \in (Listed \ R.freed) \cup {NULL}
    BY <1>4, <1>9, ListShape
  <2>2. \A g \in fresh : g \in Frames \ {f} /\ g # R.lru.head
    BY <1>5, <1>7, <2>1, InSequence, StorageAssumption DEF Listed, Cached, TypeOK
  <2>3. lru'.prev = [g \in Frames |-> IF g = f THEN NULL
                                      ELSE IF g = R.lru.head THEN f ELSE R.lru.prev[g]]
        /\ lru'.next = [R.lru.next EXCEPT ![f] = R.lru.head]
    BY <1>2 DEF LruInsertFront
  <2> QED BY <1>3, <1>4, <2>2, <2>3 DEF Loose, ListType
<1>12. TypeOK'
  <2>1. frame' \in [Frames -> [page_id : PageIds, data : Content, is_dirty : BOOLEAN]]
    BY <1>2, <1>4, <1>5, StorageAssumption DEF TypeOK, Blank, PageIds
  <2>2. pending' \in PageIds
    BY <1>3, StorageAssumption DEF PageIds
  <2> QED BY <1>2, <1>3, <1>4, <1>5, <1>6, <1>10, <2>1, <2>2 DEF TypeOK, ListType
<1>13. NoFrameTwice'
  BY <1>6 DEF NoFrameTwice
<1>14. ListInv'
  BY <1>3, <1>5, <1>4, <1>6, <1>10, <1>11 DEF ListInv, Listed
<1>15. RoomInv'
  <2>1. Len(R.pages) \in Nat
    BY <1>4, LenProperties
  <2> QED BY <1>3, <1>4, <1>6, <1>8, <2>1, StorageAssumption DEF CacheInv, RoomInv
<1>16. IdleInv'
  BY <1>1, <1>3 DEF IdleInv
<1> QED BY <1>12, <1>13, <1>14, <1>15, <1>16 DEF CacheInv

\* sm_get_page on a page the file has not: the eviction has taken place.
LEMMA ShortReadKeepsCacheInv ==
  ASSUME CacheInv, NEW id \in PageIds, ShortRead(id)
  PROVE  CacheInv'
<1> DEFINE R == MadeRoom
<1>1. /\ MayFetch(id) /\ Hits(id) = {} /\ proc = "running"
      /\ disk' = R.file.disk /\ disk_pages' = R.file.pages /\ disk_count' = disk_count
  BY DEF ShortRead, MayFetch
<1>2. /\ R.pages \in Seq(Frames) /\ Len(R.pages) < MaxCache
      /\ \A i, j \in DOMAIN R.pages : R.pages[i] = R.pages[j] => i = j
      /\ R.freed \subseteq Listed /\ ToSet(R.pages) = Cached \ R.freed
      /\ R.lru \in ListType /\ Loose(R.lru, fresh)
      /\ \E s \in Seq(Frames) : IsList(R.lru, s, Listed \ R.freed)
      /\ R.file.disk \in [PageIds -> Content] /\ R.file.pages \in 0 .. MaxPages
  BY <1>1, EvictionMakesRoom
<1>3. CASE pending # 0
  BY <1>1, <1>2, <1>3, DeathKeepsCacheInv DEF ShortRead
<1>4. CASE pending = 0
  <2>1. /\ pages' = R.pages
        /\ lru' = R.lru
        /\ frame' = [g \in Frames |-> IF g \in R.freed THEN Blank ELSE frame[g]]
        /\ held' = NULL
        /\ UNCHANGED <<proc, page_count, pending, fresh, crashed>>
    BY <1>4 DEF ShortRead
  <2> HIDE DEF R
  <2>2. TypeOK /\ ListInv /\ fresh \subseteq Cached
    BY <1>1 DEF CacheInv, ListInv
  <2>3. Cached' = Cached \ R.freed /\ Listed' = Listed \ R.freed
    BY <1>2, <2>1 DEF Cached, Listed
  <2>4. TypeOK'
    <3>1. frame' \in [Frames -> [page_id : PageIds, data : Content, is_dirty : BOOLEAN]]
      BY <2>1, <2>2, StorageAssumption DEF TypeOK, Blank, PageIds
    <3> QED BY <1>1, <1>2, <2>1, <2>2, <3>1 DEF TypeOK, ListType
  <2>5. NoFrameTwice'
    BY <1>2, <2>1 DEF NoFrameTwice
  <2>6. ListInv'
    BY <1>2, <2>1, <2>2, <2>3 DEF ListInv, Listed
  <2>7. RoomInv'
    <3>1. Len(R.pages) \in Nat
      BY <1>2, LenProperties
    <3> QED BY <1>2, <2>1, <3>1, StorageAssumption DEF CacheInv, RoomInv
  <2>8. IdleInv'
    BY <1>1, <2>1 DEF IdleInv
  <2> QED BY <2>4, <2>5, <2>6, <2>7, <2>8 DEF CacheInv
<1> QED BY <1>3, <1>4

\* sm_allocate_page: the new page is cached, if there is room, and not listed.
LEMMA AllocateKeepsCacheInv ==
  ASSUME CacheInv, SmAllocatePage
  PROVE  CacheInv'
<1> DEFINE n == page_count
<1>1. /\ proc = "running" /\ pending = 0 /\ n < MaxPages
      /\ disk' = [disk EXCEPT ![n - 1] = ClearLast[@]]
      /\ disk_pages' = Later(disk_pages, n)
      /\ page_count' = n + 1 /\ pending' = n
      /\ UNCHANGED <<proc, held, disk_count, crashed>>
  BY DEF SmAllocatePage
<1>2. TypeOK /\ ListInv /\ fresh \subseteq Cached /\ Loose(lru, fresh) /\ lru \in ListType
  BY <1>1 DEF CacheInv, ListInv, TypeOK, ListType
<1>3. n \in 1 .. MaxPages - 1 /\ n \in PageIds /\ n - 1 \in PageIds
  BY <1>1, <1>2, StorageAssumption DEF CacheInv, RoomInv, TypeOK, PageIds
<1>4. /\ disk' \in [PageIds -> Content] /\ disk_pages' \in 0 .. MaxPages
      /\ page_count' \in 0 .. MaxPages
  BY <1>1, <1>2, <1>3, StorageAssumption DEF TypeOK, Later
<1>5. PICK s \in Seq(Frames) : IsList(lru, s, Listed)
  BY <1>1, <1>2 DEF ListInv
<1>6. CASE Room
  <2>1. PICK f \in Frames \ Cached, garbage \in {NULL, WILD} :
          /\ pages' = Append(pages, f)
          /\ frame' = [frame EXCEPT ![f] = NewPage(n)]
          /\ lru' = [lru EXCEPT !.prev[f] = garbage, !.next[f] = garbage]
          /\ fresh' = fresh \cup {f}
    BY <1>6 DEF SmAllocatePage
  <2>2. /\ pages' \in Seq(Frames) /\ Len(pages') = Len(pages) + 1
        /\ Cached' = Cached \cup {f}
        /\ \A i, j \in DOMAIN pages' : pages'[i] = pages'[j] => i = j
    BY <1>2, <2>1, AppendPage DEF Cached, CacheInv, NoFrameTwice, TypeOK
  <2>3. Listed' = Listed /\ f \notin Listed
    BY <1>2, <2>1, <2>2 DEF Listed
  <2>4. /\ lru' \in ListType
        /\ lru'.head = lru.head /\ lru'.tail = lru.tail
        /\ \A g \in Frames \ {f} : lru'.prev[g] = lru.prev[g] /\ lru'.next[g] = lru.next[g]
        /\ lru'.prev[f] = garbage /\ lru'.next[f] = garbage
    BY <1>2, <2>1 DEF ListType, Pointers
  <2>5. IsList(lru', s, Listed')
    <3>1. \A i \in DOMAIN s : s[i] \in Frames \ {f}
      BY <1>5, <2>3, LenProperties, InSequence, ElementOfSeq DEF IsList
    <3> QED BY <1>5, <2>3, <2>4, <3>1 DEF IsList
  <2>6. Loose(lru', fresh')
    <3>1. \A g \in fresh : g \in Frames \ {f}
      BY <1>2, <2>1, InSequence DEF Cached, TypeOK
    <3> QED BY <1>2, <2>1, <2>4, <3>1 DEF Loose
  <2>7. TypeOK'
    BY <1>1, <1>2, <1>3, <1>4, <2>1, <2>2, <2>4, StorageAssumption
    DEF TypeOK, NewPage, ListType
  <2>8. NoFrameTwice'
    BY <2>2 DEF NoFrameTwice
  <2>9. ListInv'
    BY <1>2, <2>1, <2>2, <2>5, <2>6 DEF ListInv
  <2>10. RoomInv'
    <3>1. Hits(pending)' # {}
      <4>1. Len(pages) \in Nat /\ DOMAIN pages' = 1 .. Len(pages) + 1
            /\ pages'[Len(pages) + 1] = f
        BY <1>2, <2>1, <2>2, LenProperties DEF TypeOK
      <4>2. frame'[f].page_id = n
        BY <1>2, <2>1 DEF TypeOK, NewPage
      <4>3. Len(pages) + 1 \in DOMAIN pages'
        BY <4>1
      <4> QED BY <1>1, <2>1, <4>1, <4>2, <4>3 DEF Hits
    <3>2. Len(pages) \in Nat
      BY <1>2, LenProperties DEF TypeOK
    <3> QED BY <1>1, <1>3, <1>6, <2>2, <3>1, <3>2, StorageAssumption DEF RoomInv, Room
  <2>11. IdleInv'
    BY <1>1 DEF IdleInv
  <2> QED BY <2>7, <2>8, <2>9, <2>10, <2>11 DEF CacheInv
<1>7. CASE ~Room
  <2>1. UNCHANGED <<pages, frame, lru, fresh>>
    BY <1>7 DEF SmAllocatePage
  <2>2. TypeOK'
    BY <1>1, <1>2, <1>3, <1>4, <2>1 DEF TypeOK
  <2>3. NoFrameTwice' /\ ListInv'
    BY <1>1, <2>1 DEF CacheInv, NoFrameTwice, ListInv, Listed, Cached
  <2>4. RoomInv'
    BY <1>1, <1>3, <2>1 DEF CacheInv, RoomInv, Listed, Cached
  <2>5. IdleInv'
    BY <1>1 DEF IdleInv
  <2> QED BY <2>2, <2>3, <2>4, <2>5 DEF CacheInv
<1> QED BY <1>6, <1>7

\* A caller's write leaves the array and the list alone.
LEMMA WriteKeepsCacheInv ==
  ASSUME CacheInv, WritePage
  PROVE  CacheInv'
<1>1. PICK c \in Content : frame' = [frame EXCEPT ![held] = Modified(@, c)]
  BY DEF WritePage
<1>2. /\ proc = "running" /\ held \in Frames
      /\ UNCHANGED <<proc, page_count, pages, lru, pending, held,
                     disk, disk_pages, disk_count, fresh, crashed>>
  BY DEF WritePage, CacheInv, TypeOK
<1>3. /\ frame' \in [Frames -> [page_id : PageIds, data : Content, is_dirty : BOOLEAN]]
      /\ \A f \in Frames : frame'[f].page_id = frame[f].page_id
  BY <1>1, <1>2 DEF CacheInv, TypeOK, Modified
<1>4. TypeOK'
  BY <1>2, <1>3 DEF CacheInv, TypeOK
<1>5. NoFrameTwice' /\ ListInv'
  BY <1>2 DEF CacheInv, NoFrameTwice, ListInv, Listed, Cached
<1>6. RoomInv'
  <2>1. \A i \in DOMAIN pages : pages[i] \in Frames
    BY LenProperties, ElementOfSeq DEF CacheInv, TypeOK
  <2>2. Hits(pending)' = Hits(pending)
    BY <1>2, <1>3, <2>1 DEF Hits
  <2> QED BY <1>2, <2>2 DEF CacheInv, RoomInv, Listed, Cached
<1>7. IdleInv'
  BY <1>2 DEF IdleInv
<1> QED BY <1>4, <1>5, <1>6, <1>7 DEF CacheInv

\* One round of the loop in sm_close.
LEMMA ClosePageKeepsCacheInv ==
  ASSUME CacheInv, ClosePage
  PROVE  CacheInv'
<1> DEFINE f == Head(pages)
           n == Len(pages)
<1>1. /\ proc = "closing" /\ pages # <<>>
      /\ disk' = PersistTo(OnDisk, f).disk /\ disk_pages' = PersistTo(OnDisk, f).pages
      /\ pages' = Tail(pages) /\ frame' = [frame EXCEPT ![f] = Blank]
      /\ UNCHANGED <<proc, page_count, lru, pending, held, disk_count, fresh, crashed>>
  BY DEF ClosePage
<1>2. pages \in Seq(Frames) /\ f \in Frames /\ n \in Nat /\ DOMAIN pages = 1 .. n
  BY <1>1, HeadTailProperties, LenProperties DEF CacheInv, TypeOK
<1>3. /\ pages' \in Seq(Frames) /\ Len(pages') = n - 1
      /\ \A i \in 1 .. n - 1 : pages'[i] = pages[i + 1]
      /\ DOMAIN pages' = 1 .. n - 1
  BY <1>1, <1>2, HeadTailProperties, LenProperties
<1>4. /\ disk' \in [PageIds -> Content] /\ disk_pages' \in 0 .. MaxPages
  <2>1. frame[f] \in [page_id : PageIds, data : Content, is_dirty : BOOLEAN]
    BY <1>2 DEF CacheInv, TypeOK
  <2> QED BY <1>1, <2>1, PersistTypes DEF CacheInv, TypeOK
<1>5. TypeOK'
  <2>1. Blank \in [page_id : PageIds, data : Content, is_dirty : BOOLEAN]
    BY StorageAssumption DEF Blank, PageIds
  <2>2. frame' \in [Frames -> [page_id : PageIds, data : Content, is_dirty : BOOLEAN]]
    BY <1>1, <1>2, <2>1 DEF CacheInv, TypeOK
  <2> QED BY <1>1, <1>3, <1>4, <2>2 DEF CacheInv, TypeOK
<1>6. NoFrameTwice'
  <2>1. \A i, j \in 1 .. n : pages[i] = pages[j] => i = j
    BY <1>2 DEF CacheInv, NoFrameTwice
  <2>2. ASSUME NEW i \in 1 .. n - 1, NEW j \in 1 .. n - 1, pages'[i] = pages'[j]
        PROVE  i = j
    <3>1. i + 1 \in 1 .. n /\ j + 1 \in 1 .. n
      BY <1>2
    <3>2. i + 1 = j + 1
      BY <1>3, <2>1, <2>2, <3>1
    <3> QED BY <3>2
  <2> QED BY <1>3, <2>2 DEF NoFrameTwice
<1>7. ListInv' /\ IdleInv'
  BY <1>1 DEF CacheInv, ListInv, IdleInv
<1>8. RoomInv'
  BY <1>1, <1>2, <1>3, StorageAssumption DEF CacheInv, RoomInv
<1> QED BY <1>5, <1>6, <1>7, <1>8 DEF CacheInv

\* No step of the storage manager breaks the invariant.
LEMMA NextCacheInv == CacheInv /\ [Next]_vars => CacheInv'
<1> SUFFICES ASSUME CacheInv, [Next]_vars  PROVE CacheInv'
  OBVIOUS
<1>1. CASE SmOpen
  <2>1. TypeOK'
    BY <1>1, StorageAssumption DEF SmOpen, CacheInv, TypeOK
  <2>2. NoFrameTwice'
    BY <1>1 DEF SmOpen, CacheInv, NoFrameTwice
  <2>3. pages' = <<>> /\ lru' = EmptyList /\ fresh' = {} /\ proc' = "running"
    BY <1>1 DEF SmOpen, CacheInv, IdleInv
  <2>4. ListInv'
    <3>1. Cached' = {} /\ Listed' = {}
      BY <2>3, EmptyCache DEF Listed, Cached
    <3>2. IsList(EmptyList, <<>>, {})
      BY EmptyCache DEF IsList, EmptyList
    <3> QED BY <2>3, <3>1, <3>2, EmptyCache DEF ListInv, Loose
  <2>5. RoomInv'
    <3>1. page_count' # 0
      BY <1>1 DEF SmOpen
    <3> QED BY <2>3, <3>1, EmptyCache, StorageAssumption DEF RoomInv
  <2> QED BY <2>1, <2>2, <2>3, <2>4, <2>5 DEF CacheInv, IdleInv
<1>2. ASSUME NEW id \in PageIds, CacheHit(id)  PROVE CacheInv'
  BY <1>2, HitKeepsCacheInv
<1>3. ASSUME NEW id \in PageIds, CacheMiss(id)  PROVE CacheInv'
  BY <1>3, MissKeepsCacheInv
<1>4. ASSUME NEW id \in PageIds, ShortRead(id)  PROVE CacheInv'
  BY <1>4, ShortReadKeepsCacheInv
<1>5. CASE SmAllocatePage
  BY <1>5, AllocateKeepsCacheInv
<1>6. CASE WritePage
  BY <1>6, WriteKeepsCacheInv
<1>7. CASE BeginClose
  <2>1. TypeOK'
    BY <1>7 DEF BeginClose, CacheInv, TypeOK, EmptyList, Pointers
  <2> QED BY <1>7, <2>1 DEF BeginClose, CacheInv, NoFrameTwice, ListInv, RoomInv, IdleInv
<1>8. CASE ClosePage
  BY <1>8, ClosePageKeepsCacheInv
<1>9. CASE CloseHeader
  <2>1. TypeOK'
    BY <1>9, StorageAssumption DEF CloseHeader, HeaderCount, CacheInv, TypeOK
  <2> QED BY <1>9, <2>1, StorageAssumption
      DEF CloseHeader, CacheInv, NoFrameTwice, ListInv, RoomInv, IdleInv
<1>10. CASE Crash
  BY <1>10, DeathKeepsCacheInv DEF Crash, CacheInv, TypeOK
<1>11. CASE UNCHANGED vars
  BY <1>11 DEF vars, CacheInv, TypeOK, NoFrameTwice, ListInv, RoomInv, IdleInv,
              Listed, Cached, Hits
<1> QED BY <1>1, <1>2, <1>3, <1>4, <1>5, <1>6, <1>7, <1>8, <1>9, <1>10, <1>11 DEF Next

\* The inductive invariant of the page array and the list in storage.c holds
\* in every reachable state.
THEOREM SpecCacheInv == Spec => []CacheInv
<1> QED BY InitCacheInv, NextCacheInv, PTL DEF Spec

-----------------------------------------------------------------------------
(* What follows for the reader of storage.c.                               *)

\* Every variable keeps its type, through evictions, closes and crashes.
THEOREM TypeCorrect == Spec => []TypeOK
<1>1. CacheInv => TypeOK
  BY DEF CacheInv
<1> QED BY <1>1, SpecCacheInv, PTL

\* pages[] is never written past its end: evict_lru_page finds a page to drop
\* whenever the cache is full, whatever pages are asked for.
THEOREM NoOverrun == Spec => []CacheBounded
<1>1. CacheInv => CacheBounded
  BY DEF CacheInv, RoomInv, CacheBounded
<1> QED BY <1>1, SpecCacheInv, PTL

\* No Page struct is freed twice: sm_close and evict_lru_page free what the
\* array holds, and the array holds a struct once.
THEOREM FrameOnce == Spec => []NoFrameTwice
<1>1. CacheInv => NoFrameTwice
  BY DEF CacheInv
<1> QED BY <1>1, SpecCacheInv, PTL

\* The pointers of the list stay consistent and inside the cache: lru_remove
\* and lru_insert_front never write to a page that was freed.
THEOREM ListCorrect == Spec => []ListLinked
<1>1. CacheInv => ListLinked
  <2> SUFFICES ASSUME CacheInv, proc = "running"  PROVE ListLinked
    BY DEF ListLinked
  <2>1. lru \in ListType /\ fresh \subseteq Cached
    BY DEF CacheInv, TypeOK, ListInv, ListType
  <2>2. PICK s \in Seq(Frames) : IsList(lru, s, Listed)
    BY DEF CacheInv, ListInv
  <2> QED BY <2>1, <2>2, ListShape DEF ListLinked
<1> QED BY <1>1, SpecCacheInv, PTL

-----------------------------------------------------------------------------
(* The list is an order of last use: Storage implements LruOrder.          *)

\* Of two sequences that a list threads, one begins with the other.
LEMMA ListBegins ==
  ASSUME NEW l \in ListType, NEW s \in Seq(Frames), NEW t \in Seq(Frames), NEW S,
         IsList(l, s, S), IsList(l, t, S)
  PROVE  Len(s) <= Len(t) /\ \A i \in 1 .. Len(s) : s[i] = t[i]
<1> DEFINE n == Len(s)
           m == Len(t)
           Apart == {i \in 1 .. n : ~(i <= m /\ s[i] = t[i])}
<1>1. /\ n \in Nat /\ DOMAIN s = 1 .. n /\ (n = 0 <=> s = <<>>)
      /\ m \in Nat /\ DOMAIN t = 1 .. m /\ (m = 0 <=> t = <<>>)
      /\ \A i \in 1 .. n : s[i] # NULL
  BY LenProperties, EmptySeq, ElementOfSeq, StorageAssumption
<1>2. /\ l.head = IF n = 0 THEN NULL ELSE s[1]
      /\ l.head = IF m = 0 THEN NULL ELSE t[1]
      /\ \A i \in 1 .. n : l.next[s[i]] = IF i = n THEN NULL ELSE s[i + 1]
      /\ \A i \in 1 .. m : l.next[t[i]] = IF i = m THEN NULL ELSE t[i + 1]
  BY <1>1 DEF IsList
<1> HIDE DEF n, m
<1>3. Apart = {}
  <2> SUFFICES ASSUME Apart # {} PROVE FALSE
    OBVIOUS
  <2>1. PICK i \in Apart : \A j \in Apart : i <= j
    <3>1. Apart \subseteq Nat
      BY <1>1
    <3> HIDE DEF Apart
    <3> QED BY <3>1, LeastPosition
  <2>2. CASE i = 1
    BY <1>1, <1>2, <2>1, <2>2
  <2>3. CASE i # 1
    <3>1. i - 1 \in 1 .. n /\ i - 1 <= m /\ s[i - 1] = t[i - 1] /\ i \in 1 .. n
      BY <1>1, <2>1, <2>3
    <3>2. l.next[s[i - 1]] = s[i] /\ s[i] # NULL
      BY <1>1, <1>2, <3>1
    <3>3. i - 1 # m /\ l.next[t[i - 1]] = t[i]
      BY <1>1, <1>2, <3>1, <3>2
    <3> QED BY <1>1, <2>1, <3>1, <3>2, <3>3
  <2> QED BY <2>2, <2>3
<1>4. n <= m
  <2>1. n # 0 => n \in 1 .. n
    BY <1>1
  <2> QED BY <1>1, <1>3, <2>1
<1>5. \A i \in 1 .. n : s[i] = t[i]
  BY <1>3
<1> QED BY <1>4, <1>5 DEF n, m

\* The pointers thread pages in one order only.
LEMMA OneOrder ==
  ASSUME NEW l \in ListType, NEW s \in Seq(Frames), NEW t \in Seq(Frames), NEW S,
         IsList(l, s, S), IsList(l, t, S)
  PROVE  s = t
<1>1. /\ Len(s) <= Len(t) /\ \A i \in 1 .. Len(s) : s[i] = t[i]
      /\ Len(t) <= Len(s)
  BY ListBegins
<1>2. Len(s) = Len(t)
  BY <1>1, LenProperties
<1> QED BY <1>1, <1>2, SeqEqual

\* A list that threads some pages gives their order.
LEMMA OrderOfList ==
  ASSUME NEW l \in ListType, NEW s \in Seq(Frames), NEW S, IsList(l, s, S)
  PROVE  OrderOf(l, S) = s
<1> DEFINE n == Len(s)
           threads == {t \in [1 .. Cardinality(S) -> S] : IsList(l, t, S)}
<1>1. n \in Nat /\ DOMAIN s = 1 .. n /\ ToSet(s) = S /\ S \subseteq Frames
  BY LenProperties, ListShape DEF IsList
<1>2. s \in [1 .. n -> S]
  BY <1>1, InSequence
<1>3. s \in Bijection(1 .. n, S)
  <2>1. \A i, j \in 1 .. n : s[i] = s[j] => i = j
    BY <1>1 DEF IsList
  <2>2. \A x \in S : \E i \in 1 .. n : s[i] = x
    BY <1>1, InSequence
  <2> QED BY <1>2, <2>1, <2>2, Zenon DEF Bijection, Injection, IsInjective, Surjection
<1>4. Cardinality(S) = n
  BY <1>1, <1>3, FS_CountingElements DEF ExistsBijection
<1>5. s \in threads
  BY <1>2, <1>4
<1>6. \A t \in threads : t = s
  <2> SUFFICES ASSUME NEW t \in threads PROVE t = s
    OBVIOUS
  <2>1. t \in [1 .. n -> Frames] /\ IsList(l, t, S)
    BY <1>1, <1>4
  <2>2. t \in Seq(Frames)
    BY <1>1, <2>1
  <2> QED BY <2>1, <2>2, OneOrder
<1>7. (CHOOSE t \in threads : TRUE) = s
  BY <1>5, <1>6
<1> QED BY <1>5, <1>7 DEF OrderOf

\* Where there is no list there is no order.
LEMMA OrderOfNothing ==
  ASSUME NEW S, S \subseteq Frames, IsFiniteSet(S)
  PROVE  OrderOf(EmptyList, S) = <<>>
<1> DEFINE threads == {t \in [1 .. Cardinality(S) -> S] : IsList(EmptyList, t, S)}
<1>1. Cardinality(S) \in Nat
  BY FS_CardinalityType
<1>2. ASSUME NEW t \in threads PROVE t = <<>>
  <2>1. t \in Seq(Frames) /\ (t # <<>> => t[1] \in Frames)
    <3>1. t \in [1 .. Cardinality(S) -> Frames]
      OBVIOUS
    <3>2. t \in Seq(Frames)
      BY <1>1, <3>1
    <3>3. t # <<>> => 1 \in 1 .. Len(t)
      BY <3>2, LenProperties, EmptySeq
    <3> QED BY <3>2, <3>3, ElementOfSeq
  <2>2. EmptyList.head = NULL /\ (t # <<>> => EmptyList.head = t[1])
    BY DEF IsList, EmptyList
  <2> QED BY <2>1, <2>2, StorageAssumption
<1> HIDE DEF threads
<1>3. (IF threads = {} THEN <<>> ELSE CHOOSE t \in threads : TRUE) = <<>>
  BY <1>2
<1> QED BY <1>3, Zenon DEF OrderOf, threads

\* The cached pages are finitely many.
LEMMA CacheFinite ==
  ASSUME NEW s \in Seq(Frames)
  PROVE  ToSet(s) \subseteq Frames /\ IsFiniteSet(ToSet(s))
<1>1. Len(s) \in Nat /\ DOMAIN s = 1 .. Len(s) /\ ToSet(s) \subseteq Frames
  BY LenProperties, InSequence
<1>2. s \in [1 .. Len(s) -> ToSet(s)]
  BY <1>1, InSequence
<1>3. \A x \in ToSet(s) : \E i \in 1 .. Len(s) : s[i] = x
  BY InSequence
<1>4. s \in Surjection(1 .. Len(s), ToSet(s))
  BY <1>2, <1>3, Zenon DEF Surjection
<1>5. IsFiniteSet(1 .. Len(s))
  BY <1>1, FS_Interval
<1> QED BY <1>1, <1>4, <1>5, FS_Surjection

\* The order is the one of the list while the store is open, and empty else.
OrderInv ==
  /\ lru \in ListType
  /\ proc = "running" => ListOrder \in Seq(Frames) /\ IsList(lru, ListOrder, Listed)
  /\ proc # "running" => ListOrder = <<>> /\ held = NULL

\* It follows from the cache invariant.
LEMMA OrderIs == CacheInv => OrderInv
<1> SUFFICES ASSUME CacheInv PROVE OrderInv
  OBVIOUS
<1>1. lru \in ListType
  BY DEF CacheInv, TypeOK, ListType
<1>2. ASSUME proc = "running" PROVE ListOrder \in Seq(Frames) /\ IsList(lru, ListOrder, Listed)
  <2>1. PICK s \in Seq(Frames) : IsList(lru, s, Listed)
    BY <1>2 DEF CacheInv, ListInv
  <2> QED BY <1>1, <2>1, OrderOfList DEF ListOrder
<1>3. ASSUME proc # "running" PROVE ListOrder = <<>> /\ held = NULL
  <2>1. Listed \subseteq Frames /\ IsFiniteSet(Listed)
    <3>1. Cached \subseteq Frames /\ IsFiniteSet(Cached)
      BY CacheFinite DEF CacheInv, TypeOK, Cached
    <3>2. Listed \in SUBSET Cached
      BY DEF Listed
    <3> QED BY <3>1, <3>2, FS_Subset
  <2> QED BY <1>3, <2>1, OrderOfNothing DEF CacheInv, IdleInv, ListOrder
<1> QED BY <1>1, <1>2, <1>3 DEF OrderInv

\* The same of the state after a step.
LEMMA OrderIsNext == (CacheInv => OrderInv)'
BY OrderIs, PTL

\* An eviction takes the page used longest ago off the list, and no other.
LEMMA EvictionTakesLast ==
  ASSUME CacheInv, OrderInv, NEW id \in PageIds, MayFetch(id), Hits(id) = {}
  PROVE  /\ MadeRoom.lru \in ListType
         /\ \/ /\ MadeRoom.freed = {}
               /\ IsList(MadeRoom.lru, ListOrder, Listed)
            \/ /\ ListOrder # <<>>
               /\ Front(ListOrder) \in Seq(Frames)
               /\ IsList(MadeRoom.lru, Front(ListOrder), Listed \ MadeRoom.freed)
<1> DEFINE s == ListOrder
           n == Len(s)
<1>1. lru \in ListType /\ s \in Seq(Frames) /\ IsList(lru, s, Listed)
  BY DEF OrderInv, MayFetch
<1>2. MadeRoom.lru \in ListType
  BY EvictionMakesRoom
<1> HIDE DEF s
<1>3. CASE Room \/ lru.tail = NULL
  <2>1. MadeRoom = Unchanged
    BY <1>3 DEF MadeRoom
  <2> QED BY <1>1, <1>2, <2>1 DEF Unchanged, s
<1>4. CASE ~(Room \/ lru.tail = NULL)
  <2> DEFINE v == lru.tail
  <2>1. MadeRoom.lru = LruRemove(lru, v) /\ MadeRoom.freed = {v}
    BY <1>4 DEF MadeRoom, Evict
  <2>2. s # <<>> /\ v = s[n]
    BY <1>1, <1>4 DEF IsList
  <2>3. n \in 1 .. n /\ v \in Listed
    BY <1>1, <2>2, LenProperties, EmptySeq, InSequence DEF IsList
  <2>4. IsList(LruRemove(lru, v), RemoveAt(s, n), Listed \ {v})
    BY <1>1, <2>2, <2>3, RemoveFromList
  <2>5. Front(s) = RemoveAt(s, n) /\ RemoveAt(s, n) \in Seq(Frames)
    BY <1>1, <2>2, <2>3, FrontIsRemoveAt, RemoveAtCloses
  <2> QED BY <1>2, <2>1, <2>2, <2>4, <2>5 DEF s
<1> QED BY <1>3, <1>4

\* sm_get_page on a cached page is a use of it.
LEMMA HitUses ==
  ASSUME CacheInv, OrderInv, OrderInv', NEW id \in PageIds, CacheHit(id)
  PROVE  Order!Next
<1> DEFINE f == Find(id)
           s == ListOrder
           m == LruRemove(lru, f)
<1>1. MayFetch(id) /\ Hits(id) # {} /\ proc = "running"
  BY DEF CacheHit, MayFetch
<1>2. TypeOK /\ ListInv /\ fresh \subseteq Cached /\ Loose(lru, fresh)
      /\ lru \in ListType /\ s \in Seq(Frames) /\ IsList(lru, s, Listed)
  BY <1>1 DEF CacheInv, ListInv, OrderInv
<1>3. f \in Cached /\ f \in Frames
  BY <1>1, <1>2, FindInCache
<1>4. CASE WILD \in {lru.prev[f], lru.next[f]}
  <2>1. proc' = "down" /\ held' = NULL
    BY <1>4 DEF CacheHit, MemoryLost
  <2> QED BY <2>1 DEF OrderInv, Order!Next, Order!Stop
<1>5. CASE WILD \notin {lru.prev[f], lru.next[f]}
  <2>1. /\ lru' = LruInsertFront(m, f) /\ held' = f /\ fresh' = fresh \ {f}
        /\ proc' = "running" /\ pages' = pages
    BY <1>1, <1>5 DEF CacheHit, LruTouch
  <2>2. Listed' = (Listed \ {f}) \cup {f} /\ f \notin Listed \ {f}
    BY <1>3, <2>1 DEF Cached, Listed
  <2>3. /\ lru' \in ListType /\ ListOrder' \in Seq(Frames)
        /\ IsList(lru', ListOrder', (Listed \ {f}) \cup {f})
    BY <2>1, <2>2 DEF OrderInv
  <2>4. ToSet(s) = Listed
    BY <1>2 DEF IsList
  <2> HIDE DEF f, s
  <2>5. CASE f \in Listed
    <3>1. PICK k \in 1 .. Len(s) : s[k] = f
      BY <1>2, <2>4, <2>5, InSequence
    <3>2. /\ m \in ListType /\ RemoveAt(s, k) \in Seq(Frames)
          /\ IsList(m, RemoveAt(s, k), Listed \ {f})
      BY <1>2, <2>5, <3>1, RemoveFromList, RemoveAtCloses
    <3> HIDE DEF m
    <3>3. IsList(lru', <<f>> \o RemoveAt(s, k), (Listed \ {f}) \cup {f})
      BY <1>3, <2>1, <2>2, <3>2, InsertIntoList
    <3>4. <<f>> \o RemoveAt(s, k) \in Seq(Frames)
      BY <1>3, <3>2, PrependShifts
    <3>5. ListOrder' = <<f>> \o RemoveAt(s, k)
      BY <2>3, <3>3, <3>4, OneOrder
    <3>6. k \in DOMAIN s
      BY <1>2, <3>1, LenProperties
    <3>7. Order!Use(f)
      BY <2>1, <3>1, <3>5, <3>6 DEF Order!Use, Order!RemoveAt, RemoveAt, s
    <3> QED BY <1>3, <3>7 DEF Order!Next
  <2>6. CASE f \notin Listed
    <3>1. f \in fresh /\ lru.prev[f] = NULL /\ lru.next[f] = NULL
      BY <1>2, <1>3, <1>5, <2>6 DEF Listed, Loose
    <3>2. m = lru /\ Listed \ {f} = Listed
      BY <1>2, <1>3, <2>6, <3>1, RemoveFresh
    <3> HIDE DEF m
    <3>3. IsList(lru', <<f>> \o s, (Listed \ {f}) \cup {f})
      BY <1>2, <1>3, <2>1, <2>2, <3>2, InsertIntoList
    <3>4. <<f>> \o s \in Seq(Frames)
      BY <1>2, <1>3, PrependShifts
    <3>5. ListOrder' = <<f>> \o s
      BY <2>3, <3>3, <3>4, OneOrder
    <3>6. Order!Use(f)
      BY <2>1, <2>4, <2>6, <3>5 DEF Order!Use, Order!ToSet, ToSet, s
    <3> QED BY <1>3, <3>6 DEF Order!Next
  <2> QED BY <2>5, <2>6
<1> QED BY <1>4, <1>5

\* sm_get_page on a page the file has is a use of the struct it is read into,
\* which takes the place of the last one where the cache was full.
LEMMA MissUses ==
  ASSUME CacheInv, OrderInv, OrderInv', NEW id \in PageIds, CacheMiss(id)
  PROVE  Order!Next
<1> DEFINE R == MadeRoom
           s == ListOrder
<1>1. MayFetch(id) /\ Hits(id) = {} /\ proc = "running" /\ proc' = "running" /\ fresh' = fresh
  BY DEF CacheMiss, MayFetch
<1>2. PICK f \in Frames \ ToSet(R.pages) :
        /\ pages' = Append(R.pages, f) /\ lru' = LruInsertFront(R.lru, f) /\ held' = f
  BY DEF CacheMiss
<1>3. /\ R.pages \in Seq(Frames) /\ R.lru \in ListType
      /\ \A i, j \in DOMAIN R.pages : R.pages[i] = R.pages[j] => i = j
      /\ R.freed \subseteq Listed /\ ToSet(R.pages) = Cached \ R.freed
  BY <1>1, EvictionMakesRoom
<1>4. /\ fresh \subseteq Cached /\ ToSet(s) = Listed /\ s \in Seq(Frames)
  BY <1>1 DEF CacheInv, ListInv, OrderInv, IsList
<1>5. \/ R.freed = {} /\ IsList(R.lru, s, Listed)
      \/ /\ s # <<>> /\ Front(s) \in Seq(Frames)
         /\ IsList(R.lru, Front(s), Listed \ R.freed)
  BY <1>1, EvictionTakesLast
<1> HIDE DEF R, s
<1>6. Cached' = (Cached \ R.freed) \cup {f}
  BY <1>2, <1>3, AppendPage DEF Cached
<1>7. f \notin fresh /\ f \notin Listed \ R.freed
  BY <1>2, <1>3, <1>4 DEF Listed
<1>8. Listed' = (Listed \ R.freed) \cup {f}
  BY <1>1, <1>3, <1>4, <1>6, <1>7 DEF Listed
<1>9. /\ lru' \in ListType /\ ListOrder' \in Seq(Frames)
      /\ IsList(lru', ListOrder', (Listed \ R.freed) \cup {f})
  BY <1>1, <1>8 DEF OrderInv
<1>10. ASSUME NEW t \in Seq(Frames), IsList(R.lru, t, Listed \ R.freed)
       PROVE  ListOrder' = <<f>> \o t /\ ToSet(t) = Listed \ R.freed
  <2>1. IsList(lru', <<f>> \o t, (Listed \ R.freed) \cup {f})
    BY <1>2, <1>3, <1>7, <1>10, InsertIntoList
  <2>2. <<f>> \o t \in Seq(Frames)
    BY <1>2, PrependShifts
  <2>3. ListOrder' = <<f>> \o t
    BY <1>9, <2>1, <2>2, OneOrder
  <2>4. ToSet(t) = Listed \ R.freed
    BY <1>10 DEF IsList
  <2> QED BY <2>3, <2>4
<1>11. CASE R.freed = {} /\ IsList(R.lru, s, Listed)
  <2>1. Listed \ R.freed = Listed
    BY <1>11
  <2>2. ListOrder' = <<f>> \o s /\ f \notin ToSet(s)
    BY <1>4, <1>7, <1>10, <1>11, <2>1
  <2>3. Order!Use(f)
    BY <1>2, <2>2 DEF Order!Use, Order!ToSet, ToSet, s
  <2> QED BY <1>2, <2>3 DEF Order!Next
<1>12. CASE /\ s # <<>> /\ Front(s) \in Seq(Frames)
            /\ IsList(R.lru, Front(s), Listed \ R.freed)
  <2>1. ListOrder' = <<f>> \o Front(s) /\ f \notin ToSet(Front(s))
    BY <1>7, <1>10, <1>12
  <2>2. Order!Replace(f)
    BY <1>2, <1>12, <2>1 DEF Order!Replace, Order!ToSet, Order!Front, ToSet, Front, s
  <2> QED BY <1>2, <2>2 DEF Order!Next
<1> QED BY <1>5, <1>11, <1>12

\* sm_get_page on a page the file has not may cost the last page its place.
LEMMA ShortReadFails ==
  ASSUME CacheInv, OrderInv, OrderInv', NEW id \in PageIds, ShortRead(id)
  PROVE  Order!Next
<1> DEFINE R == MadeRoom
           s == ListOrder
<1>1. MayFetch(id) /\ Hits(id) = {} /\ proc = "running"
  BY DEF ShortRead, MayFetch
<1>2. CASE pending # 0
  <2>1. proc' = "down" /\ held' = NULL
    BY <1>2 DEF ShortRead, MemoryLost
  <2> QED BY <2>1 DEF OrderInv, Order!Next, Order!Stop
<1>3. CASE pending = 0
  <2>1. /\ pages' = R.pages /\ lru' = R.lru /\ held' = NULL
        /\ proc' = "running" /\ fresh' = fresh
    BY <1>1, <1>3 DEF ShortRead
  <2>2. R.freed \subseteq Listed /\ ToSet(R.pages) = Cached \ R.freed
    BY <1>1, EvictionMakesRoom
  <2>3. /\ R.lru \in ListType /\ s \in Seq(Frames)
        /\ \/ R.freed = {} /\ IsList(R.lru, s, Listed)
           \/ /\ s # <<>> /\ Front(s) \in Seq(Frames)
              /\ IsList(R.lru, Front(s), Listed \ R.freed)
    BY <1>1, EvictionTakesLast DEF OrderInv
  <2> HIDE DEF R, s
  <2>4. Listed' = Listed \ R.freed
    BY <2>1, <2>2 DEF Cached, Listed
  <2>5. ListOrder' \in Seq(Frames) /\ IsList(R.lru, ListOrder', Listed \ R.freed)
    BY <2>1, <2>4 DEF OrderInv
  <2>6. ListOrder' = s \/ (s # <<>> /\ ListOrder' = Front(s))
    <3>1. CASE R.freed = {} /\ IsList(R.lru, s, Listed)
      <4>1. Listed \ R.freed = Listed
        BY <3>1
      <4> QED BY <2>3, <2>5, <3>1, <4>1, OneOrder
    <3>2. CASE /\ s # <<>> /\ Front(s) \in Seq(Frames)
               /\ IsList(R.lru, Front(s), Listed \ R.freed)
      BY <2>3, <2>5, <3>2, OneOrder
    <3> QED BY <2>3, <3>1, <3>2
  <2>7. Order!Fail
    BY <2>1, <2>6 DEF Order!Fail, Order!Front, Front, s
  <2> QED BY <2>7 DEF Order!Next
<1> QED BY <1>2, <1>3

\* A page that is allocated is not on the list, and moves nothing that is.
LEMMA AllocateKeepsOrder ==
  ASSUME CacheInv, OrderInv, OrderInv', SmAllocatePage
  PROVE  UNCHANGED <<ListOrder, held>>
<1> DEFINE s == ListOrder
<1>1. /\ proc = "running" /\ proc' = "running" /\ held' = held
  BY DEF SmAllocatePage
<1>2. TypeOK /\ fresh \subseteq Cached /\ lru \in ListType
      /\ s \in Seq(Frames) /\ IsList(lru, s, Listed)
  BY <1>1 DEF CacheInv, ListInv, OrderInv
<1>3. lru' \in ListType /\ ListOrder' \in Seq(Frames) /\ IsList(lru', ListOrder', Listed')
  BY <1>1 DEF OrderInv
<1>4. IsList(lru', s, Listed')
  <2>1. CASE Room
    <3>1. PICK f \in Frames \ Cached, garbage \in {NULL, WILD} :
            /\ pages' = Append(pages, f)
            /\ lru' = [lru EXCEPT !.prev[f] = garbage, !.next[f] = garbage]
            /\ fresh' = fresh \cup {f}
      BY <2>1 DEF SmAllocatePage
    <3>2. Cached' = Cached \cup {f}
      BY <1>2, <3>1, AppendPage DEF Cached, CacheInv, NoFrameTwice, TypeOK
    <3>3. Listed' = Listed /\ f \notin Listed
      BY <1>2, <3>1, <3>2 DEF Listed
    <3>4. /\ lru'.head = lru.head /\ lru'.tail = lru.tail
          /\ \A g \in Frames \ {f} : lru'.prev[g] = lru.prev[g] /\ lru'.next[g] = lru.next[g]
      BY <1>2, <3>1 DEF ListType, Pointers
    <3> HIDE DEF s
    <3>5. \A i \in DOMAIN s : s[i] \in Frames \ {f}
      BY <1>2, <3>3, LenProperties, InSequence, ElementOfSeq DEF IsList
    <3> QED BY <1>2, <3>3, <3>4, <3>5 DEF IsList
  <2>2. CASE ~Room
    <3>1. UNCHANGED <<pages, lru, fresh>>
      BY <2>2 DEF SmAllocatePage
    <3> QED BY <1>2, <3>1 DEF Listed, Cached
  <2> QED BY <2>1, <2>2
<1>5. ListOrder' = s
  BY <1>2, <1>3, <1>4, OneOrder
<1> QED BY <1>1, <1>5

\* Every step of the storage manager is a step of LruOrder or none.
LEMMA NextOrders ==
  ASSUME CacheInv, OrderInv, OrderInv', [Next]_vars
  PROVE  [Order!Next]_(Order!vars)
<1>1. ASSUME NEW id \in PageIds, CacheHit(id) \/ CacheMiss(id) \/ ShortRead(id)
      PROVE  Order!Next
  BY <1>1, HitUses, MissUses, ShortReadFails
<1>2. CASE SmAllocatePage
  BY <1>2, AllocateKeepsOrder DEF Order!vars
<1>3. CASE WritePage \/ UNCHANGED vars
  <2>1. UNCHANGED <<pages, lru, fresh, held>>
    BY <1>3 DEF WritePage, vars
  <2> QED BY <2>1 DEF Order!vars, ListOrder, Listed, Cached
<1>4. CASE SmOpen
  <2>1. ListOrder = <<>> /\ held = NULL /\ held' = held /\ proc' = "running" /\ proc = "down"
    BY <1>4 DEF SmOpen, OrderInv
  <2>2. lru' = EmptyList /\ pages' = <<>> /\ fresh' = {}
    BY <1>4, <2>1 DEF SmOpen, CacheInv, IdleInv
  <2>3. Listed' = {}
    BY <2>2, EmptyCache DEF Listed, Cached
  <2>4. ListOrder' \in Seq(Frames) /\ ToSet(ListOrder') = {}
    BY <2>1, <2>3 DEF OrderInv, IsList
  <2>5. ListOrder' = <<>>
    <3> DEFINE t == ListOrder'
    <3>1. t \in Seq(Frames) /\ ToSet(t) = {}
      BY <2>4
    <3> HIDE DEF t
    <3>2. Len(t) \in Nat /\ \A i \in 1 .. Len(t) : FALSE
      BY <3>1, InSequence, LenProperties
    <3>3. Len(t) = 0
      BY <3>2
    <3>4. t = <<>>
      BY <3>1, <3>3, EmptySeq
    <3> QED BY <3>4 DEF t
  <2> QED BY <2>1, <2>5 DEF Order!vars
<1>5. CASE BeginClose \/ Crash
  <2>1. proc' # "running" /\ held' = NULL
    BY <1>5 DEF BeginClose, Crash, MemoryLost
  <2> QED BY <2>1 DEF OrderInv, Order!Next, Order!Stop
<1>6. CASE ClosePage \/ CloseHeader
  <2>1. proc # "running" /\ proc' # "running"
    BY <1>6 DEF ClosePage, CloseHeader
  <2> QED BY <2>1 DEF OrderInv, Order!vars
<1> QED BY <1>1, <1>2, <1>3, <1>4, <1>5, <1>6 DEF Next

\* The list of storage.c is the order of last use, whatever is fetched,
\* allocated and evicted, and only the page used longest ago is dropped.
THEOREM ImplementsLru == Spec => LruSpec
<1>1. Init => Order!Init
  <2> SUFFICES ASSUME Init PROVE Order!Init
    OBVIOUS
  <2>1. OrderInv
    BY InitCacheInv, OrderIs
  <2> QED BY <2>1 DEF Init, OrderInv, Order!Init
<1>2. CacheInv /\ OrderInv /\ OrderInv' /\ [Next]_vars => [Order!Next]_(Order!vars)
  BY NextOrders
<1> QED BY <1>1, <1>2, OrderIs, OrderIsNext, SpecCacheInv, PTL DEF Spec, LruSpec, Order!Spec

-----------------------------------------------------------------------------
(* The inductive invariant, for as long as no process has died.            *)

\* A page number is in the cache once, and it is one that was handed out.
CopiesInv ==
  \A f \in Cached :
    /\ frame[f].page_id < page_count
    /\ \A g \in Cached : frame[f].page_id = frame[g].page_id => f = g

\* A page that is not dirty is in the file, but for its last byte.
CleanInv ==
  \A f \in Cached : ~frame[f].is_dirty =>
    /\ frame[f].page_id < disk_pages
    /\ ClearLast[frame[f].data] = ClearLast[disk[frame[f].page_id]]

\* The file does not run ahead of the page count: behind it are zeros.
FileInv ==
  /\ disk_pages <= Count
  /\ \A p \in PageIds : p >= Count => disk[p] = Zero

\* A caller has a page, or one to come, only while the store is open.
CallerInv ==
  /\ held # NULL => proc = "running" /\ held \in Cached
  /\ pending # 0 => proc = "running"

\* Every page is in the file or will be (AllocatedPagesReadable).
ReadableInv ==
  \A p \in 1 .. Count - 1 :
    \/ p < disk_pages
    \/ \E f \in Cached : frame[f].page_id = p /\ frame[f].is_dirty
    \/ p = pending /\ ~Room

DataInv == ~crashed => CopiesInv /\ CleanInv /\ FileInv /\ CallerInv /\ ReadableInv

-----------------------------------------------------------------------------
(* What a fetch finds.                                                     *)

Copies == [page_id : PageIds, data : Content, is_dirty : BOOLEAN]

\* The scan of sm_get_page over any array of pages.
HitsIn(s, fr, id) == {i \in DOMAIN s : fr[s[i]].page_id = id}
FindIn(s, fr, id) == s[CHOOSE i \in HitsIn(s, fr, id) : \A j \in HitsIn(s, fr, id) : i <= j]

\* Where a page number is cached once, the scan finds that copy.
LEMMA OneCopyFound ==
  ASSUME NEW s \in Seq(Frames), NEW fr, NEW f \in ToSet(s),
         \A g, h \in ToSet(s) : fr[g].page_id = fr[h].page_id => g = h
  PROVE  /\ HitsIn(s, fr, fr[f].page_id) # {}
         /\ FindIn(s, fr, fr[f].page_id) = f
<1> DEFINE hits == HitsIn(s, fr, fr[f].page_id)
<1>1. /\ DOMAIN s = 1 .. Len(s) /\ Len(s) \in Nat
      /\ \A i \in 1 .. Len(s) : s[i] \in ToSet(s)
      /\ \E i \in 1 .. Len(s) : s[i] = f
  BY LenProperties, InSequence
<1>2. hits # {} /\ hits \subseteq Nat
  BY <1>1 DEF HitsIn
<1>3. \A i \in hits : s[i] = f
  BY <1>1 DEF HitsIn
<1> HIDE DEF hits
<1>4. \E i \in hits : \A j \in hits : i <= j
  BY <1>2, LeastPosition
<1>5. (CHOOSE i \in hits : \A j \in hits : i <= j) \in hits
  BY <1>4
<1> QED BY <1>2, <1>3, <1>5 DEF hits, FindIn

\* What a caller would read is in the one copy that is cached, or in the file.
ReadInv ==
  /\ \A f \in Cached : /\ frame[f].page_id \in PageIds
                       /\ Find(frame[f].page_id) = f
                       /\ Hits(frame[f].page_id) # {}
                       /\ Logical(frame[f].page_id) = frame[f].data
  /\ \A p \in PageIds : (\A f \in Cached : frame[f].page_id # p) => Logical(p) = disk[p]

\* sm_get_page never meets a second copy.
LEMMA WhatIsRead == TypeOK /\ CopiesInv => ReadInv
<1> SUFFICES ASSUME TypeOK, CopiesInv PROVE ReadInv
  OBVIOUS
<1>1. pages \in Seq(Frames) /\ Cached \subseteq Frames
  BY InSequence DEF TypeOK, Cached
<1>2. ASSUME NEW f \in Cached
      PROVE  /\ frame[f].page_id \in PageIds
             /\ Find(frame[f].page_id) = f
             /\ Hits(frame[f].page_id) # {}
             /\ Logical(frame[f].page_id) = frame[f].data
  <2>1. frame[f].page_id \in PageIds
    BY <1>1 DEF TypeOK
  <2>2. Find(frame[f].page_id) = f /\ Hits(frame[f].page_id) # {}
    <3>1. f \in ToSet(pages)
          /\ \A g, h \in ToSet(pages) : frame[g].page_id = frame[h].page_id => g = h
      BY DEF Cached, CopiesInv
    <3>2. HitsIn(pages, frame, frame[f].page_id) # {} /\ FindIn(pages, frame, frame[f].page_id) = f
      BY <1>1, <3>1, OneCopyFound
    <3> QED BY <3>2, Zenon DEF Find, Hits, FindIn, HitsIn
  <2> QED BY <2>1, <2>2 DEF Logical
<1>3. ASSUME NEW p \in PageIds, \A f \in Cached : frame[f].page_id # p
      PROVE  Logical(p) = disk[p]
  BY <1>1, <1>3, LenProperties, InSequence DEF Logical, Hits, Cached
<1> QED BY <1>2, <1>3 DEF ReadInv

\* The page found has the number asked for; without a hit there is none.
LEMMA WhatIsFound ==
  ASSUME TypeOK, NEW id \in PageIds
  PROVE  /\ Hits(id) = {} => \A f \in Cached : frame[f].page_id # id
         /\ Hits(id) # {} => Find(id) \in Cached /\ frame[Find(id)].page_id = id
<1>1. ASSUME NEW f \in Cached, frame[f].page_id = id PROVE Hits(id) # {}
  BY <1>1, LenProperties, InSequence DEF Hits, Cached, TypeOK
<1> QED BY <1>1, FindInCache

-----------------------------------------------------------------------------
(* Writing pages back.                                                     *)

\* A file with the pages in freed written back, as far as it matters: nothing
\* that a caller would read changes, but for the last byte of a page.
FileKeeps(freed, file) ==
  /\ freed \subseteq Cached
  /\ file.pages \in Nat /\ disk_pages <= file.pages /\ file.pages <= page_count
  /\ \A p \in PageIds : (\A v \in freed : frame[v].page_id # p) => file.disk[p] = disk[p]
  /\ \A v \in freed : /\ frame[v].page_id < file.pages
                      /\ ClearLast[file.disk[frame[v].page_id]] = ClearLast[frame[v].data]

\* sm_persist_page before a page is freed.
LEMMA PersistKeeps ==
  ASSUME CacheInv, DataInv, ~crashed, NEW v \in Cached, proc # "down"
  PROVE  FileKeeps({v}, PersistTo(OnDisk, v))
<1> DEFINE q == frame[v].page_id
<1>1. /\ disk \in [PageIds -> Content] /\ disk_pages \in Nat /\ page_count \in Nat
      /\ disk_pages <= page_count /\ v \in Frames
      /\ frame[v] \in Copies /\ q \in PageIds /\ q \in Nat /\ q < page_count
  BY InSequence, StorageAssumption
     DEF CacheInv, TypeOK, DataInv, FileInv, CopiesInv, Cached, Copies, Count, PageIds
<1>2. CASE frame[v].is_dirty
  <2>1. /\ PersistTo(OnDisk, v).disk = [disk EXCEPT ![q] = frame[v].data]
        /\ PersistTo(OnDisk, v).pages = Later(disk_pages, q + 1)
    BY <1>2 DEF PersistTo, OnDisk
  <2>2. disk_pages <= Later(disk_pages, q + 1) /\ q < Later(disk_pages, q + 1)
        /\ Later(disk_pages, q + 1) <= page_count /\ Later(disk_pages, q + 1) \in Nat
    BY <1>1 DEF Later
  <2>3. [disk EXCEPT ![q] = frame[v].data][q] = frame[v].data
        /\ \A p \in PageIds : p # q => [disk EXCEPT ![q] = frame[v].data][p] = disk[p]
    BY <1>1
  <2> QED BY <2>1, <2>2, <2>3 DEF FileKeeps
<1>3. CASE ~frame[v].is_dirty
  <2>1. PersistTo(OnDisk, v).disk = disk /\ PersistTo(OnDisk, v).pages = disk_pages
    BY <1>3 DEF PersistTo, OnDisk
  <2>2. q < disk_pages /\ ClearLast[frame[v].data] = ClearLast[disk[q]]
    BY <1>3 DEF DataInv, CleanInv
  <2> QED BY <1>1, <2>1, <2>2 DEF FileKeeps
<1> QED BY <1>2, <1>3

\* evict_lru_page, or no eviction where there is room.
LEMMA EvictionKeeps ==
  ASSUME CacheInv, DataInv, ~crashed, NEW id \in PageIds, MayFetch(id), Hits(id) = {}
  PROVE  FileKeeps(MadeRoom.freed, MadeRoom.file)
<1>1. MadeRoom.freed \subseteq Cached /\ proc = "running" /\ Count = page_count
  BY EvictionMakesRoom DEF MayFetch, Count, Listed
<1>2. CASE MadeRoom = Unchanged
  <2>1. disk_pages \in Nat /\ page_count \in Nat /\ disk_pages <= page_count
    BY <1>1, StorageAssumption DEF CacheInv, TypeOK, DataInv, FileInv
  <2> QED BY <1>2, <2>1 DEF Unchanged, OnDisk, FileKeeps
<1>3. CASE MadeRoom = Evict(lru.tail)
  <2>1. MadeRoom.freed = {lru.tail} /\ MadeRoom.file = PersistTo(OnDisk, lru.tail)
    BY <1>3 DEF Evict
  <2> QED BY <1>1, <2>1, PersistKeeps
<1> QED BY <1>2, <1>3 DEF MadeRoom

\* What the invariant says of the pages that stay, and of the file.
LEMMA RestIsKept ==
  ASSUME CacheInv, DataInv, ~crashed, proc # "down", NEW freed, NEW file, FileKeeps(freed, file)
  PROVE  /\ \A g \in Cached \ freed : ~frame[g].is_dirty =>
              /\ frame[g].page_id < file.pages
              /\ ClearLast[frame[g].data] = ClearLast[file.disk[frame[g].page_id]]
         /\ \A p \in PageIds : p >= page_count => file.disk[p] = Zero
         /\ \A p \in 1 .. page_count - 1 :
              \/ p < file.pages
              \/ \E g \in Cached \ freed : frame[g].page_id = p /\ frame[g].is_dirty
              \/ p = pending /\ ~Room
<1>1. /\ disk_pages \in Nat /\ page_count \in Nat /\ Count = page_count
      /\ \A g \in Cached : frame[g].page_id \in PageIds /\ frame[g].page_id \in Nat
      /\ \A v \in freed : v \in Cached /\ frame[v].page_id < file.pages
      /\ file.pages \in Nat /\ disk_pages <= file.pages /\ file.pages <= page_count
  BY InSequence, StorageAssumption
     DEF CacheInv, TypeOK, Cached, Copies, Count, PageIds, FileKeeps
<1>2. \A g \in Cached \ freed : \A v \in freed : frame[v].page_id # frame[g].page_id
  BY <1>1 DEF DataInv, CopiesInv
<1>3. ASSUME NEW g \in Cached \ freed, ~frame[g].is_dirty
      PROVE  /\ frame[g].page_id < file.pages
             /\ ClearLast[frame[g].data] = ClearLast[file.disk[frame[g].page_id]]
  <2>1. frame[g].page_id < disk_pages
        /\ ClearLast[frame[g].data] = ClearLast[disk[frame[g].page_id]]
    BY <1>3 DEF DataInv, CleanInv
  <2> QED BY <1>1, <1>2, <2>1 DEF FileKeeps
<1>4. ASSUME NEW p \in PageIds, p >= page_count PROVE file.disk[p] = Zero
  <2>1. \A v \in freed : frame[v].page_id # p
    BY <1>1, <1>4 DEF DataInv, CopiesInv, PageIds
  <2> QED BY <1>1, <1>4, <2>1 DEF FileKeeps, DataInv, FileInv
<1>5. ASSUME NEW p \in 1 .. page_count - 1
      PROVE  \/ p < file.pages
             \/ \E g \in Cached \ freed : frame[g].page_id = p /\ frame[g].is_dirty
             \/ p = pending /\ ~Room
  <2>1. CASE p < disk_pages
    BY <1>1, <2>1
  <2>2. ASSUME NEW g \in Cached, frame[g].page_id = p, frame[g].is_dirty
        PROVE  p < file.pages \/ g \in Cached \ freed
    BY <1>1, <2>2
  <2> QED BY <1>1, <2>1, <2>2 DEF DataInv, ReadableInv
<1> QED BY <1>3, <1>4, <1>5

-----------------------------------------------------------------------------
(* Each step keeps the invariant.                                          *)

\* The numbers and pages that the steps compute with.
LEMMA PageTypes ==
  ASSUME CacheInv
  PROVE  /\ Cached \subseteq Frames
         /\ page_count \in Nat /\ disk_pages \in Nat /\ disk_count \in Nat /\ pending \in Nat
         /\ MaxPages \in Nat
         /\ disk \in [PageIds -> Content]
         /\ \A f \in Cached : frame[f] \in Copies /\ frame[f].page_id \in PageIds
         /\ \A p \in PageIds : p \in Nat
BY InSequence, StorageAssumption DEF CacheInv, TypeOK, Cached, Copies, PageIds

\* Before the first sm_open there is no page.
LEMMA InitDataInv == Init => DataInv
<1> SUFFICES ASSUME Init PROVE CopiesInv /\ CleanInv /\ FileInv /\ CallerInv /\ ReadableInv
  BY DEF DataInv
<1>1. Cached = {} /\ Count = 0
  BY EmptyCache DEF Init, Cached, Count
<1> QED BY <1>1 DEF Init, CopiesInv, CleanInv, FileInv, CallerInv, ReadableInv

\* sm_open finds the file as long as it was left.
LEMMA OpenKeepsDataInv ==
  ASSUME CacheInv, DataInv, ~crashed, SmOpen
  PROVE  DataInv'
<1>1. /\ proc = "down" /\ proc' = "running" /\ disk_count \in Nat
      /\ page_count' = IF disk_count = 0 THEN 1 ELSE disk_count
      /\ UNCHANGED <<pages, frame, pending, held, disk, disk_pages>>
      /\ Count = disk_count /\ Count' = page_count'
  BY PageTypes DEF SmOpen, Count
<1>2. Cached' = {} /\ pending = 0 /\ held = NULL
  BY <1>1, EmptyCache DEF CacheInv, IdleInv, DataInv, CallerInv, Cached
<1>3. CopiesInv' /\ CleanInv' /\ CallerInv'
  BY <1>1, <1>2 DEF CopiesInv, CleanInv, CallerInv
<1>4. FileInv'
  BY <1>1, PageTypes DEF DataInv, FileInv
<1>5. ReadableInv'
  <2>1. Cached = {}
    BY <1>1, EmptyCache DEF CacheInv, IdleInv, Cached
  <2> QED BY <1>1, <1>2, <2>1 DEF DataInv, ReadableInv
<1> QED BY <1>3, <1>4, <1>5 DEF DataInv

\* sm_get_page on a cached page, of which the file may have no trace.
LEMMA HitKeepsDataInv ==
  ASSUME CacheInv, DataInv, ~crashed, ~crashed', NEW id \in PageIds, CacheHit(id)
  PROVE  DataInv'
<1>1. /\ proc = "running" /\ pending \in {0, id} /\ Hits(id) # {}
      /\ held' = Find(id) /\ pending' = 0
      /\ UNCHANGED <<proc, page_count, pages, frame, disk, disk_pages, disk_count>>
  BY DEF CacheHit, MayFetch
<1>2. Find(id) \in Cached /\ frame[Find(id)].page_id = id
  BY <1>1, WhatIsFound DEF CacheInv
<1>3. Cached' = Cached /\ Count' = Count /\ Room' = Room
  BY <1>1 DEF Cached, Count, Room
<1>4. CopiesInv' /\ CleanInv' /\ FileInv' /\ CallerInv'
  BY <1>1, <1>2, <1>3 DEF DataInv, CopiesInv, CleanInv, FileInv, CallerInv
<1>5. ReadableInv'
  <2>1. pending # 0 => \/ pending < disk_pages
                       \/ \E f \in Cached : frame[f].page_id = pending /\ frame[f].is_dirty
    BY <1>1, <1>2 DEF DataInv, CleanInv
  <2> QED BY <1>1, <1>3, <2>1 DEF DataInv, ReadableInv
<1> QED BY <1>4, <1>5 DEF DataInv

\* sm_get_page on a page the file has: one page may leave, and this one comes.
LEMMA MissRefills ==
  ASSUME CacheInv, NEW id \in PageIds, CacheMiss(id)
  PROVE  /\ MayFetch(id) /\ Hits(id) = {} /\ id < MadeRoom.file.pages
         /\ held' \in Frames /\ held' \notin Cached \ MadeRoom.freed
         /\ Cached' = (Cached \ MadeRoom.freed) \cup {held'}
         /\ frame'[held'] = [page_id |-> id, data |-> MadeRoom.file.disk[id], is_dirty |-> FALSE]
         /\ \A g \in Cached \ MadeRoom.freed : frame'[g] = frame[g]
         /\ disk' = MadeRoom.file.disk /\ disk_pages' = MadeRoom.file.pages /\ pending' = 0
         /\ UNCHANGED <<proc, page_count, disk_count, crashed>>
<1> DEFINE R == MadeRoom
<1>1. MayFetch(id) /\ Hits(id) = {} /\ id < R.file.pages
  BY DEF CacheMiss
<1>2. PICK f \in Frames \ ToSet(R.pages) :
        /\ pages' = Append(R.pages, f)
        /\ frame' = [g \in Frames |->
             IF g = f THEN [page_id |-> id, data |-> R.file.disk[id], is_dirty |-> FALSE]
             ELSE IF g \in R.freed THEN Blank ELSE frame[g]]
        /\ held' = f
  BY DEF CacheMiss
<1>3. /\ disk' = R.file.disk /\ disk_pages' = R.file.pages /\ pending' = 0
      /\ UNCHANGED <<proc, page_count, disk_count, crashed>>
  BY DEF CacheMiss
<1>4. R.pages \in Seq(Frames) /\ ToSet(R.pages) = Cached \ R.freed
  BY <1>1, EvictionMakesRoom
<1> HIDE DEF R
<1>5. Cached' = (Cached \ R.freed) \cup {f}
  BY <1>2, <1>4, AppendAdds DEF Cached
<1>6. Cached \subseteq Frames
  BY PageTypes
<1>7. /\ frame'[f] = [page_id |-> id, data |-> R.file.disk[id], is_dirty |-> FALSE]
      /\ \A g \in Cached \ R.freed : frame'[g] = frame[g]
  BY <1>2, <1>4, <1>6
<1> QED BY <1>1, <1>2, <1>3, <1>4, <1>5, <1>7 DEF R

\* The page that comes has a number that no other cached page has, and what
\* the file holds.
LEMMA MissKeepsDataInv ==
  ASSUME CacheInv, DataInv, ~crashed, NEW id \in PageIds, CacheMiss(id)
  PROVE  DataInv'
<1> DEFINE freed == MadeRoom.freed
           file == MadeRoom.file
           kept == Cached \ freed
<1>1. /\ MayFetch(id) /\ Hits(id) = {} /\ id < file.pages
      /\ held' \in Frames /\ held' \notin kept
      /\ Cached' = kept \cup {held'}
      /\ frame'[held'] = [page_id |-> id, data |-> file.disk[id], is_dirty |-> FALSE]
      /\ \A g \in kept : frame'[g] = frame[g]
      /\ disk' = file.disk /\ disk_pages' = file.pages /\ pending' = 0
      /\ UNCHANGED <<proc, page_count, disk_count, crashed>>
  BY MissRefills
<1>2. FileKeeps(freed, file)
  BY <1>1, EvictionKeeps
<1>3. proc = "running" /\ pending \in {0, id} /\ Count = page_count /\ Count' = page_count
  BY <1>1 DEF MayFetch, Count
<1>4. /\ \A g \in kept : ~frame[g].is_dirty =>
           /\ frame[g].page_id < file.pages
           /\ ClearLast[frame[g].data] = ClearLast[file.disk[frame[g].page_id]]
      /\ \A p \in PageIds : p >= page_count => file.disk[p] = Zero
      /\ \A p \in 1 .. page_count - 1 :
           \/ p < file.pages
           \/ \E g \in kept : frame[g].page_id = p /\ frame[g].is_dirty
           \/ p = pending /\ ~Room
  BY <1>2, <1>3, RestIsKept
<1>5. \A g \in Cached : frame[g].page_id # id
  BY <1>1, WhatIsFound DEF CacheInv
<1>6. file.pages \in Nat /\ file.pages <= page_count /\ id \in Nat /\ page_count \in Nat
  BY <1>2, PageTypes DEF FileKeeps
<1> HIDE DEF freed, file
<1>7. CopiesInv'
  <2>1. \A f \in Cached' : frame'[f].page_id < page_count
    BY <1>1, <1>6 DEF DataInv, CopiesInv
  <2>2. \A f, g \in Cached' : frame'[f].page_id = frame'[g].page_id => f = g
    BY <1>1, <1>5 DEF DataInv, CopiesInv
  <2> QED BY <1>1, <2>1, <2>2 DEF CopiesInv
<1>8. CleanInv'
  BY <1>1, <1>4 DEF CleanInv
<1>9. FileInv'
  BY <1>1, <1>3, <1>4, <1>6 DEF FileInv
<1>10. CallerInv'
  BY <1>1, <1>3 DEF CallerInv
<1>11. ReadableInv'
  BY <1>1, <1>3, <1>4 DEF ReadableInv
<1> QED BY <1>7, <1>8, <1>9, <1>10, <1>11 DEF DataInv

\* sm_get_page on a page that is nowhere: a page may leave all the same.
LEMMA ShortReadKeepsDataInv ==
  ASSUME CacheInv, DataInv, ~crashed, ~crashed', NEW id \in PageIds, ShortRead(id)
  PROVE  DataInv'
<1> DEFINE freed == MadeRoom.freed
           file == MadeRoom.file
           kept == Cached \ freed
<1>1. /\ MayFetch(id) /\ Hits(id) = {} /\ pending = 0
      /\ pages' = MadeRoom.pages
      /\ frame' = [g \in Frames |-> IF g \in freed THEN Blank ELSE frame[g]]
      /\ held' = NULL /\ disk' = file.disk /\ disk_pages' = file.pages
      /\ UNCHANGED <<proc, page_count, pending, disk_count>>
  BY DEF ShortRead
<1>2. FileKeeps(freed, file) /\ Cached' = kept
  BY <1>1, EvictionKeeps, EvictionMakesRoom DEF Cached
<1>3. proc = "running" /\ Count = page_count /\ Count' = page_count
  BY <1>1 DEF MayFetch, Count
<1>4. /\ \A g \in kept : ~frame[g].is_dirty =>
           /\ frame[g].page_id < file.pages
           /\ ClearLast[frame[g].data] = ClearLast[file.disk[frame[g].page_id]]
      /\ \A p \in PageIds : p >= page_count => file.disk[p] = Zero
      /\ \A p \in 1 .. page_count - 1 :
           \/ p < file.pages
           \/ \E g \in kept : frame[g].page_id = p /\ frame[g].is_dirty
           \/ p = pending /\ ~Room
  BY <1>2, <1>3, RestIsKept
<1> HIDE DEF freed, file
<1>5. \A g \in kept : frame'[g] = frame[g]
  BY <1>1, PageTypes
<1>6. CopiesInv'
  BY <1>1, <1>2, <1>5 DEF DataInv, CopiesInv
<1>7. CleanInv' /\ CallerInv'
  BY <1>1, <1>2, <1>4, <1>5 DEF CleanInv, CallerInv
<1>8. FileInv'
  BY <1>1, <1>2, <1>3, <1>4 DEF FileInv, FileKeeps
<1>9. ReadableInv'
  BY <1>1, <1>2, <1>3, <1>4, <1>5 DEF ReadableInv
<1> QED BY <1>6, <1>7, <1>8, <1>9 DEF DataInv

\* sm_allocate_page: what it does to the cache and the file.
LEMMA AllocateAdds ==
  ASSUME CacheInv, DataInv, ~crashed, SmAllocatePage
  PROVE  /\ proc = "running" /\ pending = 0 /\ page_count \in PageIds /\ page_count >= 1
         /\ disk' = [disk EXCEPT ![page_count - 1] = ClearLast[disk[page_count - 1]]]
         /\ page_count - 1 \in PageIds
         /\ disk_pages' = Later(disk_pages, page_count)
         /\ page_count' = page_count + 1 /\ pending' = page_count
         /\ UNCHANGED <<proc, held, disk_count, crashed>>
         /\ \A g \in Cached : frame'[g] = frame[g]
         /\ \/ ~Room /\ ~Room' /\ Cached' = Cached
            \/ \E f \in Frames \ Cached : /\ Cached' = Cached \cup {f}
                                          /\ frame'[f] = NewPage(page_count)
<1>1. /\ proc = "running" /\ pending = 0 /\ page_count < MaxPages
      /\ disk' = [disk EXCEPT ![page_count - 1] = ClearLast[@]]
      /\ disk_pages' = Later(disk_pages, page_count)
      /\ page_count' = page_count + 1 /\ pending' = page_count
      /\ UNCHANGED <<proc, held, disk_count, crashed>>
  BY DEF SmAllocatePage
<1>2. page_count \in PageIds /\ page_count >= 1 /\ page_count - 1 \in PageIds
  BY <1>1, PageTypes, StorageAssumption DEF CacheInv, RoomInv, PageIds
<1>3. disk' = [disk EXCEPT ![page_count - 1] = ClearLast[disk[page_count - 1]]]
  BY <1>1, <1>2, PageTypes
<1>4. CASE ~Room
  <2>1. UNCHANGED <<pages, frame>>
    BY <1>4 DEF SmAllocatePage
  <2> QED BY <1>1, <1>2, <1>3, <1>4, <2>1 DEF Cached, Room
<1>5. CASE Room
  <2>1. PICK f \in Frames \ Cached : /\ pages' = Append(pages, f)
                                     /\ frame' = [frame EXCEPT ![f] = NewPage(page_count)]
    BY <1>5 DEF SmAllocatePage
  <2>2. Cached' = Cached \cup {f}
    BY <2>1, AppendAdds DEF Cached, CacheInv, TypeOK
  <2>3. frame'[f] = NewPage(page_count) /\ \A g \in Cached : frame'[g] = frame[g]
    BY <2>1, PageTypes DEF CacheInv, TypeOK
  <2> QED BY <1>1, <1>2, <1>3, <2>1, <2>2, <2>3
<1> QED BY <1>4, <1>5

\* The new page has the number behind all the others, and is dirty.
LEMMA AllocateKeepsDataInv ==
  ASSUME CacheInv, DataInv, ~crashed, SmAllocatePage
  PROVE  DataInv'
<1> DEFINE n == page_count
<1>1. /\ proc = "running" /\ pending = 0 /\ n \in PageIds /\ n >= 1
      /\ disk' = [disk EXCEPT ![n - 1] = ClearLast[disk[n - 1]]] /\ n - 1 \in PageIds
      /\ disk_pages' = Later(disk_pages, n)
      /\ page_count' = n + 1 /\ pending' = n
      /\ UNCHANGED <<proc, held, disk_count, crashed>>
      /\ \A g \in Cached : frame'[g] = frame[g]
  BY AllocateAdds
<1>2. \/ ~Room /\ ~Room' /\ Cached' = Cached
      \/ \E f \in Frames \ Cached : Cached' = Cached \cup {f} /\ frame'[f] = NewPage(n)
  BY AllocateAdds
<1>3. /\ n \in Nat /\ disk_pages \in Nat /\ disk_pages <= n /\ disk_pages' \in Nat
      /\ disk_pages <= disk_pages' /\ disk_pages' <= n + 1 /\ n <= disk_pages'
      /\ Count = n /\ Count' = n + 1
  BY <1>1, PageTypes DEF DataInv, FileInv, Count, Later
<1>4. \A f \in Cached' : f \in Cached \/ (frame'[f] = NewPage(n) /\ f \notin Cached)
  BY <1>2
<1>5. \A p \in PageIds : p \in Nat /\ ClearLast[disk'[p]] = ClearLast[disk[p]]
                         /\ (p > n => disk'[p] = disk[p])
  <2>1. ASSUME NEW p \in PageIds PROVE ClearLast[disk'[p]] = ClearLast[disk[p]]
    <3>1. disk[p] \in Content /\ disk'[p] = IF p = n - 1 THEN ClearLast[disk[p]] ELSE disk[p]
      BY <1>1, PageTypes
    <3> QED BY <3>1, StorageAssumption
  <2>2. ASSUME NEW p \in PageIds, p > n PROVE disk'[p] = disk[p]
    BY <1>1, <1>3, <2>2, PageTypes
  <2> QED BY <2>1, <2>2, PageTypes
<1>6. \A f \in Cached : frame[f].page_id \in PageIds /\ frame[f].page_id < n
  BY PageTypes DEF DataInv, CopiesInv
<1> HIDE DEF n
<1>7. CopiesInv'
  <2>1. NewPage(n).page_id = n /\ \A f \in Cached' : frame'[f].page_id < n + 1
    BY <1>1, <1>3, <1>4, <1>5, <1>6 DEF NewPage
  <2>2. ASSUME NEW f \in Cached', NEW g \in Cached', frame'[f].page_id = frame'[g].page_id
        PROVE  f = g
    <3>1. CASE f \in Cached /\ g \in Cached
      BY <1>1, <2>2, <3>1 DEF DataInv, CopiesInv
    <3>2. CASE f \notin Cached /\ g \notin Cached
      BY <1>2, <3>2
    <3>3. CASE (f \in Cached /\ g \notin Cached) \/ (f \notin Cached /\ g \in Cached)
      BY <1>1, <1>3, <1>4, <1>5, <1>6, <2>1, <2>2, <3>3
    <3> QED BY <3>1, <3>2, <3>3
  <2> QED BY <1>1, <2>1, <2>2 DEF CopiesInv
<1>8. CleanInv'
  <2> SUFFICES ASSUME NEW f \in Cached', ~frame'[f].is_dirty
               PROVE  /\ frame'[f].page_id < disk_pages'
                      /\ ClearLast[frame'[f].data] = ClearLast[disk'[frame'[f].page_id]]
    BY DEF CleanInv
  <2>1. f \in Cached
    BY <1>4 DEF NewPage
  <2> DEFINE q == frame[f].page_id
  <2>2. frame'[f] = frame[f] /\ q \in PageIds
    BY <1>1, <1>6, <2>1
  <2>3. q < disk_pages /\ ClearLast[frame[f].data] = ClearLast[disk[q]]
    BY <2>1, <2>2 DEF DataInv, CleanInv
  <2>4. q < disk_pages'
    BY <1>3, <1>5, <2>2, <2>3
  <2>5. ClearLast[disk'[q]] = ClearLast[disk[q]]
    BY <1>5, <2>2
  <2> QED BY <2>2, <2>3, <2>4, <2>5
<1>9. FileInv'
  BY <1>3, <1>5 DEF DataInv, FileInv
<1>10. CallerInv'
  BY <1>1, <1>2 DEF DataInv, CallerInv
<1>11. ReadableInv'
  <2> SUFFICES ASSUME NEW p \in 1 .. n
               PROVE  \/ p < disk_pages'
                      \/ \E f \in Cached' : frame'[f].page_id = p /\ frame'[f].is_dirty
                      \/ p = pending' /\ ~Room'
    BY <1>3 DEF ReadableInv
  <2>1. CASE p < n
    BY <1>3, <2>1
  <2>2. CASE p = n
    BY <1>1, <1>2, <2>2 DEF NewPage
  <2> QED BY <1>3, <2>1, <2>2
<1> QED BY <1>7, <1>8, <1>9, <1>10, <1>11 DEF DataInv

\* A caller's write makes the page dirty, so it need not agree with the file.
LEMMA WriteKeepsDataInv ==
  ASSUME CacheInv, DataInv, ~crashed, WritePage
  PROVE  DataInv'
<1>1. PICK c \in Content : frame' = [frame EXCEPT ![held] = Modified(@, c)]
  BY DEF WritePage
<1>2. /\ proc = "running" /\ held \in Cached /\ held \in Frames /\ frame \in [Frames -> Copies]
      /\ UNCHANGED <<proc, page_count, pages, pending, held, disk, disk_pages, disk_count, crashed>>
  BY PageTypes DEF WritePage, DataInv, CallerInv, CacheInv, TypeOK, Copies
<1>3. /\ \A f \in Frames : frame'[f].page_id = frame[f].page_id
      /\ frame'[held].is_dirty
      /\ \A f \in Frames : f # held => frame'[f] = frame[f]
  BY <1>1, <1>2 DEF Modified, Copies
<1>4. Cached' = Cached /\ Count' = Count /\ Room' = Room /\ Cached \subseteq Frames
  BY <1>2, PageTypes DEF Cached, Count, Room
<1>5. CopiesInv' /\ CleanInv' /\ FileInv' /\ CallerInv'
  BY <1>2, <1>3, <1>4 DEF DataInv, CopiesInv, CleanInv, FileInv, CallerInv
<1>6. ReadableInv'
  BY <1>2, <1>3, <1>4 DEF DataInv, ReadableInv
<1> QED BY <1>5, <1>6 DEF DataInv

\* sm_close writes the first page that is left and frees it.
LEMMA ClosePageKeepsDataInv ==
  ASSUME CacheInv, DataInv, ~crashed, ClosePage
  PROVE  DataInv'
<1> DEFINE f == Head(pages)
           file == PersistTo(OnDisk, f)
           kept == Cached \ {f}
<1>1. /\ proc = "closing" /\ pages # <<>>
      /\ disk' = file.disk /\ disk_pages' = file.pages
      /\ pages' = Tail(pages) /\ frame' = [frame EXCEPT ![f] = Blank]
      /\ UNCHANGED <<proc, page_count, pending, held, disk_count, crashed>>
  BY DEF ClosePage
<1>2. f \in Cached /\ Cached' = kept
  BY <1>1, TailDrops DEF Cached, CacheInv, TypeOK, NoFrameTwice
<1>3. FileKeeps({f}, file)
  BY <1>1, <1>2, PersistKeeps
<1>4. held = NULL /\ pending = 0 /\ Count = page_count /\ Count' = page_count
  BY <1>1 DEF DataInv, CallerInv, Count
<1>5. /\ \A g \in kept : ~frame[g].is_dirty =>
           /\ frame[g].page_id < file.pages
           /\ ClearLast[frame[g].data] = ClearLast[file.disk[frame[g].page_id]]
      /\ \A p \in PageIds : p >= page_count => file.disk[p] = Zero
      /\ \A p \in 1 .. page_count - 1 :
           \/ p < file.pages
           \/ \E g \in kept : frame[g].page_id = p /\ frame[g].is_dirty
           \/ p = pending /\ ~Room
  BY <1>1, <1>3, RestIsKept
<1> HIDE DEF f, file
<1>6. \A g \in kept : frame'[g] = frame[g]
  BY <1>1, <1>2, PageTypes DEF CacheInv, TypeOK
<1>7. CopiesInv'
  BY <1>1, <1>2, <1>6 DEF DataInv, CopiesInv
<1>8. CleanInv' /\ CallerInv'
  BY <1>1, <1>2, <1>4, <1>5, <1>6 DEF CleanInv, CallerInv
<1>9. FileInv'
  BY <1>1, <1>3, <1>4, <1>5 DEF FileInv, FileKeeps
<1>10. ReadableInv'
  BY <1>1, <1>2, <1>4, <1>5, <1>6 DEF ReadableInv
<1> QED BY <1>7, <1>8, <1>9, <1>10 DEF DataInv

\* The end of sm_close: the header counts the pages that are in the file.
LEMMA CloseKeepsDataInv ==
  ASSUME CacheInv, DataInv, ~crashed, BeginClose \/ CloseHeader
  PROVE  DataInv'
<1>1. CASE BeginClose
  <2>1. /\ proc = "running" /\ proc' = "closing" /\ pending = 0 /\ held' = NULL
        /\ UNCHANGED <<page_count, pages, frame, pending, disk, disk_pages, disk_count, crashed>>
    BY <1>1 DEF BeginClose
  <2>2. Cached' = Cached /\ Count' = Count
    BY <2>1 DEF Cached, Count
  <2>3. CopiesInv' /\ CleanInv' /\ FileInv' /\ CallerInv'
    BY <2>1, <2>2 DEF DataInv, CopiesInv, CleanInv, FileInv, CallerInv
  <2>4. ReadableInv'
    BY <2>1, <2>2 DEF DataInv, ReadableInv
  <2> QED BY <2>3, <2>4 DEF DataInv
<1>2. CASE CloseHeader
  <2>1. /\ proc = "closing" /\ proc' = "down" /\ pages = <<>> /\ disk_count' = page_count
        /\ UNCHANGED <<pages, frame, pending, held, disk, disk_pages, crashed>>
    BY <1>2 DEF CloseHeader, HeaderCount
  <2>2. Cached = {} /\ Cached' = {} /\ Count' = Count /\ held = NULL /\ pending = 0
    BY <2>1, EmptyCache DEF Cached, Count, DataInv, CallerInv
  <2>3. CopiesInv' /\ CleanInv' /\ FileInv' /\ CallerInv'
    BY <2>1, <2>2 DEF DataInv, CopiesInv, CleanInv, FileInv, CallerInv
  <2>4. ReadableInv'
    BY <2>1, <2>2 DEF DataInv, ReadableInv
  <2> QED BY <2>3, <2>4 DEF DataInv
<1> QED BY <1>1, <1>2

\* No step of the storage manager breaks the invariant; once a process has
\* died it says nothing.
LEMMA NextDataInv == CacheInv /\ DataInv /\ [Next]_vars => DataInv'
<1> SUFFICES ASSUME CacheInv, DataInv, [Next]_vars, ~crashed' PROVE DataInv'
  BY DEF DataInv
<1>1. CASE UNCHANGED vars
  BY <1>1 DEF vars, DataInv, CopiesInv, CleanInv, FileInv, CallerInv, ReadableInv,
              Cached, Count, Room
<1>2. CASE Next
  <2>1. ~crashed
    BY <1>2 DEF Next, SmOpen, CacheHit, CacheMiss, ShortRead, SmAllocatePage, WritePage,
                BeginClose, ClosePage, CloseHeader, Crash
  <2>2. CASE SmOpen
    BY <2>1, <2>2, OpenKeepsDataInv
  <2>3. ASSUME NEW id \in PageIds, CacheHit(id) \/ CacheMiss(id) \/ ShortRead(id)
        PROVE  DataInv'
    BY <2>1, <2>3, HitKeepsDataInv, MissKeepsDataInv, ShortReadKeepsDataInv
  <2>4. CASE SmAllocatePage
    BY <2>1, <2>4, AllocateKeepsDataInv
  <2>5. CASE WritePage
    BY <2>1, <2>5, WriteKeepsDataInv
  <2>6. CASE BeginClose \/ CloseHeader
    BY <2>1, <2>6, CloseKeepsDataInv
  <2>7. CASE ClosePage
    BY <2>1, <2>7, ClosePageKeepsDataInv
  <2>8. CASE Crash
    BY <2>8 DEF Crash
  <2> QED BY <1>2, <2>2, <2>3, <2>4, <2>5, <2>6, <2>7, <2>8 DEF Next
<1> QED BY <1>1, <1>2

\* The invariant of the pages' data holds in every reachable state.
THEOREM SpecDataInv == Spec => []DataInv
BY InitDataInv, NextDataInv, SpecCacheInv, PTL DEF Spec

-----------------------------------------------------------------------------
(* What follows for the caller of storage.c.                               *)

\* A page number has at most one copy in the cache, until a process dies, so
\* no write goes to a copy that the next fetch passes over.
THEOREM IdsAreUnique == Spec => []UniqueIds
<1>1. DataInv => UniqueIds
  BY DEF DataInv, CopiesInv, UniqueIds
<1> QED BY <1>1, SpecDataInv, PTL

\* The pointer that sm_get_page returned last leads to the copy that a fetch
\* of the same number would return: no call in between freed or moved it.
THEOREM HeldStaysCurrent == Spec => []HeldIsCurrent
<1>1. CacheInv /\ DataInv => HeldIsCurrent
  BY WhatIsRead DEF CacheInv, DataInv, CallerInv, ReadInv, HeldIsCurrent
<1> QED BY <1>1, SpecCacheInv, SpecDataInv, PTL

\* Every page handed out is in the file or still to be written there, but the
\* one whose allocation found the cache full.
THEOREM PagesStayReadable == Spec => []AllocatedPagesReadable
<1>1. DataInv => AllocatedPagesReadable
  BY DEF DataInv, ReadableInv, AllocatedPagesReadable
<1> QED BY <1>1, SpecDataInv, PTL

-----------------------------------------------------------------------------
(* The storage manager implements PageStore.                               *)

\* The same of the state after a step.
LEMMA WhatIsReadNext == (TypeOK /\ CopiesInv => ReadInv)'
BY WhatIsRead, PTL

\* Writing pages back, and reading one in, changes nothing that a caller
\* would read, but for the last byte of a page.
LEMMA ReadsStay ==
  ASSUME CacheInv, DataInv, ~crashed, CacheInv', DataInv', ~crashed',
         NEW freed, NEW file, FileKeeps(freed, file), disk' = file.disk,
         Cached \ freed \subseteq Cached',
         \A g \in Cached \ freed : frame'[g] = frame[g],
         \A g \in Cached' : g \in Cached \ freed
           \/ /\ frame'[g].data = file.disk[frame'[g].page_id]
              /\ \A h \in Cached : frame[h].page_id # frame'[g].page_id
  PROVE  \A p \in PageIds : ClearLast[Logical(p)'] = ClearLast[Logical(p)]
<1>1. ReadInv /\ ReadInv'
  BY WhatIsRead, WhatIsReadNext DEF CacheInv, DataInv
<1>2. freed \subseteq Cached
  BY DEF FileKeeps
<1> SUFFICES ASSUME NEW p \in PageIds PROVE ClearLast[Logical(p)'] = ClearLast[Logical(p)]
  OBVIOUS
<1>3. ASSUME NEW g \in Cached \ freed, frame[g].page_id = p
      PROVE  Logical(p)' = Logical(p)
  BY <1>1, <1>3 DEF ReadInv
<1>4. ASSUME NEW v \in freed, frame[v].page_id = p
      PROVE  ClearLast[Logical(p)'] = ClearLast[Logical(p)]
  <2>1. Logical(p) = frame[v].data
    BY <1>1, <1>2, <1>4 DEF ReadInv
  <2>2. \A g \in Cached' : frame'[g].page_id # p
    BY <1>2, <1>4 DEF DataInv, CopiesInv
  <2>3. Logical(p)' = file.disk[p]
    BY <1>1, <2>2 DEF ReadInv
  <2> QED BY <1>4, <2>1, <2>3 DEF FileKeeps
<1>5. ASSUME \A h \in Cached : frame[h].page_id # p
      PROVE  Logical(p)' = Logical(p)
  <2>1. Logical(p) = disk[p] /\ file.disk[p] = disk[p]
    BY <1>1, <1>2, <1>5 DEF ReadInv, FileKeeps
  <2>2. CASE \E g \in Cached' : frame'[g].page_id = p
    <3>1. PICK g \in Cached' : frame'[g].page_id = p
      BY <2>2
    <3>2. Logical(p)' = frame'[g].data
      BY <1>1, <3>1 DEF ReadInv
    <3>3. frame'[g].data = file.disk[p]
      BY <1>5, <3>1
    <3> QED BY <2>1, <3>2, <3>3
  <2>3. CASE \A g \in Cached' : frame'[g].page_id # p
    BY <1>1, <2>1, <2>3 DEF ReadInv
  <2> QED BY <2>2, <2>3
<1> QED BY <1>3, <1>4, <1>5

\* The state of PageStore that a state of the storage manager stands for.
StoreContent == [p \in PageIds |-> ClearLast[Logical(p)]]
StoreFetched == IF held = NULL THEN NoPage ELSE frame[held].page_id

\* Where reads stay, so does the content.
LEMMA ContentStays ==
  ASSUME \A p \in PageIds : ClearLast[Logical(p)'] = ClearLast[Logical(p)]
  PROVE  StoreContent' = StoreContent
BY DEF StoreContent

\* sm_get_page is a fetch, whether it finds the page in the cache or not.
LEMMA GetPageImplements ==
  ASSUME CacheInv, DataInv, ~crashed, CacheInv', DataInv', ~crashed',
         NEW id \in PageIds, CacheHit(id) \/ CacheMiss(id)
  PROVE  /\ proc = "running" /\ proc' = "running" /\ id < Count
         /\ StoreFetched' = id
         /\ StoreContent' = StoreContent /\ Count' = Count
<1>1. CASE CacheHit(id)
  <2>1. /\ proc = "running" /\ Hits(id) # {} /\ held' = Find(id)
        /\ UNCHANGED <<proc, page_count, pages, frame, disk, disk_pages, disk_count>>
    BY <1>1 DEF CacheHit, MayFetch
  <2>2. /\ Find(id) \in Cached /\ frame[Find(id)].page_id = id /\ Find(id) # NULL
        /\ id < page_count
    BY <2>1, WhatIsFound, PageTypes, StorageAssumption DEF CacheInv, DataInv, CopiesInv
  <2>3. \A p \in PageIds : Logical(p)' = Logical(p)
    BY <2>1 DEF Logical, Find, Hits
  <2>4. StoreContent' = StoreContent
    BY <2>3, ContentStays
  <2>5. StoreFetched' = id
    BY <2>1, <2>2 DEF StoreFetched
  <2> QED BY <2>1, <2>2, <2>4, <2>5 DEF Count
<1>2. CASE CacheMiss(id)
  <2> DEFINE freed == MadeRoom.freed
             file == MadeRoom.file
  <2>1. /\ MayFetch(id) /\ Hits(id) = {} /\ id < file.pages
        /\ held' \in Frames /\ held' \notin Cached \ freed
        /\ Cached' = (Cached \ freed) \cup {held'}
        /\ frame'[held'] = [page_id |-> id, data |-> file.disk[id], is_dirty |-> FALSE]
        /\ \A g \in Cached \ freed : frame'[g] = frame[g]
        /\ disk' = file.disk /\ disk_pages' = file.pages /\ pending' = 0
        /\ UNCHANGED <<proc, page_count, disk_count, crashed>>
    BY <1>2, MissRefills
  <2>2. FileKeeps(freed, file)
    BY <2>1, EvictionKeeps
  <2>3. \A g \in Cached : frame[g].page_id # id
    BY <2>1, WhatIsFound DEF CacheInv
  <2> HIDE DEF freed, file
  <2>4. StoreContent' = StoreContent
    BY <2>1, <2>2, <2>3, ReadsStay, ContentStays
  <2>5. StoreFetched' = id
    BY <2>1, StorageAssumption DEF StoreFetched
  <2>6. proc = "running" /\ id < page_count
    BY <2>1, <2>2, PageTypes DEF MayFetch, FileKeeps
  <2> QED BY <2>1, <2>4, <2>5, <2>6 DEF Count
<1> QED BY <1>1, <1>2

\* A page that is nowhere to be had, and the beginning of sm_close, take the
\* caller's page away.
LEMMA NullImplements ==
  ASSUME CacheInv, DataInv, ~crashed, CacheInv', DataInv', ~crashed',
         BeginClose \/ \E id \in PageIds : ShortRead(id)
  PROVE  /\ proc = "running" /\ proc' # "down"
         /\ StoreFetched' = NoPage
         /\ StoreContent' = StoreContent /\ Count' = Count
<1>1. CASE BeginClose
  <2>1. /\ proc = "running" /\ proc' = "closing" /\ held' = NULL
        /\ UNCHANGED <<page_count, pages, frame, disk>>
    BY <1>1 DEF BeginClose
  <2>2. \A p \in PageIds : Logical(p)' = Logical(p)
    BY <2>1 DEF Logical, Find, Hits
  <2>3. StoreContent' = StoreContent
    BY <2>2, ContentStays
  <2> QED BY <2>1, <2>3 DEF StoreFetched, Count
<1>2. ASSUME NEW id \in PageIds, ShortRead(id)
      PROVE  /\ proc = "running" /\ proc' # "down"
             /\ StoreFetched' = NoPage
             /\ StoreContent' = StoreContent /\ Count' = Count
  <2> DEFINE freed == MadeRoom.freed
             file == MadeRoom.file
  <2>1. /\ MayFetch(id) /\ Hits(id) = {} /\ pages' = MadeRoom.pages
        /\ frame' = [g \in Frames |-> IF g \in freed THEN Blank ELSE frame[g]]
        /\ held' = NULL /\ disk' = file.disk
        /\ UNCHANGED <<proc, page_count>>
    BY <1>2 DEF ShortRead
  <2>2. FileKeeps(freed, file) /\ Cached' = Cached \ freed
    BY <2>1, EvictionKeeps, EvictionMakesRoom DEF Cached
  <2> HIDE DEF freed, file
  <2>3. \A g \in Cached \ freed : frame'[g] = frame[g]
    BY <2>1, PageTypes
  <2>4. StoreContent' = StoreContent
    BY <2>1, <2>2, <2>3, ReadsStay, ContentStays
  <2> QED BY <2>1, <2>4 DEF StoreFetched, Count, MayFetch
<1> QED BY <1>1, <1>2

\* sm_allocate_page hands out a page of zeros behind the others; the byte it
\* clears is the last one of the page before.
LEMMA AllocateImplements ==
  ASSUME CacheInv, DataInv, ~crashed, CacheInv', DataInv', ~crashed', SmAllocatePage
  PROVE  /\ proc = "running" /\ proc' = "running"
         /\ Count \in PageIds /\ StoreContent[Count] = Zero /\ Count' = Count + 1
         /\ StoreContent' = StoreContent /\ StoreFetched' = StoreFetched
<1> DEFINE n == page_count
<1>1. /\ proc = "running" /\ n \in PageIds
      /\ disk' = [disk EXCEPT ![n - 1] = ClearLast[disk[n - 1]]] /\ n - 1 \in PageIds
      /\ page_count' = n + 1
      /\ UNCHANGED <<proc, held>>
      /\ \A g \in Cached : frame'[g] = frame[g]
  BY AllocateAdds
<1>2. \/ Cached' = Cached
      \/ \E f \in Frames \ Cached : Cached' = Cached \cup {f} /\ frame'[f] = NewPage(n)
  BY AllocateAdds
<1>3. Count = n /\ Count' = n + 1
  BY <1>1 DEF Count
<1>4. ReadInv /\ ReadInv'
  BY WhatIsRead, WhatIsReadNext DEF CacheInv, DataInv
<1>5. \A f \in Cached : frame[f].page_id # n
  BY PageTypes DEF DataInv, CopiesInv
<1>6. Logical(n) = Zero /\ disk[n] = Zero
  BY <1>1, <1>3, <1>4, <1>5, PageTypes DEF ReadInv, DataInv, FileInv
<1>7. StoreContent[n] = Zero
  BY <1>1, <1>6, StorageAssumption DEF StoreContent
<1>8. ASSUME NEW p \in PageIds PROVE ClearLast[Logical(p)'] = ClearLast[Logical(p)]
  <2>1. disk[p] \in Content /\ disk'[p] = IF p = n - 1 THEN ClearLast[disk[p]] ELSE disk[p]
    BY <1>1, PageTypes
  <2>2. ClearLast[disk'[p]] = ClearLast[disk[p]]
    BY <2>1, StorageAssumption
  <2>3. ASSUME NEW f \in Cached, frame[f].page_id = p PROVE Logical(p)' = Logical(p)
    BY <1>1, <1>2, <1>4, <2>3 DEF ReadInv
  <2>4. ASSUME \A f \in Cached : frame[f].page_id # p
        PROVE  ClearLast[Logical(p)'] = ClearLast[Logical(p)]
    <3>1. Logical(p) = disk[p]
      BY <1>4, <2>4 DEF ReadInv
    <3>2. CASE \A f \in Cached' : frame'[f].page_id # p
      BY <1>4, <2>2, <3>1, <3>2 DEF ReadInv
    <3>3. ASSUME NEW f \in Cached', frame'[f].page_id = p
          PROVE  Logical(p)' = Zero /\ p = n
      <4>1. frame'[f] = NewPage(n)
        BY <1>1, <1>2, <2>4, <3>3
      <4> QED BY <1>4, <3>3, <4>1 DEF ReadInv, NewPage
    <3> QED BY <1>6, <3>2, <3>3
  <2> QED BY <2>3, <2>4
<1>9. StoreContent' = StoreContent
  BY <1>8, ContentStays
<1>10. StoreFetched' = StoreFetched
  BY <1>1 DEF StoreFetched, DataInv, CallerInv
<1> QED BY <1>1, <1>3, <1>7, <1>9, <1>10

\* A write goes to the page that was fetched last, and to no other.
LEMMA WriteImplements ==
  ASSUME CacheInv, DataInv, ~crashed, CacheInv', DataInv', ~crashed', WritePage
  PROVE  /\ proc = "running" /\ proc' = "running" /\ Count' = Count
         /\ StoreFetched \in PageIds /\ StoreFetched' = StoreFetched
         /\ \E c \in Content : StoreContent' = [StoreContent EXCEPT ![StoreFetched] = c]
<1>1. PICK c \in Content : frame' = [frame EXCEPT ![held] = Modified(@, c)]
  BY DEF WritePage
<1>2. /\ proc = "running" /\ held # NULL /\ held \in Cached /\ held \in Frames
      /\ frame \in [Frames -> Copies]
      /\ UNCHANGED <<proc, page_count, pages, held, disk>>
  BY PageTypes DEF WritePage, DataInv, CallerInv, CacheInv, TypeOK, Copies
<1>3. /\ \A f \in Frames : frame'[f].page_id = frame[f].page_id
      /\ frame'[held].data = c
      /\ \A f \in Frames : f # held => frame'[f] = frame[f]
  BY <1>1, <1>2 DEF Modified, Copies
<1>4. Cached' = Cached /\ Count' = Count /\ Cached \subseteq Frames
  BY <1>2, PageTypes DEF Cached, Count
<1> DEFINE q == frame[held].page_id
<1>5. q \in PageIds /\ StoreFetched = q /\ StoreFetched' = q
  BY <1>2, <1>3, PageTypes DEF StoreFetched
<1>6. ReadInv /\ ReadInv'
  BY WhatIsRead, WhatIsReadNext DEF CacheInv, DataInv
<1>7. ASSUME NEW p \in PageIds, p = q PROVE Logical(p)' = c
  <2>1. held \in Cached' /\ frame'[held].page_id = p
    BY <1>2, <1>3, <1>4, <1>7
  <2> QED BY <1>3, <1>6, <2>1 DEF ReadInv
<1>8. ASSUME NEW p \in PageIds, p # q PROVE Logical(p)' = Logical(p)
  <2>1. ASSUME NEW f \in Cached, frame[f].page_id = p PROVE Logical(p)' = Logical(p)
    <3>1. f # held /\ f \in Frames
      BY <1>4, <1>8, <2>1
    <3> QED BY <1>3, <1>4, <1>6, <2>1, <3>1 DEF ReadInv
  <2>2. ASSUME \A f \in Cached : frame[f].page_id # p PROVE Logical(p)' = Logical(p)
    BY <1>2, <1>3, <1>4, <1>6, <2>2 DEF ReadInv
  <2> QED BY <2>1, <2>2
<1> HIDE DEF q
<1>9. StoreContent' = [StoreContent EXCEPT ![q] = ClearLast[c]]
  <2>1. \A p \in PageIds :
          ClearLast[Logical(p)'] = IF p = q THEN ClearLast[c] ELSE ClearLast[Logical(p)]
    BY <1>7, <1>8
  <2>2. StoreContent' = [p \in PageIds |-> IF p = q THEN ClearLast[c] ELSE ClearLast[Logical(p)]]
    BY <2>1, Zenon DEF StoreContent
  <2>3. [StoreContent EXCEPT ![q] = ClearLast[c]]
          = [p \in PageIds |-> IF p = q THEN ClearLast[c] ELSE ClearLast[Logical(p)]]
    BY <1>5 DEF StoreContent
  <2> QED BY <2>2, <2>3
<1>10. ClearLast[c] \in Content
  BY StorageAssumption
<1> QED BY <1>2, <1>4, <1>5, <1>9, <1>10

\* Writing a page in sm_close is no step at all for the caller, and writing
\* the header is the end of the store's session.
LEMMA CloseImplements ==
  ASSUME CacheInv, DataInv, ~crashed, CacheInv', DataInv', ~crashed', ClosePage \/ CloseHeader
  PROVE  /\ proc = "closing" /\ (proc' = "closing" \/ proc' = "down")
         /\ StoreContent' = StoreContent /\ Count' = Count
         /\ StoreFetched = NoPage /\ StoreFetched' = NoPage
<1>1. proc = "closing" /\ held = NULL /\ held' = NULL
  BY DEF ClosePage, CloseHeader, DataInv, CallerInv
<1>2. StoreFetched = NoPage /\ StoreFetched' = NoPage
  BY <1>1 DEF StoreFetched
<1>3. CASE ClosePage
  <2> DEFINE f == Head(pages)
             file == PersistTo(OnDisk, f)
  <2>1. /\ proc = "closing" /\ proc' = "closing" /\ pages # <<>>
        /\ disk' = file.disk /\ pages' = Tail(pages)
        /\ frame' = [frame EXCEPT ![f] = Blank] /\ page_count' = page_count
    BY <1>3 DEF ClosePage
  <2>2. f \in Cached /\ Cached' = Cached \ {f}
    BY <2>1, TailDrops DEF Cached, CacheInv, TypeOK, NoFrameTwice
  <2>3. FileKeeps({f}, file)
    BY <2>1, <2>2, PersistKeeps
  <2> HIDE DEF f, file
  <2>4. \A g \in Cached \ {f} : frame'[g] = frame[g]
    BY <2>1, <2>2, PageTypes DEF CacheInv, TypeOK
  <2>5. \A p \in PageIds : ClearLast[Logical(p)'] = ClearLast[Logical(p)]
    BY <2>1, <2>2, <2>3, <2>4, ReadsStay
  <2> QED BY <1>2, <2>1, <2>5, ContentStays DEF Count
<1>4. CASE CloseHeader
  <2>1. /\ proc' = "down" /\ disk_count' = page_count
        /\ UNCHANGED <<pages, frame, disk>>
    BY <1>4 DEF CloseHeader, HeaderCount
  <2>2. \A p \in PageIds : Logical(p)' = Logical(p)
    BY <2>1 DEF Logical, Find, Hits
  <2>3. StoreContent' = StoreContent
    BY <2>2, ContentStays
  <2> QED BY <1>1, <1>2, <2>1, <2>3 DEF Count
<1> QED BY <1>3, <1>4

\* An empty file is an empty store.
LEMMA InitImplements == Init => Store!Init
<1> SUFFICES ASSUME Init PROVE Store!Init
  OBVIOUS
<1>1. pages = <<>> /\ disk = [p \in PageIds |-> Zero]
  BY DEF Init
<1>2. \A p \in PageIds : Logical(p) = Zero
  BY <1>1, EmptyCache DEF Logical, Hits
<1>3. [p \in PageIds |-> ClearLast[Logical(p)]] = [p \in PageIds |-> Zero]
  BY <1>2, StorageAssumption
<1>4. Count = 0 /\ ~(proc # "down") /\ held = NULL /\ crashed = FALSE
  BY DEF Init, Count
<1> QED BY <1>3, <1>4 DEF Store!Init

\* Every step of the storage manager is a step of PageStore or none, and once
\* a process has died every step is allowed.
LEMMA NextImplements ==
  ASSUME CacheInv, DataInv, CacheInv', DataInv', [Next]_vars
  PROVE  [Store!Next]_(Store!vars)
<1>1. CASE UNCHANGED vars
  <2>1. \A p \in PageIds : Logical(p)' = Logical(p)
    BY <1>1 DEF vars, Logical, Find, Hits
  <2>2. StoreContent' = StoreContent
    BY <2>1, ContentStays
  <2>3. Count' = Count /\ StoreFetched' = StoreFetched /\ proc' = proc /\ crashed' = crashed
    BY <1>1 DEF vars, Count, StoreFetched
  <2> QED BY <2>2, <2>3 DEF Store!vars, StoreContent, StoreFetched
<1>2. CASE crashed' = TRUE
  BY <1>2 DEF Store!Next, Store!Die
<1>3. CASE Next /\ crashed' # TRUE
  <2>1. ~crashed /\ ~crashed' /\ crashed' = crashed
    BY <1>3 DEF Next, SmOpen, CacheHit, CacheMiss, ShortRead, SmAllocatePage, WritePage,
                BeginClose, ClosePage, CloseHeader, Crash, CacheInv, TypeOK
  <2>2. CASE SmOpen
    <3>1. /\ proc = "down" /\ proc' = "running"
          /\ page_count' = IF disk_count = 0 THEN 1 ELSE disk_count
          /\ UNCHANGED <<pages, frame, held, disk>>
      BY <2>2 DEF SmOpen
    <3>2. \A p \in PageIds : Logical(p)' = Logical(p)
      BY <3>1 DEF Logical, Find, Hits
    <3>3. StoreContent' = StoreContent /\ StoreFetched' = StoreFetched
      BY <3>1, <3>2, ContentStays DEF StoreFetched
    <3>4. Count' = IF Count = 0 THEN 1 ELSE Count
      BY <3>1 DEF Count
    <3>5. Store!Open
      BY <2>1, <3>1, <3>3, <3>4 DEF Store!Open, StoreContent, StoreFetched
    <3> QED BY <3>5 DEF Store!Next
  <2>3. ASSUME NEW id \in PageIds, CacheHit(id) \/ CacheMiss(id) PROVE Store!Next
    <3>1. /\ proc = "running" /\ proc' = "running" /\ id < Count
          /\ StoreFetched' = id
          /\ StoreContent' = StoreContent /\ Count' = Count
      BY <2>1, <2>3, GetPageImplements
    <3>2. Store!Fetch(id)
      BY <2>1, <3>1 DEF Store!Fetch, StoreContent, StoreFetched
    <3> QED BY <3>2 DEF Store!Next
  <2>4. CASE BeginClose \/ \E id \in PageIds : ShortRead(id)
    <3>1. /\ proc = "running" /\ proc' # "down"
          /\ StoreFetched' = NoPage
          /\ StoreContent' = StoreContent /\ Count' = Count
      BY <2>1, <2>4, NullImplements
    <3>2. Store!FetchFails
      BY <2>1, <3>1 DEF Store!FetchFails, StoreContent, StoreFetched
    <3> QED BY <3>2 DEF Store!Next
  <2>5. CASE SmAllocatePage
    <3>1. /\ proc = "running" /\ proc' = "running"
          /\ Count \in PageIds /\ StoreContent[Count] = Zero /\ Count' = Count + 1
          /\ StoreContent' = StoreContent /\ StoreFetched' = StoreFetched
      BY <2>1, <2>5, AllocateImplements
    <3>2. Store!Allocate
      BY <2>1, <3>1 DEF Store!Allocate, StoreContent, StoreFetched
    <3> QED BY <3>2 DEF Store!Next
  <2>6. CASE WritePage
    <3>1. /\ proc = "running" /\ proc' = "running" /\ Count' = Count
          /\ StoreFetched \in PageIds /\ StoreFetched' = StoreFetched
          /\ \E c \in Content : StoreContent' = [StoreContent EXCEPT ![StoreFetched] = c]
      BY <2>1, <2>6, WriteImplements
    <3>2. Store!Write(StoreFetched)
      BY <2>1, <3>1 DEF Store!Write, StoreContent, StoreFetched
    <3> QED BY <3>1, <3>2 DEF Store!Next
  <2>7. CASE ClosePage \/ CloseHeader
    <3>1. /\ proc = "closing" /\ (proc' = "closing" \/ proc' = "down")
          /\ StoreContent' = StoreContent /\ Count' = Count
          /\ StoreFetched = NoPage /\ StoreFetched' = NoPage
      BY <2>1, <2>7, CloseImplements
    <3>2. CASE proc' = "closing"
      BY <2>1, <3>1, <3>2 DEF Store!vars, StoreContent, StoreFetched
    <3>3. CASE proc' = "down"
      <4>1. Store!Close
        BY <2>1, <3>1, <3>3 DEF Store!Close, StoreContent, StoreFetched
      <4> QED BY <4>1 DEF Store!Next
    <3> QED BY <3>1, <3>2, <3>3
  <2>8. ~Crash
    BY <2>1 DEF Crash
  <2> QED BY <1>3, <2>2, <2>3, <2>4, <2>5, <2>6, <2>7, <2>8 DEF Next
<1> QED BY <1>1, <1>2, <1>3

\* The storage manager, cache, list, evictions and all, is PageStore: until a
\* process dies, a page keeps what was last written to it, through any number
\* of closes and reopens, and up to its last byte.
THEOREM ImplementsPageStore == Spec => StoreSpec
<1>1. CacheInv /\ DataInv /\ CacheInv' /\ DataInv' /\ [Next]_vars => [Store!Next]_(Store!vars)
  BY NextImplements
<1> QED BY <1>1, InitImplements, SpecCacheInv, SpecDataInv, PTL DEF Spec, StoreSpec, Store!Spec

=============================================================================
