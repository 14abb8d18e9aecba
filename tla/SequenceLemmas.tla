--------------------------- MODULE SequenceLemmas ---------------------------
(***************************************************************************)
(* What the other proofs need to know of positions and sequences.          *)
(***************************************************************************)
EXTENDS SequencesExt, SequenceTheorems, WellFoundedInduction, TLAPS

\* A set of positions has a least one.
LEMMA LeastPosition ==
  ASSUME NEW S, S \subseteq Nat, S # {}
  PROVE  \E i \in S : \A j \in S : i <= j
<1>1. PICK i \in S : \A j \in S : <<j, i>> \notin OpToRel(<, Nat)
  BY NatLessThanWellFounded, WFMin
<1>2. \A j \in S : ~(j < i)
  BY <1>1 DEF OpToRel
<1> QED BY <1>2

\* The elements of a sequence are what stands at its positions.
LEMMA InSequence ==
  ASSUME NEW S, NEW s \in Seq(S)
  PROVE  /\ ToSet(s) \subseteq S
         /\ \A i \in 1 .. Len(s) : s[i] \in ToSet(s)
         /\ \A x \in ToSet(s) : \E i \in 1 .. Len(s) : s[i] = x
BY LenProperties, ElementOfSeq DEF ToSet

\* What Append adds to the elements.
LEMMA AppendAdds ==
  ASSUME NEW S, NEW s \in Seq(S), NEW e \in S
  PROVE  ToSet(Append(s, e)) = ToSet(s) \cup {e}
<1> DEFINE t == Append(s, e)
<1>1. /\ t \in Seq(S) /\ Len(t) = Len(s) + 1 /\ Len(s) \in Nat
      /\ \A i \in 1 .. Len(s) : t[i] = s[i]
      /\ t[Len(s) + 1] = e
  BY AppendProperties, LenProperties
<1>2. /\ \A i \in 1 .. Len(t) : t[i] \in ToSet(t)
      /\ \A x \in ToSet(t) : \E i \in 1 .. Len(t) : t[i] = x
  BY <1>1, InSequence
<1>3. /\ \A i \in 1 .. Len(s) : s[i] \in ToSet(s)
      /\ \A x \in ToSet(s) : \E i \in 1 .. Len(s) : s[i] = x
  BY InSequence
<1> HIDE DEF t
<1>4. ToSet(t) \subseteq ToSet(s) \cup {e}
  <2>1. SUFFICES ASSUME NEW x \in ToSet(t), x # e PROVE x \in ToSet(s)
    OBVIOUS
  <2>2. PICK i \in 1 .. Len(t) : t[i] = x
    BY <1>2
  <2>3. i \in 1 .. Len(s)
    BY <1>1, <2>1, <2>2
  <2> QED BY <1>1, <1>3, <2>2, <2>3
<1>5. ToSet(s) \cup {e} \subseteq ToSet(t)
  BY <1>1, <1>2, <1>3
<1> QED BY <1>4, <1>5 DEF t

\* What Tail takes away from the elements of a sequence that has none twice.
LEMMA TailDrops ==
  ASSUME NEW S, NEW s \in Seq(S), s # <<>>, \A i, j \in DOMAIN s : s[i] = s[j] => i = j
  PROVE  Head(s) \in ToSet(s) /\ ToSet(Tail(s)) = ToSet(s) \ {Head(s)}
<1> DEFINE t == Tail(s)
<1>1. /\ Len(s) \in Nat /\ Len(s) >= 1 /\ DOMAIN s = 1 .. Len(s)
      /\ t \in Seq(S) /\ Len(t) = Len(s) - 1 /\ Head(s) = s[1]
      /\ \A i \in 1 .. Len(t) : t[i] = s[i + 1]
  BY HeadTailProperties, LenProperties, EmptySeq
<1>2. /\ \A i \in 1 .. Len(t) : t[i] \in ToSet(t)
      /\ \A x \in ToSet(t) : \E i \in 1 .. Len(t) : t[i] = x
  BY <1>1, InSequence
<1>3. /\ \A i \in 1 .. Len(s) : s[i] \in ToSet(s)
      /\ \A x \in ToSet(s) : \E i \in 1 .. Len(s) : s[i] = x
  BY InSequence
<1> HIDE DEF t
<1>4. ASSUME NEW x \in ToSet(t) PROVE x \in ToSet(s) \ {Head(s)}
  <2>1. PICK i \in 1 .. Len(t) : t[i] = x
    BY <1>2
  <2>2. i + 1 \in 1 .. Len(s) /\ 1 \in 1 .. Len(s) /\ s[i + 1] = x /\ i + 1 # 1
    BY <1>1, <2>1
  <2>3. s[i + 1] # s[1]
    BY <1>1, <2>2
  <2>4. x \in ToSet(s)
    BY <1>3, <2>2
  <2> QED BY <1>1, <2>2, <2>3, <2>4
<1>5. ASSUME NEW x \in ToSet(s), x # Head(s) PROVE x \in ToSet(t)
  <2>1. PICK i \in 1 .. Len(s) : s[i] = x
    BY <1>3
  <2>2. i - 1 \in 1 .. Len(t) /\ t[i - 1] = x
    BY <1>1, <1>5, <2>1
  <2> QED BY <1>2, <2>2
<1>6. Head(s) \in ToSet(s)
  BY <1>1, <1>3
<1> QED BY <1>4, <1>5, <1>6 DEF t

\* A bounded set of positions has a greatest one.
LEMMA GreatestPosition ==
  ASSUME NEW S, NEW n \in Nat, S \subseteq 0 .. n, S # {}
  PROVE  Max(S) \in S /\ \A j \in S : j <= Max(S)
<1> DEFINE T == {n - i : i \in S}
<1>1. T \subseteq Nat /\ T # {}
  <2>1. \A i \in S : n - i \in Nat
    OBVIOUS
  <2> QED BY <2>1
<1>2. PICK t \in T : \A u \in T : t <= u
  BY <1>1, LeastPosition
<1>3. PICK i \in S : t = n - i
  OBVIOUS
<1>4. \A j \in S : i >= j
  <2> SUFFICES ASSUME NEW j \in S PROVE i >= j
    OBVIOUS
  <2>1. t <= n - j
    BY <1>2
  <2> QED BY <1>3, <2>1
<1>5. Max(S) \in S /\ \A j \in S : Max(S) >= j
  BY <1>4, Zenon DEF Max
<1> QED BY <1>5

\* t is s with e put in at position i.
Inserted(t, s, i, e) ==
  /\ Len(t) = Len(s) + 1
  /\ t[i] = e
  /\ \A j \in 1 .. i - 1 : t[j] = s[j]
  /\ \A j \in i .. Len(s) : t[j + 1] = s[j]

\* What InsertAt does to the positions.
LEMMA InsertAtShifts ==
  ASSUME NEW S, NEW s \in Seq(S), NEW i \in 1 .. Len(s) + 1, NEW e \in S
  PROVE  InsertAt(s, i, e) \in Seq(S) /\ Inserted(InsertAt(s, i, e), s, i, e)
<1> DEFINE a == SubSeq(s, 1, i - 1)
           b == SubSeq(s, i, Len(s))
<1>1. Len(s) \in Nat /\ i \in Nat /\ i >= 1 /\ i <= Len(s) + 1
      /\ \A j \in 1 .. Len(s) : s[j] \in S
  BY LenProperties, ElementOfSeq
<1>2. /\ a \in Seq(S) /\ Len(a) = i - 1
      /\ \A j \in 1 .. i - 1 : a[j] = s[j]
  BY <1>1, SubSeqProperties
<1>3. /\ b \in Seq(S) /\ Len(b) = Len(s) - i + 1
      /\ \A j \in 1 .. Len(s) - i + 1 : b[j] = s[i + j - 1]
  BY <1>1, SubSeqProperties
<1>4. <<e>> \in Seq(S) /\ Len(<<e>>) = 1 /\ <<e>>[1] = e
  OBVIOUS
<1> DEFINE c == a \o <<e>>
           t == InsertAt(s, i, e)
<1>5. t = c \o b
  BY DEF InsertAt
<1> HIDE DEF a, b
<1>6. /\ c \in Seq(S) /\ Len(c) = i
      /\ \A j \in 1 .. i : c[j] = IF j <= i - 1 THEN a[j] ELSE <<e>>[j - (i - 1)]
  BY <1>1, <1>2, <1>4, ConcatProperties
<1> HIDE DEF c
<1>7. /\ t \in Seq(S) /\ Len(t) = Len(s) + 1
      /\ \A j \in 1 .. Len(s) + 1 : t[j] = IF j <= i THEN c[j] ELSE b[j - i]
  BY <1>1, <1>3, <1>5, <1>6, ConcatProperties, SMTT(60)
<1> HIDE DEF t
<1>8. t[i] = e
  <2>1. c[i] = <<e>>[i - (i - 1)] /\ i - (i - 1) = 1
    BY <1>1, <1>6
  <2> QED BY <1>1, <1>4, <1>7, <2>1
<1>9. \A j \in 1 .. i - 1 : t[j] = s[j]
  BY <1>1, <1>2, <1>6, <1>7
<1>10. ASSUME NEW j \in i .. Len(s) PROVE t[j + 1] = s[j]
  <2>1. t[j + 1] = b[j + 1 - i]
    BY <1>1, <1>7
  <2>2. b[j + 1 - i] = s[i + (j + 1 - i) - 1] /\ i + (j + 1 - i) - 1 = j
    BY <1>1, <1>3
  <2> QED BY <2>1, <2>2
<1>11. Inserted(t, s, i, e)
  BY <1>7, <1>8, <1>9, <1>10 DEF Inserted
<1> QED BY <1>7, <1>11 DEF t

\* Where each element of the longer sequence comes from.
LEMMA InsertedFrom ==
  ASSUME NEW S, NEW s \in Seq(S), NEW t, NEW k \in 1 .. Len(s) + 1, NEW e,
         Inserted(t, s, k, e), NEW i \in 1 .. Len(s) + 1
  PROVE  \/ i < k /\ i \in 1 .. Len(s) /\ t[i] = s[i]
         \/ i = k /\ t[i] = e
         \/ i > k /\ i - 1 \in k .. Len(s) /\ i - 1 \in 1 .. Len(s) /\ t[i] = s[i - 1]
<1>1. Len(s) \in Nat
  BY LenProperties
<1>2. CASE i < k
  <2>1. i \in 1 .. k - 1 /\ i \in 1 .. Len(s)
    BY <1>1, <1>2
  <2> QED BY <1>2, <2>1 DEF Inserted
<1>3. CASE i = k
  BY <1>3 DEF Inserted
<1>4. CASE i > k
  <2>1. i - 1 \in k .. Len(s) /\ i - 1 \in 1 .. Len(s) /\ (i - 1) + 1 = i
    BY <1>1, <1>4
  <2>2. t[(i - 1) + 1] = s[i - 1]
    BY <2>1 DEF Inserted
  <2> QED BY <1>4, <2>1, <2>2
<1> QED BY <1>1, <1>2, <1>3, <1>4

\* Put between what is not above it and what is, it keeps the order.
LEMMA InsertedSorted ==
  ASSUME NEW s \in Seq(Nat), NEW t, NEW k \in 1 .. Len(s) + 1, NEW e \in Nat,
         Inserted(t, s, k, e),
         \A j \in 1 .. k - 1 : s[j] <= e,
         \A j \in k .. Len(s) : s[j] > e,
         \A i, j \in 1 .. Len(s) : i < j => s[i] <= s[j]
  PROVE  \A i, j \in 1 .. Len(s) + 1 : i < j => t[i] <= t[j]
<1>1. Len(s) \in Nat /\ \A i \in 1 .. Len(s) : s[i] \in Nat
  BY LenProperties, ElementOfSeq
<1> SUFFICES ASSUME NEW i \in 1 .. Len(s) + 1, NEW j \in 1 .. Len(s) + 1, i < j
             PROVE  t[i] <= t[j]
  OBVIOUS
<1>2. \/ i < k /\ i \in 1 .. Len(s) /\ t[i] = s[i]
      \/ i = k /\ t[i] = e
      \/ i > k /\ i - 1 \in k .. Len(s) /\ i - 1 \in 1 .. Len(s) /\ t[i] = s[i - 1]
  BY InsertedFrom
<1>3. \/ j < k /\ j \in 1 .. Len(s) /\ t[j] = s[j]
      \/ j = k /\ t[j] = e
      \/ j > k /\ j - 1 \in k .. Len(s) /\ j - 1 \in 1 .. Len(s) /\ t[j] = s[j - 1]
  BY InsertedFrom
<1>4. CASE j < k
  <2>1. i < k
    BY <1>1, <1>4
  <2> QED BY <1>1, <1>2, <1>3, <1>4, <2>1
<1>5. CASE j = k
  <2>1. i \in 1 .. k - 1 /\ i < k
    BY <1>1, <1>5
  <2> QED BY <1>1, <1>2, <1>3, <1>5, <2>1
<1>6. CASE j > k
  <2>1. t[j] = s[j - 1] /\ j - 1 \in 1 .. Len(s) /\ s[j - 1] > e
    BY <1>1, <1>3, <1>6
  <2>2. CASE i < k
    <3>1. i \in 1 .. k - 1 /\ s[i] <= e /\ t[i] = s[i] /\ s[i] \in Nat
      BY <1>1, <1>2, <2>2
    <3> QED BY <1>1, <2>1, <3>1
  <2>3. CASE i = k
    BY <1>1, <1>2, <2>1, <2>3
  <2>4. CASE i > k
    <3>1. t[i] = s[i - 1] /\ i - 1 \in 1 .. Len(s) /\ i - 1 < j - 1
      BY <1>1, <1>2, <2>4
    <3> QED BY <2>1, <3>1
  <2> QED BY <1>1, <2>2, <2>3, <2>4
<1> QED BY <1>1, <1>4, <1>5, <1>6

\* A sequence of one element.
LEMMA OneLong ==
  ASSUME NEW S, NEW s \in Seq(S), Len(s) = 1
  PROVE  s = <<s[1]>>
OBVIOUS

\* One position cut out of a sequence.
LEMMA OneElement ==
  ASSUME NEW S, NEW s \in Seq(S), NEW i \in 1 .. Len(s)
  PROVE  SubSeq(s, i, i) = <<s[i]>>
<1>1. i \in Int /\ s[i] \in S /\ \A j \in i .. i : s[j] \in S
  BY LenProperties, ElementOfSeq
<1>2. SubSeq(s, i, i) \in Seq(S) /\ Len(SubSeq(s, i, i)) = 1
  BY <1>1, SubSeqProperties
<1>3. SubSeq(s, i, i)[1] = s[i]
  <2>1. 1 \in 1 .. (i - i) + 1 /\ i + 1 - 1 = i
    BY <1>1
  <2> QED BY <1>1, <2>1, SubSeqProperties
<1> DEFINE t == SubSeq(s, i, i)
<1> HIDE DEF t
<1>4. t = <<t[1]>>
  BY <1>2, OneLong DEF t
<1> QED BY <1>3, <1>4 DEF t

\* The first element of a sequence.
LEMMA InsertIntoEmpty ==
  ASSUME NEW S, NEW e \in S
  PROVE  InsertAt(<<>>, 1, e) = <<e>>
<1>1. <<>> \in Seq(S) /\ Len(<<>>) = 0
  OBVIOUS
<1>2. 1 \in 1 .. Len(<<>>) + 1
  BY <1>1
<1> DEFINE t == InsertAt(<<>>, 1, e)
<1>3. t \in Seq(S) /\ Inserted(t, <<>>, 1, e)
  BY <1>1, <1>2, InsertAtShifts
<1> HIDE DEF t
<1>4. Len(t) = 1 /\ t[1] = e
  BY <1>1, <1>3 DEF Inserted
<1>5. t = <<t[1]>>
  BY <1>3, <1>4, OneLong
<1> QED BY <1>4, <1>5 DEF t

\* Three elements, one after the other.
LEMMA OneByOne ==
  ASSUME NEW S, NEW a \in S, NEW b \in S, NEW c \in S
  PROVE  <<a, b, c>> = <<a>> \o <<b>> \o <<c>>
<1> DEFINE t == <<a>> \o <<b>>
           u == t \o <<c>>
<1>1. t \in Seq(S) /\ Len(t) = 2 /\ t[1] = a /\ t[2] = b
  OBVIOUS
<1> HIDE DEF t
<1>2. /\ u \in Seq(S) /\ Len(u) = 3
      /\ \A i \in 1 .. 3 : u[i] = IF i <= 2 THEN t[i] ELSE <<c>>[i - 2]
  <2>1. <<c>> \in Seq(S) /\ Len(<<c>>) = 1
    OBVIOUS
  <2> HIDE DEF u
  <2>2. /\ u \in Seq(S) /\ Len(u) = Len(t) + Len(<<c>>)
        /\ \A i \in 1 .. Len(t) + Len(<<c>>) :
             u[i] = IF i <= Len(t) THEN t[i] ELSE <<c>>[i - Len(t)]
    BY <1>1, <2>1, ConcatProperties DEF u
  <2> QED BY <1>1, <2>1, <2>2
<1> HIDE DEF u
<1>3. u = <<u[1], u[2], u[3]>>
  BY <1>2
<1>4. u[1] = t[1] /\ u[2] = t[2] /\ u[3] = c
  BY <1>2
<1> QED BY <1>1, <1>3, <1>4 DEF u, t

\* What RemoveAt does to the positions.
LEMMA RemoveAtCloses ==
  ASSUME NEW S, NEW s \in Seq(S), NEW k \in 1 .. Len(s)
  PROVE  /\ RemoveAt(s, k) \in Seq(S)
         /\ Len(RemoveAt(s, k)) = Len(s) - 1
         /\ \A i \in 1 .. Len(s) - 1 : RemoveAt(s, k)[i] = IF i < k THEN s[i] ELSE s[i + 1]
<1> DEFINE a == SubSeq(s, 1, k - 1)
           b == SubSeq(s, k + 1, Len(s))
           t == RemoveAt(s, k)
<1>1. Len(s) \in Nat /\ k \in Nat /\ k >= 1 /\ k <= Len(s)
      /\ \A j \in 1 .. Len(s) : s[j] \in S
  BY LenProperties, ElementOfSeq
<1>2. /\ a \in Seq(S) /\ Len(a) = k - 1
      /\ \A j \in 1 .. k - 1 : a[j] = s[j]
  BY <1>1, SubSeqProperties
<1>3. /\ b \in Seq(S) /\ Len(b) = Len(s) - k
      /\ \A j \in 1 .. Len(s) - k : b[j] = s[k + j]
  BY <1>1, SubSeqProperties
<1>4. t = a \o b
  BY DEF RemoveAt
<1> HIDE DEF a, b
<1>5. /\ t \in Seq(S) /\ Len(t) = Len(s) - 1
      /\ \A j \in 1 .. Len(s) - 1 : t[j] = IF j <= k - 1 THEN a[j] ELSE b[j - (k - 1)]
  BY <1>1, <1>2, <1>3, <1>4, ConcatProperties
<1> HIDE DEF t
<1>6. ASSUME NEW i \in 1 .. Len(s) - 1
      PROVE  t[i] = IF i < k THEN s[i] ELSE s[i + 1]
  <2>1. CASE i < k
    BY <1>1, <1>2, <1>5, <2>1
  <2>2. CASE ~(i < k)
    <3>1. t[i] = b[i - (k - 1)]
      BY <1>1, <1>5, <2>2
    <3>2. b[i - (k - 1)] = s[k + (i - (k - 1))] /\ k + (i - (k - 1)) = i + 1
      BY <1>1, <1>3, <2>2
    <3> QED BY <2>2, <3>1, <3>2
  <2> QED BY <2>1, <2>2
<1> QED BY <1>5, <1>6 DEF t

\* What an element put in front does to the positions.
LEMMA PrependShifts ==
  ASSUME NEW S, NEW s \in Seq(S), NEW e \in S
  PROVE  /\ <<e>> \o s \in Seq(S)
         /\ Len(<<e>> \o s) = Len(s) + 1
         /\ \A i \in 1 .. Len(s) + 1 : (<<e>> \o s)[i] = IF i = 1 THEN e ELSE s[i - 1]
<1> DEFINE t == <<e>> \o s
<1>1. Len(s) \in Nat
  BY LenProperties
<1>2. <<e>> \in Seq(S) /\ Len(<<e>>) = 1 /\ <<e>>[1] = e
  OBVIOUS
<1>3. /\ t \in Seq(S) /\ Len(t) = Len(s) + 1
      /\ \A i \in 1 .. Len(s) + 1 : t[i] = IF i <= 1 THEN <<e>>[i] ELSE s[i - 1]
  BY <1>1, <1>2, ConcatProperties
<1> HIDE DEF t
<1>4. \A i \in 1 .. Len(s) + 1 : t[i] = IF i = 1 THEN e ELSE s[i - 1]
  BY <1>1, <1>2, <1>3
<1> QED BY <1>3, <1>4 DEF t

\* The sequence without its last element.
LEMMA FrontIsRemoveAt ==
  ASSUME NEW S, NEW s \in Seq(S), s # <<>>
  PROVE  Front(s) = RemoveAt(s, Len(s))
<1> DEFINE n == Len(s)
           a == SubSeq(s, 1, n - 1)
<1>1. n \in Nat /\ n >= 1 /\ \A j \in 1 .. n : s[j] \in S
  BY LenProperties, EmptySeq, ElementOfSeq
<1>2. SubSeq(s, n + 1, n) = <<>>
  BY <1>1, SubSeqProperties, EmptySeq
<1>3. a \in Seq(S)
  BY <1>1, SubSeqProperties
<1>4. a \o <<>> = a
  BY <1>3, ConcatEmptySeq
<1> QED BY <1>2, <1>4 DEF Front, RemoveAt

-----------------------------------------------------------------------------
(* Induction over positions, and joined sequences.                         *)

\* The least of some positions.
LEMMA LeastIsMin ==
  ASSUME NEW S, S \subseteq Nat, S # {}
  PROVE  Min(S) \in S /\ \A i \in S : Min(S) <= i
<1>1. \E i \in S : \A j \in S : i <= j
  BY LeastPosition
<1> QED BY <1>1, Zenon DEF Min

\* Induction over the positions of a sequence, from the first on.
LEMMA FromTheFirst ==
  ASSUME NEW n \in Nat, NEW G,
         \A i \in 1 .. n : (\A j \in 1 .. i - 1 : j \in G) => i \in G
  PROVE  \A i \in 1 .. n : i \in G
<1> DEFINE Bad == {i \in 1 .. n : i \notin G}
<1>1. SUFFICES ASSUME Bad # {} PROVE FALSE
  OBVIOUS
<1>2. Bad \subseteq Nat
  OBVIOUS
<1>3. PICK i \in Bad : \A j \in Bad : i <= j
  BY <1>1, <1>2, LeastPosition
<1>4. \A j \in 1 .. i - 1 : j \in G
  BY <1>3
<1> QED BY <1>3, <1>4

\* Induction over the positions of a sequence, from the last one back.
LEMMA FromTheLast ==
  ASSUME NEW lo \in Nat, NEW hi \in Nat, NEW G,
         \A i \in lo .. hi : (\A j \in i + 1 .. hi : j \in G) => i \in G
  PROVE  \A i \in lo .. hi : i \in G
<1> DEFINE Bad == {k \in 0 .. hi : k <= hi - lo /\ hi - k \notin G}
<1>1. SUFFICES ASSUME NEW i \in lo .. hi, i \notin G PROVE FALSE
  OBVIOUS
<1>2. hi - i \in Bad /\ Bad \subseteq Nat
  <2>1. hi - (hi - i) = i
    BY <1>1
  <2> QED BY <1>1, <2>1
<1>3. PICK k \in Bad : \A j \in Bad : k <= j
  BY <1>2, LeastPosition
<1>4. \A j \in (hi - k) + 1 .. hi : j \in G
  <2>1. SUFFICES ASSUME NEW j \in (hi - k) + 1 .. hi, j \notin G PROVE FALSE
    OBVIOUS
  <2>2. hi - j \in 0 .. hi /\ hi - j <= hi - lo /\ hi - (hi - j) = j
    BY <1>3
  <2>3. hi - j \in Bad
    BY <2>1, <2>2
  <2> QED BY <1>3, <2>3
<1>5. hi - k \in lo .. hi
  BY <1>3
<1> QED BY <1>3, <1>4, <1>5

\* A recursion over positions, each value in V: in stop it ends with base, and
\* elsewhere it takes a step from the value of a later position.
Recursion(lo, hi, V, stop, base, next, step) ==
  /\ lo \in Nat /\ hi \in Nat
  /\ \A i \in lo .. hi : i \in stop => base[i] \in V
  /\ \A i \in lo .. hi : i \notin stop => next[i] \in i + 1 .. hi
  /\ \A i \in lo .. hi : i \notin stop => \A v \in V : step[i][v] \in V

\* The function it defines.
Recurs(f, lo, hi, stop, base, next, step) ==
  \A i \in lo .. hi : f[i] = IF i \in stop THEN base[i] ELSE step[i][f[next[i]]]

\* There is such a function, and its values are all in V.
LEMMA LaterFirst ==
  ASSUME NEW lo, NEW hi, NEW V, NEW stop, NEW base, NEW next, NEW step,
         Recursion(lo, hi, V, stop, base, next, step)
  PROVE  /\ \E f \in [lo .. hi -> V] : Recurs(f, lo, hi, stop, base, next, step)
         /\ \A f : Recurs(f, lo, hi, stop, base, next, step) => \A i \in lo .. hi : f[i] \in V
<1>0. /\ lo \in Nat /\ hi \in Nat
      /\ \A i \in lo .. hi : i \in stop => base[i] \in V
      /\ \A i \in lo .. hi : i \notin stop => next[i] \in i + 1 .. hi
      /\ \A i \in lo .. hi : i \notin stop => \A v \in V : step[i][v] \in V
  BY DEF Recursion
<1> USE <1>0
<1> DEFINE Body(f, i) == IF i \in stop THEN base[i] ELSE step[i][f[next[i]]]
           Solves(f, k) == f = [i \in k .. hi |-> Body(f, i)]
<1>1. ASSUME NEW f, \A i \in lo .. hi : f[i] = Body(f, i)
      PROVE  \A i \in lo .. hi : f[i] \in V
  <2> DEFINE G == {i \in lo .. hi : f[i] \in V}
  <2>1. ASSUME NEW i \in lo .. hi, \A j \in i + 1 .. hi : j \in G PROVE i \in G
    <3>1. CASE i \in stop
      BY <1>1, <3>1
    <3>2. CASE i \notin stop
      <4>1. next[i] \in i + 1 .. hi /\ next[i] \in G
        BY <2>1, <3>2
      <4> QED BY <1>1, <3>2, <4>1
    <3> QED BY <3>1, <3>2
  <2> HIDE DEF G
  <2>2. \A i \in lo .. hi : i \in G
    BY <2>1, FromTheLast
  <2> QED BY <2>2 DEF G
<1> DEFINE D == {d \in 0 .. hi + 1 : d <= hi + 1 - lo => \E f : Solves(f, hi + 1 - d)}
<1>2. \A d \in 1 .. hi + 1 : d - 1 \in D => d \in D
  <2>1. SUFFICES ASSUME NEW d \in 1 .. hi + 1, d - 1 \in D, d <= hi + 1 - lo
                 PROVE  \E f : Solves(f, hi + 1 - d)
    OBVIOUS
  <2> DEFINE k == hi + 1 - d
  <2>2. k \in lo .. hi /\ k + 1 \in lo .. hi + 1 /\ k + 1 = hi + 1 - (d - 1)
    BY <2>1
  <2>3. PICK f : Solves(f, k + 1)
    <3>1. d - 1 <= hi + 1 - lo
      BY <2>1
    <3> HIDE DEF Solves
    <3> QED BY <2>1, <2>2, <3>1
  <2> DEFINE g == [i \in k .. hi |-> IF i = k THEN Body(f, k) ELSE f[i]]
  <2> HIDE DEF k
  <2>4. \A i \in k + 1 .. hi : f[i] = Body(f, i)
    BY <2>3
  <2>5. \A i \in k + 1 .. hi : g[i] = f[i]
    BY <2>2
  <2>6. g[k] = Body(f, k)
    BY <2>2
  <2>7. \A i \in k .. hi : i \notin stop => next[i] \in k + 1 .. hi /\ g[next[i]] = f[next[i]]
    BY <2>2, <2>5
  <2>8. \A i \in k .. hi : Body(g, i) = Body(f, i)
    BY <2>7
  <2>9. \A i \in k .. hi : g[i] = Body(g, i)
    <3>1. SUFFICES ASSUME NEW i \in k .. hi PROVE g[i] = Body(g, i)
      OBVIOUS
    <3>2. CASE i = k
      BY <2>6, <2>8, <3>2
    <3>3. CASE i # k
      <4>1. i \in k + 1 .. hi
        BY <2>2, <3>3
      <4> QED BY <2>4, <2>5, <2>8, <4>1
    <3> QED BY <3>2, <3>3
  <2>10. g = [i \in k .. hi |-> Body(g, i)]
    <3> HIDE DEF Body
    <3> QED BY <2>9
  <2> QED BY <2>10 DEF k
<1>3. 0 \in D
  <2> DEFINE f == [i \in {} |-> i]
  <2>1. hi + 1 .. hi = {} /\ hi + 1 - 0 = hi + 1
    OBVIOUS
  <2>2. Solves(f, hi + 1)
    BY <2>1
  <2> HIDE DEF Solves
  <2> QED BY <2>1, <2>2
<1>4. hi + 1 - lo \in D \/ hi + 1 < lo
  <2>0. SUFFICES ASSUME lo <= hi + 1 PROVE hi + 1 - lo \in D
    OBVIOUS
  <2>1. \A i \in 1 .. hi + 1 : (\A j \in 1 .. i - 1 : j \in D) => i \in D
    <3>1. SUFFICES ASSUME NEW i \in 1 .. hi + 1, \A j \in 1 .. i - 1 : j \in D PROVE i \in D
      OBVIOUS
    <3>2. i = 1 \/ i - 1 \in 1 .. i - 1
      OBVIOUS
    <3> HIDE DEF D
    <3>3. i - 1 \in D
      BY <1>3, <3>1, <3>2
    <3> QED BY <1>2, <3>3
  <2> HIDE DEF D
  <2>2. \A i \in 1 .. hi + 1 : i \in D
    <3>1. hi + 1 \in Nat
      OBVIOUS
    <3> QED BY <2>1, <3>1, FromTheFirst
  <2>3. hi + 1 - lo = 0 \/ hi + 1 - lo \in 1 .. hi + 1
    BY <2>0
  <2> QED BY <1>3, <2>2, <2>3
<1>5. \E f : Solves(f, lo)
  <2>1. CASE hi + 1 < lo
    <3>1. lo .. hi = {}
      BY <2>1
    <3> DEFINE f == [i \in {} |-> i]
    <3>2. Solves(f, lo)
      BY <3>1
    <3> QED BY <3>2
  <2>2. CASE lo <= hi + 1
    <3>1. hi + 1 - (hi + 1 - lo) = lo /\ ~(hi + 1 < lo)
      BY <2>2
    <3> QED BY <1>4, <3>1
  <2> QED BY <2>1, <2>2
<1>6. PICK f : Solves(f, lo)
  BY <1>5
<1>7. \A i \in lo .. hi : f[i] = Body(f, i)
  BY <1>6
<1>8. \A i \in lo .. hi : f[i] \in V
  BY <1>1, <1>7
<1>9. f = [i \in lo .. hi |-> f[i]]
  BY <1>6
<1>10. f \in [lo .. hi -> V]
  BY <1>8, <1>9
<1> QED BY <1>1, <1>7, <1>10 DEF Recurs

\* The function FlattenSeq is read from: its k-th value joins the first k.
Joins(F, x) == F = [i \in 1 .. Len(x) |-> IF i = 1 THEN x[i] ELSE F[i - 1] \o x[i]]

\* There is such a function, and its values are sequences.
LEMMA JoinsExists ==
  ASSUME NEW S, NEW x \in Seq(Seq(S))
  PROVE  /\ \E F : Joins(F, x)
         /\ \A F : Joins(F, x) => \A i \in 1 .. Len(x) : F[i] \in Seq(S)
<1> DEFINE Body(F, i) == IF i = 1 THEN x[i] ELSE F[i - 1] \o x[i]
           Solves(F, k) == F = [i \in 1 .. k |-> Body(F, i)]
           n == Len(x)
<1>1. n \in Nat /\ \A i \in 1 .. n : x[i] \in Seq(S)
  BY LenProperties, ElementOfSeq
<1>2. \A F : Joins(F, x) <=> Solves(F, n)
  BY DEF Joins
<1> HIDE DEF n
<1>3. \A F : Solves(F, n) => \A i \in 1 .. n : F[i] \in Seq(S)
  <2>1. SUFFICES ASSUME NEW F, Solves(F, n) PROVE \A i \in 1 .. n : F[i] \in Seq(S)
    OBVIOUS
  <2> DEFINE G == {i \in 1 .. n : F[i] \in Seq(S)}
  <2>2. \A i \in 1 .. n : F[i] = Body(F, i)
    BY <2>1
  <2>3. \A i \in 1 .. n : (\A j \in 1 .. i - 1 : j \in G) => i \in G
    <3>1. SUFFICES ASSUME NEW i \in 1 .. n, \A j \in 1 .. i - 1 : j \in G PROVE i \in G
      OBVIOUS
    <3>2. CASE i = 1
      BY <1>1, <2>2, <3>2
    <3>3. CASE i # 1
      <4>1. i - 1 \in G
        BY <1>1, <3>1, <3>3
      <4>2. F[i - 1] \o x[i] \in Seq(S)
        BY <1>1, <4>1, ConcatProperties
      <4> QED BY <2>2, <3>3, <4>2
    <3> QED BY <3>2, <3>3
  <2> HIDE DEF G
  <2>4. \A i \in 1 .. n : i \in G
    BY <1>1, <2>3, FromTheFirst
  <2> QED BY <2>4 DEF G
<1> DEFINE D == {k \in 1 .. n : \E F : Solves(F, k)}
<1>4. \A k \in 1 .. n : (\A j \in 1 .. k - 1 : j \in D) => k \in D
  <2>1. SUFFICES ASSUME NEW k \in 1 .. n, \A j \in 1 .. k - 1 : j \in D
                 PROVE  \E F : Solves(F, k)
    OBVIOUS
  <2>2. CASE k = 1
    <3> DEFINE g == [i \in 1 .. 1 |-> x[1]]
    <3>1. g = [i \in 1 .. 1 |-> Body(g, i)]
      OBVIOUS
    <3> QED BY <2>2, <3>1
  <2>3. CASE k # 1
    <3>0. k - 1 \in 1 .. k - 1
      BY <1>1, <2>3
    <3>1. k - 1 \in D
      <4> HIDE DEF D
      <4> QED BY <2>1, <3>0
    <3>2. PICK F : Solves(F, k - 1)
      BY <3>1
    <3> DEFINE g == [i \in 1 .. k |-> IF i = k THEN Body(F, k) ELSE F[i]]
    <3>3. \A i \in 1 .. k - 1 : F[i] = Body(F, i)
      BY <3>2
    <3>4. \A i \in 1 .. k - 1 : g[i] = F[i]
      BY <1>1
    <3>5. g[k] = Body(F, k)
      BY <1>1
    <3>6. \A i \in 1 .. k : Body(g, i) = Body(F, i)
      <4>1. SUFFICES ASSUME NEW i \in 1 .. k PROVE Body(g, i) = Body(F, i)
        OBVIOUS
      <4>2. i = 1 \/ i - 1 \in 1 .. k - 1
        BY <1>1
      <4> HIDE DEF g
      <4> QED BY <3>4, <4>2
    <3>7. \A i \in 1 .. k : g[i] = Body(g, i)
      <4>1. SUFFICES ASSUME NEW i \in 1 .. k PROVE g[i] = Body(g, i)
        OBVIOUS
      <4>2. i = k \/ i \in 1 .. k - 1
        BY <1>1
      <4> HIDE DEF g, Body
      <4> QED BY <3>3, <3>4, <3>5, <3>6, <4>2
    <3>8. g = [i \in 1 .. k |-> Body(g, i)]
      <4> HIDE DEF Body
      <4> QED BY <3>7
    <3> QED BY <3>8
  <2> QED BY <2>2, <2>3
<1>5. \E F : Solves(F, n)
  <2>1. CASE n = 0
    <3> DEFINE f == [i \in {} |-> i]
    <3>1. 1 .. n = {}
      BY <2>1
    <3>2. Solves(f, n)
      BY <3>1
    <3> QED BY <3>2
  <2>2. CASE n # 0
    <3> HIDE DEF D
    <3>1. \A k \in 1 .. n : k \in D
      BY <1>1, <1>4, FromTheFirst
    <3>2. n \in D
      BY <1>1, <2>2, <3>1
    <3> QED BY <3>2 DEF D
  <2> QED BY <2>1, <2>2
<1> HIDE DEF Solves
<1>6. \E F : Joins(F, x)
  BY <1>2, <1>5
<1> QED BY <1>2, <1>3, <1>6 DEF n

\* FlattenSeq is the last value of such a function.
LEMMA FlattenJoins ==
  ASSUME NEW S, NEW x \in Seq(Seq(S)), x # <<>>
  PROVE  \E F : Joins(F, x) /\ FlattenSeq(x) = F[Len(x)]
<1> DEFINE F == CHOOSE f : f = [i \in 1 .. Len(x) |-> IF i = 1 THEN x[i] ELSE f[i - 1] \o x[i]]
<1>1. \E f : f = [i \in 1 .. Len(x) |-> IF i = 1 THEN x[i] ELSE f[i - 1] \o x[i]]
  BY JoinsExists DEF Joins
<1>2. F = [i \in 1 .. Len(x) |-> IF i = 1 THEN x[i] ELSE F[i - 1] \o x[i]]
  BY <1>1, Zenon
<1>3. Len(x) # 0
  BY LenProperties, EmptySeq
<1>4. FlattenSeq(x) = F[Len(x)]
  BY <1>3, Zenon DEF FlattenSeq
<1> HIDE DEF F
<1>5. Joins(F, x)
  BY <1>2 DEF Joins
<1> QED BY <1>4, <1>5

\* Nothing flattened is nothing.
LEMMA FlattenNothing == FlattenSeq(<<>>) = <<>>
<1>1. Len(<<>>) = 0
  BY EmptySeq
<1> QED BY <1>1, Zenon DEF FlattenSeq

\* A sequence added is joined at the end.
LEMMA FlattenAppend ==
  ASSUME NEW S, NEW x \in Seq(Seq(S)), NEW e \in Seq(S)
  PROVE  /\ FlattenSeq(x) \in Seq(S)
         /\ FlattenSeq(Append(x, e)) = FlattenSeq(x) \o e
<1> DEFINE n == Len(x)
           y == Append(x, e)
<1>1. /\ n \in Nat
      /\ y \in Seq(Seq(S)) /\ y # <<>> /\ Len(y) = n + 1 /\ y[n + 1] = e
      /\ \A i \in 1 .. n : y[i] = x[i]
      /\ x # <<>> => n >= 1
  BY AppendProperties, LenProperties, EmptySeq
<1>2. FlattenSeq(<<>>) = <<>>
  BY FlattenNothing
<1> HIDE DEF n, y
<1>3. FlattenSeq(x) \in Seq(S)
  <2>1. CASE x = <<>>
    BY <1>2, <2>1, EmptySeq
  <2>2. CASE x # <<>>
    <3>1. PICK F : Joins(F, x) /\ FlattenSeq(x) = F[Len(x)]
      BY <2>2, FlattenJoins
    <3> QED BY <1>1, <2>2, <3>1, JoinsExists DEF n
  <2> QED BY <2>1, <2>2
<1>4. PICK H : Joins(H, y) /\ FlattenSeq(y) = H[n + 1]
  BY <1>1, FlattenJoins
<1>5. \A i \in 1 .. n + 1 : H[i] = IF i = 1 THEN y[i] ELSE H[i - 1] \o y[i]
  BY <1>1, <1>4 DEF Joins
<1>6. CASE x = <<>>
  <2>1. n = 0
    BY <1>6, EmptySeq DEF n
  <2>2. FlattenSeq(y) = e
    BY <1>1, <1>4, <1>5, <2>1
  <2>3. <<>> \o e = e
    BY ConcatEmptySeq
  <2> QED BY <1>2, <1>3, <1>6, <2>2, <2>3 DEF y
<1>7. CASE x # <<>>
  <2>1. PICK F : Joins(F, x) /\ FlattenSeq(x) = F[n]
    BY <1>7, FlattenJoins DEF n
  <2>2. \A i \in 1 .. n : F[i] = IF i = 1 THEN x[i] ELSE F[i - 1] \o x[i]
    BY <1>1, <2>1 DEF Joins, n
  <2> DEFINE G == {i \in 1 .. n : F[i] = H[i]}
  <2>3. \A i \in 1 .. n : (\A j \in 1 .. i - 1 : j \in G) => i \in G
    <3>1. SUFFICES ASSUME NEW i \in 1 .. n, \A j \in 1 .. i - 1 : j \in G PROVE F[i] = H[i]
      OBVIOUS
    <3>2. x[i] = y[i] /\ i \in 1 .. n + 1
      BY <1>1
    <3>3. i = 1 \/ i - 1 \in 1 .. i - 1
      BY <1>1
    <3>4. i = 1 \/ F[i - 1] = H[i - 1]
      BY <3>1, <3>3
    <3> QED BY <1>5, <2>2, <3>2, <3>4
  <2> HIDE DEF G
  <2>4. \A i \in 1 .. n : i \in G
    BY <1>1, <2>3, FromTheFirst
  <2>5. F[n] = H[n]
    BY <1>1, <1>7, <2>4 DEF G
  <2>6. H[n + 1] = H[n] \o e
    <3>1. n + 1 # 1 /\ n + 1 \in 1 .. n + 1 /\ (n + 1) - 1 = n
      BY <1>1, <1>7
    <3> QED BY <1>1, <1>5, <3>1
  <2> QED BY <1>2, <1>3, <1>4, <2>1, <2>5, <2>6 DEF y
<1> QED BY <1>6, <1>7

\* What is flattened together is what is flattened apart, joined.
LEMMA FlattenConcat ==
  ASSUME NEW S, NEW x \in Seq(Seq(S)), NEW y \in Seq(Seq(S))
  PROVE  FlattenSeq(x \o y) = FlattenSeq(x) \o FlattenSeq(y)
<1> DEFINE n == Len(y)
           Pre(k) == SubSeq(y, 1, k)
           G == {k \in 0 .. n : FlattenSeq(x \o Pre(k)) = FlattenSeq(x) \o FlattenSeq(Pre(k))}
<1>1. n \in Nat /\ Pre(n) = y /\ Pre(0) = <<>>
  BY LenProperties, SubSeqFull, SubSeqEmpty
<1>2. \A k \in 0 .. n : Pre(k) \in Seq(Seq(S))
  BY <1>1, SubSeqProperties, ElementOfSeq
<1>3. 0 \in G
  <2>1. x \o Pre(0) = x /\ FlattenSeq(Pre(0)) = <<>>
    BY <1>1, FlattenNothing, ConcatEmptySeq
  <2>2. FlattenSeq(x) \o <<>> = FlattenSeq(x)
    <3>1. <<>> \in Seq(S)
      BY EmptySeq
    <3> QED BY <3>1, FlattenAppend, ConcatEmptySeq
  <2>3. FlattenSeq(x \o Pre(0)) = FlattenSeq(x) \o FlattenSeq(Pre(0))
    BY <2>1, <2>2, Zenon
  <2> QED BY <1>1, <2>3
<1>4. \A k \in 1 .. n : k - 1 \in G => k \in G
  <2>1. SUFFICES ASSUME NEW k \in 1 .. n, k - 1 \in G PROVE k \in G
    OBVIOUS
  <2> DEFINE z == Pre(k - 1)
             e == y[k]
  <2>2. z \in Seq(Seq(S)) /\ e \in Seq(S)
    BY <1>1, <1>2, ElementOfSeq
  <2>3. Pre(k) = Append(z, e)
    <3>1. Pre(k) = SubSeq(y, 1, k - 1) \o <<y[k]>>
      BY <1>1, SubSeqRecursiveSecond
    <3> QED BY <2>2, <3>1, AppendIsConcat
  <2>4. FlattenSeq(x \o z) = FlattenSeq(x) \o FlattenSeq(z)
    BY <2>1
  <2> HIDE DEF z, e, n
  <2>5. x \o Append(z, e) = Append(x \o z, e)
    <3>1. <<e>> \in Seq(Seq(S)) /\ x \o z \in Seq(Seq(S))
      BY <2>2, ConcatProperties
    <3>2. Append(z, e) = z \o <<e>> /\ Append(x \o z, e) = (x \o z) \o <<e>>
      BY <2>2, <3>1, AppendIsConcat
    <3>3. (x \o z) \o <<e>> = x \o (z \o <<e>>)
      BY <2>2, <3>1, ConcatAssociative, SMTT(60)
    <3> QED BY <3>2, <3>3, Zenon
  <2>6. /\ FlattenSeq(Append(x \o z, e)) = FlattenSeq(x \o z) \o e
        /\ FlattenSeq(Append(z, e)) = FlattenSeq(z) \o e
        /\ FlattenSeq(x) \in Seq(S) /\ FlattenSeq(z) \in Seq(S)
    BY <2>2, FlattenAppend, ConcatProperties
  <2>7. (FlattenSeq(x) \o FlattenSeq(z)) \o e = FlattenSeq(x) \o (FlattenSeq(z) \o e)
    <3> DEFINE a == FlattenSeq(x)
               b == FlattenSeq(z)
    <3> HIDE DEF a, b
    <3>1. a \in Seq(S) /\ b \in Seq(S)
      BY <2>6 DEF a, b
    <3>2. (a \o b) \o e = a \o (b \o e)
      BY <2>2, <3>1, ConcatAssociative, SMTT(60)
    <3> QED BY <3>2 DEF a, b
  <2>8. FlattenSeq(x \o Pre(k)) = FlattenSeq(x) \o FlattenSeq(Pre(k))
    BY <2>3, <2>4, <2>5, <2>6, <2>7
  <2> QED BY <1>1, <2>8
<1> HIDE DEF G
<1>5. \A k \in 1 .. n : (\A j \in 1 .. k - 1 : j \in G) => k \in G
  <2>1. SUFFICES ASSUME NEW k \in 1 .. n, \A j \in 1 .. k - 1 : j \in G PROVE k \in G
    OBVIOUS
  <2>2. k = 1 \/ k - 1 \in 1 .. k - 1
    BY <1>1
  <2>3. k - 1 \in G
    BY <1>3, <2>1, <2>2
  <2> QED BY <1>4, <2>3
<1>6. \A k \in 1 .. n : k \in G
  BY <1>1, <1>5, FromTheFirst
<1>7. n \in G
  <2>1. n = 0 \/ n \in 1 .. n
    BY <1>1
  <2> QED BY <1>3, <1>6, <2>1
<1> QED BY <1>1, <1>7 DEF G

=============================================================================
