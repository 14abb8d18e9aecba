----------------------------- MODULE ReplProofs -----------------------------
(***************************************************************************)
(* Theorems about the shell, for every text typed and every buffer size: all *)
(* that is read reaches the parser, every statement that does ends where a *)
(* semicolon stands outside quotes, and its words are those that were typed. *)
(***************************************************************************)
EXTENDS Repl, SequenceLemmas

-----------------------------------------------------------------------------
(* What Unspaced keeps.                                                    *)

\* What is typed: characters and white space.
Chars == Characters \cup Space

Text == Seq(Chars)

\* A character that is kept, or nothing.
Kept(x) == [i \in DOMAIN x |-> IF x[i] \in Space THEN <<>> ELSE <<x[i]>>]

\* The pieces that Unspaced joins.
LEMMA KeptPieces ==
  ASSUME NEW x \in Text
  PROVE  /\ Kept(x) \in Seq(Text) /\ Len(Kept(x)) = Len(x)
         /\ \A i \in 1 .. Len(x) : Kept(x)[i] = IF x[i] \in Space THEN <<>> ELSE <<x[i]>>
         /\ Unspaced(x) = FlattenSeq(Kept(x))
<1>1. Len(x) \in Nat /\ DOMAIN x = 1 .. Len(x) /\ \A i \in 1 .. Len(x) : x[i] \in Chars
  BY LenProperties, ElementOfSeq DEF Text
<1>2. Unspaced(x) = FlattenSeq(Kept(x))
  BY Zenon DEF Unspaced, Kept
<1>3. \A c \in Chars : (IF c \in Space THEN <<>> ELSE <<c>>) \in Text
  <2>1. SUFFICES ASSUME NEW c \in Chars PROVE (IF c \in Space THEN <<>> ELSE <<c>>) \in Text
    OBVIOUS
  <2>2. <<>> \in Text
    BY EmptySeq DEF Text
  <2>3. <<c>> \in Text
    BY DEF Text
  <2> QED BY <2>2, <2>3
<1>4. Kept(x) \in [1 .. Len(x) -> Text]
  BY <1>1, <1>3 DEF Kept
<1> HIDE DEF Text
<1>5. Kept(x) \in Seq(Text) /\ Len(Kept(x)) = Len(x)
  BY <1>1, <1>4
<1> QED BY <1>1, <1>2, <1>5 DEF Kept

\* The spaces are left out of two texts, or of both together.
LEMMA UnspacedConcat ==
  ASSUME NEW x \in Text, NEW y \in Text
  PROVE  Unspaced(x) \in Text /\ Unspaced(x \o y) = Unspaced(x) \o Unspaced(y)
<1> DEFINE k == Kept(x)
           l == Kept(y)
           z == x \o y
           m == Kept(z)
<1>1. z \in Text /\ Len(z) = Len(x) + Len(y) /\ Len(x) \in Nat /\ Len(y) \in Nat
      /\ \A i \in 1 .. Len(x) + Len(y) : z[i] = IF i <= Len(x) THEN x[i] ELSE y[i - Len(x)]
  BY ConcatProperties, LenProperties DEF Text
<1>2. /\ k \in Seq(Text) /\ Len(k) = Len(x) /\ Unspaced(x) = FlattenSeq(k)
      /\ l \in Seq(Text) /\ Len(l) = Len(y) /\ Unspaced(y) = FlattenSeq(l)
      /\ m \in Seq(Text) /\ Len(m) = Len(z) /\ Unspaced(z) = FlattenSeq(m)
      /\ \A i \in 1 .. Len(x) : k[i] = IF x[i] \in Space THEN <<>> ELSE <<x[i]>>
      /\ \A i \in 1 .. Len(y) : l[i] = IF y[i] \in Space THEN <<>> ELSE <<y[i]>>
      /\ \A i \in 1 .. Len(z) : m[i] = IF z[i] \in Space THEN <<>> ELSE <<z[i]>>
  BY <1>1, KeptPieces
<1> HIDE DEF k, l, m, z
<1>3. k \o l \in Seq(Text) /\ Len(k \o l) = Len(x) + Len(y)
      /\ \A i \in 1 .. Len(x) + Len(y) : (k \o l)[i] = IF i <= Len(x) THEN k[i] ELSE l[i - Len(x)]
  <2>1. /\ k \o l \in Seq(Text) /\ Len(k \o l) = Len(k) + Len(l)
        /\ \A i \in 1 .. Len(k) + Len(l) : (k \o l)[i] = IF i <= Len(k) THEN k[i] ELSE l[i - Len(k)]
    <3>1. k \in Seq(Text) /\ l \in Seq(Text)
      BY <1>2
    <3> HIDE DEF Text
    <3> QED BY <3>1, ConcatProperties
  <2>2. Len(k) = Len(x) /\ Len(l) = Len(y)
    BY <1>2
  <2> QED BY <2>1, <2>2
<1>4. \A i \in 1 .. Len(m) : m[i] = (k \o l)[i]
  <2>1. SUFFICES ASSUME NEW i \in 1 .. Len(m) PROVE m[i] = (k \o l)[i]
    OBVIOUS
  <2>2. i \in 1 .. Len(x) + Len(y) /\ i \in 1 .. Len(z)
    BY <1>1, <1>2
  <2>3. CASE i <= Len(x)
    <3>1. i \in 1 .. Len(x)
      BY <2>2, <2>3
    <3> QED BY <1>1, <1>2, <1>3, <2>2, <2>3, <3>1
  <2>4. CASE ~(i <= Len(x))
    <3>1. i - Len(x) \in 1 .. Len(y)
      BY <1>1, <2>2, <2>4
    <3> QED BY <1>1, <1>2, <1>3, <2>2, <2>4, <3>1
  <2> QED BY <2>3, <2>4
<1>5. m = k \o l
  BY <1>1, <1>2, <1>3, <1>4, SeqEqual
<1>6. FlattenSeq(k \o l) = FlattenSeq(k) \o FlattenSeq(l)
  BY <1>2, FlattenConcat DEF Text
<1>7. FlattenSeq(k) \in Text
  BY <1>2, FlattenAppend, EmptySeq DEF Text
<1> QED BY <1>2, <1>5, <1>6, <1>7 DEF z

\* Spaces only: nothing is left.
LEMMA UnspacedSpace ==
  /\ Unspaced(<<>>) = <<>> /\ Unspaced(<<" ">>) = <<>> /\ Unspaced(<<NL>>) = <<>>
  /\ <<>> \in Text /\ <<" ">> \in Text /\ <<NL>> \in Text
<1>1. \A c \in Space : Unspaced(<<c>>) = <<>> /\ <<c>> \in Text
  <2>1. SUFFICES ASSUME NEW c \in Space PROVE Unspaced(<<c>>) = <<>> /\ <<c>> \in Text
    OBVIOUS
  <2>2. <<c>> \in Text /\ Len(<<c>>) = 1 /\ <<c>>[1] = c
    BY DEF Text, Chars
  <2>3. Unspaced(<<c>>) = FlattenSeq(Kept(<<c>>)) /\ Kept(<<c>>) \in Seq(Text)
        /\ Len(Kept(<<c>>)) = 1 /\ Kept(<<c>>)[1] = <<>>
    BY <2>2, KeptPieces
  <2>4. Kept(<<c>>) = <<<<>>>>
    BY <2>3, OneLong
  <2>5. <<>> \in Text /\ <<>> \in Seq(Text) /\ Append(<<>>, <<>>) = <<<<>>>>
    BY EmptySeq DEF Text
  <2>6. FlattenSeq(<<<<>>>>) = FlattenSeq(<<>>) \o <<>>
    BY <2>5, FlattenAppend DEF Text
  <2>7. FlattenSeq(<<<<>>>>) = <<>>
    BY <2>5, <2>6, FlattenNothing, ConcatEmptySeq DEF Text
  <2> QED BY <2>2, <2>3, <2>4, <2>7
<1>2. <<>> \in Text
  BY EmptySeq DEF Text
<1>3. Unspaced(<<>>) = <<>>
  <2>1. Unspaced(<<>>) = FlattenSeq(Kept(<<>>)) /\ Kept(<<>>) \in Seq(Text) /\ Len(Kept(<<>>)) = 0
    BY <1>2, KeptPieces, EmptySeq
  <2>2. Kept(<<>>) = <<>>
    BY <2>1, EmptySeq
  <2> QED BY <2>1, <2>2, FlattenNothing
<1>4. " " \in Space /\ NL \in Space
  BY Zenon DEF Space
<1> QED BY <1>1, <1>2, <1>3, <1>4, Zenon

\* SkipWhile finds the first position that is none of S, or the end.
LEMMA SkipTo ==
  ASSUME NEW x \in Text, NEW p \in 1 .. Len(x) + 1, NEW S
  PROVE  /\ SkipWhile(x, p, S) \in p .. Len(x) + 1
         /\ \A i \in p .. SkipWhile(x, p, S) - 1 : x[i] \in S
         /\ SkipWhile(x, p, S) <= Len(x) => x[SkipWhile(x, p, S)] \notin S
<1> DEFINE T == {i \in p .. Len(x) : x[i] \notin S} \cup {Len(x) + 1}
           e == SkipWhile(x, p, S)
<1>1. Len(x) \in Nat
  BY LenProperties DEF Text
<1>2. T \subseteq Nat /\ T # {}
  BY <1>1
<1>3. e = Min(T)
  BY Zenon DEF SkipWhile
<1>4. e \in T /\ \A i \in T : e <= i
  BY <1>2, <1>3, LeastIsMin, ZenonT(60)
<1> HIDE DEF e
<1>5. e \in p .. Len(x) + 1 /\ (e <= Len(x) => x[e] \notin S)
  BY <1>1, <1>4
<1>6. \A i \in p .. e - 1 : x[i] \in S
  <2>1. SUFFICES ASSUME NEW i \in p .. e - 1, x[i] \notin S PROVE FALSE
    OBVIOUS
  <2>2. i \in p .. Len(x)
    BY <1>1, <1>5
  <2>3. i \in T
    BY <2>1, <2>2
  <2> QED BY <1>4, <2>1, <2>3
<1> QED BY <1>5, <1>6 DEF e

\* A text is what stands before a position and what stands from there on.
LEMMA CutInTwo ==
  ASSUME NEW x \in Text, NEW n \in 0 .. Len(x)
  PROVE  /\ SubSeq(x, 1, n) \in Text /\ Len(SubSeq(x, 1, n)) = n
         /\ \A i \in 1 .. n : SubSeq(x, 1, n)[i] = x[i]
         /\ SubSeq(x, n + 1, Len(x)) \in Text /\ Len(SubSeq(x, n + 1, Len(x))) = Len(x) - n
         /\ \A i \in 1 .. Len(x) - n : SubSeq(x, n + 1, Len(x))[i] = x[n + i]
         /\ x = SubSeq(x, 1, n) \o SubSeq(x, n + 1, Len(x))
<1>1. Len(x) \in Nat /\ \A i \in 1 .. Len(x) : x[i] \in Chars
  BY LenProperties, ElementOfSeq DEF Text
<1> DEFINE a == SubSeq(x, 1, n)
           b == SubSeq(x, n + 1, Len(x))
<1>2. a \in Text /\ Len(a) = n /\ \A i \in 1 .. n : a[i] = x[i]
  <2>1. \A i \in 1 .. n : x[i] \in Chars
    BY <1>1
  <2>2. /\ a \in Seq(Chars) /\ Len(a) = IF 1 <= n THEN n - 1 + 1 ELSE 0
        /\ \A i \in 1 .. n - 1 + 1 : a[i] = x[1 + i - 1]
    BY <2>1, SubSeqProperties
  <2> QED BY <2>2 DEF Text
<1>3. b \in Text /\ Len(b) = Len(x) - n /\ \A i \in 1 .. Len(x) - n : b[i] = x[n + i]
  <2>1. \A i \in n + 1 .. Len(x) : x[i] \in Chars
    BY <1>1
  <2>2. /\ b \in Seq(Chars) /\ Len(b) = IF n + 1 <= Len(x) THEN Len(x) - (n + 1) + 1 ELSE 0
        /\ \A i \in 1 .. Len(x) - (n + 1) + 1 : b[i] = x[(n + 1) + i - 1]
    BY <1>1, <2>1, SubSeqProperties
  <2> QED BY <1>1, <2>2 DEF Text
<1>4. SubSeq(x, 1, Len(x)) = a \o b
  <2>1. 1 \in 1 .. Len(x) + 1 /\ n \in 1 - 1 .. Len(x) /\ Len(x) \in n .. Len(x)
    BY <1>1
  <2> QED BY <2>1, ConcatAdjacentSubSeq DEF Text
<1>5. SubSeq(x, 1, Len(x)) = x
  BY SubSeqFull DEF Text
<1> QED BY <1>2, <1>3, <1>4, <1>5

\* A line is read up to its newline, the end of the input, or as far as the
\* buffer goes; at least one character is read.
LEMMA ChunkOfInput ==
  ASSUME input \in Text, input # <<>>
  PROVE  \E n \in 1 .. Len(input) :
           /\ Chunk = SubSeq(input, 1, n) /\ Len(Chunk) = n
           /\ n = Len(input) \/ input[n] = NL \/ n = Buffer - 1
           /\ \A i \in 1 .. n - 1 : input[i] # NL
<1> DEFINE S == ToSet(input) \ {NL}
           e == SkipWhile(input, 1, S)
           T == {e, Len(input), Buffer - 1}
           n == Min(T)
<1>1. Len(input) \in Nat /\ Len(input) >= 1 /\ Buffer \in Nat /\ Buffer >= 2
  <2>1. Len(input) \in Nat /\ Len(input) >= 1
    BY LenProperties, EmptySeq DEF Text
  <2>2. Buffer \in Nat /\ Buffer >= 2
    BY ReplAssumption
  <2> QED BY <2>1, <2>2
<1>2. \A i \in 1 .. Len(input) : input[i] \in S <=> input[i] # NL
  <2>1. \A i \in 1 .. Len(input) : input[i] \in ToSet(input)
    BY InSequence DEF Text
  <2> QED BY <2>1
<1> HIDE DEF S
<1>3. /\ e \in 1 .. Len(input) + 1
      /\ \A i \in 1 .. e - 1 : input[i] \in S
      /\ e <= Len(input) => input[e] \notin S
  <2>1. 1 \in 1 .. Len(input) + 1
    BY <1>1
  <2> QED BY <2>1, SkipTo
<1> HIDE DEF e
<1>4. n \in T /\ n <= e /\ n <= Len(input) /\ n <= Buffer - 1
  <2>1. T \subseteq Nat /\ T # {}
    BY <1>1, <1>3
  <2> HIDE DEF T
  <2>2. n \in T /\ \A i \in T : n <= i
    BY <2>1, LeastIsMin
  <2> QED BY <2>2 DEF T
<1>5. Chunk = SubSeq(input, 1, n)
  BY Zenon DEF Chunk, e, S
<1> HIDE DEF n
<1>6. n \in 1 .. Len(input)
  BY <1>1, <1>3, <1>4
<1>7. Len(Chunk) = n
  BY <1>1, <1>5, <1>6, CutInTwo
<1>8. n = Len(input) \/ input[n] = NL \/ n = Buffer - 1
  BY <1>1, <1>2, <1>3, <1>4, <1>6
<1>9. \A i \in 1 .. n - 1 : input[i] # NL
  BY <1>1, <1>2, <1>3, <1>4, <1>6
<1> QED BY <1>5, <1>6, <1>7, <1>8, <1>9

-----------------------------------------------------------------------------
(* Nothing that is read is lost.                                           *)

\* The types, and that a statement handed on is complete.
ReplTypes ==
  /\ input \in Text /\ typed \in Text /\ statement \in Text /\ executed \in Seq(Text)
  /\ saved \in Nat

\* What is executed, waits and is not read yet is what was typed.
AllThere == at # "closed" => Unspaced(FlattenSeq(Read)) \o Unspaced(input) = Unspaced(typed)

\* Typing, a line with its newline or without.
LEMMA LineTyped ==
  ASSUME NEW line \in Lines, NEW ending \in {<<NL>>, <<>>}
  PROVE  line \in Text /\ ending \in Text /\ line \o ending \in Text
<1>1. line \in Seq(Characters) /\ Characters \subseteq Chars
  BY ReplAssumption DEF Chars
<1>2. line \in Text
  BY <1>1, SeqMonotonic DEF Text
<1>3. ending \in Text
  BY UnspacedSpace
<1> QED BY <1>2, <1>3, ConcatProperties DEF Text

\* What joining a line to the statement makes of both.
LEMMA JoinedText ==
  ASSUME NEW chunk \in Text, statement \in Text
  PROVE  /\ WithoutNewline(chunk) \in Text
         /\ Joined(WithoutNewline(chunk)) \in Text
         /\ Unspaced(Joined(WithoutNewline(chunk))) = Unspaced(statement) \o Unspaced(chunk)
<1> DEFINE line == WithoutNewline(chunk)
           n == Len(chunk)
<1>1. line \in Text /\ Unspaced(line) = Unspaced(chunk)
  <2>1. CASE chunk # <<>> /\ chunk[Len(chunk)] = NL
    <3>1. line = Front(chunk)
      BY <2>1, Zenon DEF WithoutNewline
    <3>2. n \in Nat /\ n >= 1
      BY <2>1, LenProperties, EmptySeq DEF Text
    <3> DEFINE m == n - 1
               rest == SubSeq(chunk, m + 1, Len(chunk))
    <3>3. line = SubSeq(chunk, 1, m)
      BY <3>1, Zenon DEF Front
    <3>4. m \in 0 .. Len(chunk) /\ Len(chunk) - m = 1 /\ m + 1 = n
      BY <3>2
    <3> HIDE DEF m, line
    <3>5. line \in Text /\ rest \in Text /\ chunk = line \o rest
      BY <3>3, <3>4, CutInTwo
    <3>6. Len(rest) = 1 /\ rest[1] = chunk[n]
      <4>1. Len(rest) = 1 /\ \A i \in 1 .. 1 : rest[i] = chunk[m + i]
        BY <3>4, CutInTwo
      <4> QED BY <3>4, <4>1
    <3> HIDE DEF rest
    <3>7. rest = <<NL>>
      BY <2>1, <3>5, <3>6, OneLong DEF Text
    <3>8. Unspaced(chunk) = Unspaced(line) \o Unspaced(rest) /\ Unspaced(line) \in Text
      BY <3>5, UnspacedConcat
    <3>9. Unspaced(rest) = <<>>
      BY <3>7, UnspacedSpace
    <3> QED BY <3>5, <3>8, <3>9, ConcatEmptySeq DEF Text
  <2>2. CASE ~(chunk # <<>> /\ chunk[Len(chunk)] = NL)
    BY <2>2, Zenon DEF WithoutNewline
  <2> QED BY <2>1, <2>2, Zenon
<1> HIDE DEF line
<1>2. CASE statement = <<>>
  <2>1. Joined(line) = line
    BY <1>2, Zenon DEF Joined
  <2>2. Unspaced(statement) = <<>> /\ Unspaced(line) \in Text
    BY <1>1, <1>2, UnspacedSpace, UnspacedConcat
  <2>3. <<>> \o Unspaced(line) = Unspaced(line)
    BY <2>2, ConcatEmptySeq DEF Text
  <2> QED BY <1>1, <2>1, <2>2, <2>3, Zenon DEF line
<1>3. CASE statement # <<>>
  <2> DEFINE begun == statement \o <<" ">>
  <2>1. Joined(line) = begun \o line
    BY <1>3, Zenon DEF Joined
  <2>2. begun \in Text /\ Unspaced(begun) = Unspaced(statement)
    <3> DEFINE blank == <<" ">>
    <3>1. blank \in Text /\ Unspaced(blank) = <<>>
      BY UnspacedSpace, Zenon
    <3> HIDE DEF blank
    <3>2. statement \o blank \in Text
      BY <3>1, ConcatProperties DEF Text
    <3>3. Unspaced(statement \o blank) = Unspaced(statement) \o <<>> /\ Unspaced(statement) \in Text
      BY <3>1, UnspacedConcat, ZenonT(60)
    <3>4. Unspaced(statement) \o <<>> = Unspaced(statement)
      BY <3>3, ConcatEmptySeq DEF Text
    <3> QED BY <3>2, <3>3, <3>4, Zenon DEF blank
  <2> HIDE DEF begun
  <2>3. begun \o line \in Text /\ Unspaced(begun \o line) = Unspaced(begun) \o Unspaced(line)
    BY <1>1, <2>2, UnspacedConcat, ConcatProperties DEF Text
  <2> QED BY <1>1, <2>1, <2>2, <2>3, Zenon DEF line
<1> QED BY <1>2, <1>3

\* The statement is the last of what was read.
LEMMA ReadFlattened ==
  ASSUME NEW done \in Seq(Text), NEW last \in Text
  PROVE  /\ FlattenSeq(done) \in Text
         /\ FlattenSeq(Append(done, last)) = FlattenSeq(done) \o last
         /\ FlattenSeq(Append(done, last)) \in Text
         /\ Unspaced(FlattenSeq(Append(done, last))) = Unspaced(FlattenSeq(done)) \o Unspaced(last)
<1>1. FlattenSeq(done) \in Text /\ FlattenSeq(Append(done, last)) = FlattenSeq(done) \o last
  BY FlattenAppend DEF Text
<1>2. FlattenSeq(done) \o last \in Text
  BY <1>1, ConcatProperties DEF Text
<1> QED BY <1>1, <1>2, UnspacedConcat

\* Nothing was typed yet.
LEMMA InitReadsAll == Init => ReplTypes /\ AllThere
<1> SUFFICES ASSUME Init PROVE ReplTypes /\ AllThere
  OBVIOUS
<1>1. input = <<>> /\ typed = <<>> /\ statement = <<>> /\ executed = <<>> /\ saved = 0
  BY DEF Init
<1>2. <<>> \in Text /\ <<>> \in Seq(Text)
  BY EmptySeq, UnspacedSpace
<1>3. Read = Append(<<>>, <<>>)
  BY <1>1, Zenon DEF Read
<1>4. FlattenSeq(Read) = <<>>
  BY <1>2, <1>3, ReadFlattened, FlattenNothing, ConcatEmptySeq DEF Text
<1>5. Unspaced(<<>>) \o Unspaced(<<>>) = Unspaced(<<>>)
  BY <1>2, UnspacedSpace, ConcatEmptySeq DEF Text
<1> QED BY <1>1, <1>2, <1>4, <1>5, Zenon DEF ReplTypes, AllThere

\* Typing adds to both sides.
LEMMA TypeReadsAll ==
  ASSUME ReplTypes, AllThere, NEW line \in Lines, NEW ending \in {<<NL>>, <<>>}, Type(line, ending)
  PROVE  ReplTypes' /\ AllThere'
<1> DEFINE new == line \o ending
           read == FlattenSeq(Read)
<1>1. /\ at = "prompt" /\ at' = "prompt" /\ input = <<>>
      /\ input' = new /\ typed' = typed \o new
      /\ statement' = statement /\ executed' = executed /\ saved' = saved
  BY Zenon DEF Type
<1>2. new \in Text
  BY LineTyped
<1> HIDE DEF new
<1>3. ReplTypes'
  <2>1. typed \o new \in Text
    BY <1>2, ConcatProperties DEF Text, ReplTypes
  <2> QED BY <1>1, <1>2, <2>1 DEF ReplTypes
<1>4. read' = read
  BY <1>1, Zenon DEF Read
<1>5. Unspaced(read) = Unspaced(typed)
  <2>1. Unspaced(read) \o Unspaced(input) = Unspaced(typed)
    BY <1>1 DEF AllThere
  <2>2. Unspaced(input) = <<>>
    BY <1>1, UnspacedSpace
  <2>3. read \in Text
    BY ReadFlattened, Zenon DEF Read, ReplTypes
  <2> HIDE DEF read
  <2>4. Unspaced(read) \in Text
    BY <2>3, UnspacedConcat
  <2> QED BY <2>1, <2>2, <2>4, ConcatEmptySeq DEF Text
<1>6. Unspaced(typed \o new) = Unspaced(typed) \o Unspaced(new)
  BY <1>2, UnspacedConcat DEF ReplTypes
<1>7. AllThere'
  BY <1>1, <1>4, <1>5, <1>6, Zenon DEF AllThere
<1> QED BY <1>3, <1>7

\* A line read goes from the input to the statement.
LEMMA ReadLineReadsAll ==
  ASSUME ReplTypes, AllThere, ReadLine
  PROVE  ReplTypes' /\ AllThere'
<1> DEFINE whole == Joined(WithoutNewline(Chunk))
           rest == SubSeq(input, Len(Chunk) + 1, Len(input))
           done == FlattenSeq(executed)
<1>1. /\ at = "prompt" /\ input # <<>>
      /\ input' = rest /\ statement' = whole
      /\ typed' = typed /\ executed' = executed /\ saved' = saved
  BY Zenon DEF ReadLine
<1>2. at # "closed"
  BY <1>1
<1>3. Chunk \in Text /\ rest \in Text /\ input = Chunk \o rest
  <2>1. PICK n \in 1 .. Len(input) : Chunk = SubSeq(input, 1, n) /\ Len(Chunk) = n
    BY <1>1, ChunkOfInput DEF ReplTypes
  <2>2. Len(input) \in Nat
    BY LenProperties DEF ReplTypes, Text
  <2>3. n \in 0 .. Len(input)
    BY <2>2
  <2> QED BY <2>1, <2>3, CutInTwo DEF ReplTypes
<1>4. whole \in Text /\ Unspaced(whole) = Unspaced(statement) \o Unspaced(Chunk)
  BY <1>3, JoinedText DEF ReplTypes
<1> HIDE DEF whole, rest
<1>5. ReplTypes'
  BY <1>1, <1>3, <1>4 DEF ReplTypes
<1>6. /\ done \in Text
      /\ Unspaced(FlattenSeq(Append(executed, statement))) = Unspaced(done) \o Unspaced(statement)
      /\ Unspaced(FlattenSeq(Append(executed, whole))) = Unspaced(done) \o Unspaced(whole)
  BY <1>4, ReadFlattened DEF ReplTypes
<1> HIDE DEF done
<1>7. (Unspaced(done) \o Unspaced(statement)) \o (Unspaced(Chunk) \o Unspaced(rest)) = Unspaced(typed)
  <2>1. Unspaced(input) = Unspaced(Chunk) \o Unspaced(rest)
    BY <1>3, UnspacedConcat
  <2>2. Unspaced(FlattenSeq(Append(executed, statement))) \o Unspaced(input) = Unspaced(typed)
    BY <1>2, Zenon DEF AllThere, Read
  <2> QED BY <1>6, <2>1, <2>2, Zenon
<1>8. (Unspaced(done) \o Unspaced(whole)) \o Unspaced(rest) = Unspaced(typed)
  <2> DEFINE a == Unspaced(done)
             b == Unspaced(statement)
             c == Unspaced(Chunk)
             d == Unspaced(rest)
  <2>1. a \in Text /\ b \in Text /\ c \in Text /\ d \in Text
    BY <1>3, <1>6, UnspacedConcat DEF ReplTypes
  <2> HIDE DEF a, b, c, d
  <2>2. (a \o (b \o c)) \o d = (a \o b) \o (c \o d)
    <3>1. a \o b \in Text
      BY <2>1, ConcatProperties DEF Text
    <3>2. (a \o b) \o c = a \o (b \o c)
      BY <2>1, ConcatAssociative, SMTT(60) DEF Text
    <3> DEFINE ab == a \o b
    <3> HIDE DEF ab
    <3>3. (ab \o c) \o d = ab \o (c \o d)
      <4>1. ab \in Text
        BY <3>1 DEF ab
      <4> QED BY <2>1, <4>1, ConcatAssociative, SMTT(60) DEF Text
    <3> QED BY <3>2, <3>3, Zenon DEF ab
  <2> QED BY <1>4, <1>7, <2>2, Zenon DEF a, b, c, d
<1>9. AllThere'
  BY <1>1, <1>6, <1>8, Zenon DEF AllThere, Read
<1> QED BY <1>5, <1>9

\* A statement executed stays where it is among what was read.
LEMMA HandleReadsAll ==
  ASSUME ReplTypes, AllThere, Handle
  PROVE  ReplTypes' /\ AllThere'
<1> DEFINE next == Append(executed, statement)
<1>1. /\ at = "complete" /\ executed' = next /\ statement' = <<>>
      /\ input' = input /\ typed' = typed /\ saved' = saved
  BY Zenon DEF Handle
<1>2. at # "closed"
  BY <1>1
<1>3. next \in Seq(Text)
  BY AppendProperties DEF ReplTypes
<1>4. <<>> \in Text
  BY UnspacedSpace
<1>5. FlattenSeq(next) \in Text
  BY ReadFlattened DEF ReplTypes
<1>6. AllThere /\ at # "closed" => Unspaced(FlattenSeq(next)) \o Unspaced(input) = Unspaced(typed)
  BY Zenon DEF AllThere, Read
<1> HIDE DEF next
<1>7. FlattenSeq(Append(next, <<>>)) = FlattenSeq(next)
  BY <1>3, <1>4, <1>5, ReadFlattened, ConcatEmptySeq DEF Text
<1>8. ReplTypes'
  BY <1>1, <1>3, <1>4 DEF ReplTypes
<1>9. AllThere'
  BY <1>1, <1>2, <1>6, <1>7, Zenon DEF AllThere, Read
<1> QED BY <1>8, <1>9

\* Every step keeps account of everything typed.
LEMMA NextReadsAll == ReplTypes /\ AllThere /\ [Next]_vars => ReplTypes' /\ AllThere'
<1> SUFFICES ASSUME ReplTypes, AllThere, [Next]_vars PROVE ReplTypes' /\ AllThere'
  OBVIOUS
<1>1. ASSUME NEW line \in Lines, NEW ending \in {<<NL>>, <<>>}, Type(line, ending)
      PROVE  ReplTypes' /\ AllThere'
  BY <1>1, TypeReadsAll
<1>2. CASE ReadLine
  BY <1>2, ReadLineReadsAll
<1>3. CASE Handle
  BY <1>3, HandleReadsAll
<1>4. ASSUME at # "closed", UNCHANGED <<input, statement, executed, saved, typed>>
      PROVE  ReplTypes' /\ AllThere'
  BY <1>4, Zenon DEF ReplTypes, AllThere, Read
<1>5. CASE EndOfInput \/ Quit \/ Interrupted
  <2>1. at # "closed" /\ UNCHANGED <<input, statement, executed, saved, typed>>
    BY <1>5 DEF EndOfInput, Quit, Interrupted
  <2> QED BY <1>4, <2>1
<1>6. CASE Close
  <2>1. /\ at' = "closed" /\ statement' = <<>> /\ saved' = Len(executed)
        /\ input' = input /\ executed' = executed /\ typed' = typed
    BY <1>6, Zenon DEF Close
  <2>2. Len(executed) \in Nat
    BY LenProperties DEF ReplTypes
  <2> QED BY <2>1, <2>2, UnspacedSpace DEF ReplTypes, AllThere
<1>7. CASE UNCHANGED vars
  BY <1>7, Zenon DEF vars, ReplTypes, AllThere, Read
<1> QED BY <1>1, <1>2, <1>3, <1>5, <1>6, <1>7 DEF Next, Program

\* Every character typed is in a statement, once and in its place, however
\* the lines are cut and joined (repl.c:288-299).
THEOREM EverythingIsRead == Spec => []NothingLost
<1>1. ReplTypes /\ AllThere => NothingLost
  <2> SUFFICES ASSUME ReplTypes, AllThere, Reading
               PROVE  Unspaced(FlattenSeq(Read)) = Unspaced(typed)
    BY DEF NothingLost
  <2>1. input = <<>> /\ at # "closed"
    BY DEF Reading
  <2>2. Unspaced(FlattenSeq(Read)) \o Unspaced(input) = Unspaced(typed)
    BY <2>1 DEF AllThere
  <2>3. Unspaced(input) = <<>>
    BY <2>1, UnspacedSpace
  <2>4. FlattenSeq(Read) \in Text
    BY ReadFlattened, Zenon DEF Read, ReplTypes
  <2>5. Unspaced(FlattenSeq(Read)) \in Text
    BY <2>4, UnspacedConcat
  <2> QED BY <2>2, <2>3, <2>5, ConcatEmptySeq DEF Text
<1> QED BY <1>1, InitReadsAll, NextReadsAll, PTL DEF Spec

-----------------------------------------------------------------------------
(* The tokenizer.                                                          *)

\* Two characters by name.
Backslash == "\\"
Semicolon == ";"

\* Which characters are what.
LEMMA Characterised ==
  /\ \A c \in Quote : c \notin Special /\ c \notin Space
  /\ \A c \in Special : c \notin Space
  /\ Semicolon \in Special /\ Semicolon \notin Quote /\ Semicolon \notin Space
  /\ \A c \in {"<", ">"} : c # Semicolon
  /\ Semicolon # "="
  /\ "=" \notin Space
  /\ Backslash \notin Space
BY Zenon DEF Quote, Special, Space, NL, Semicolon, Backslash

\* An operator of two characters starts at p.
Doubled(x, p) == x[p] \in {"<", ">"} /\ p < Len(x) /\ x[p + 1] = "="

\* The characters of x that a word is made of.
Wordly(x) == ToSet(x) \ (Space \cup Special)

\* Where a token ends, by what it starts with.
LEMMA TokenEnds ==
  ASSUME NEW x, NEW p
  PROVE  /\ x[p] \in Quote => TokenEnd(x, p) = ClosingQuote(x, p) + 1
         /\ x[p] \in Special => TokenEnd(x, p) = IF Doubled(x, p) THEN p + 2 ELSE p + 1
         /\ x[p] \notin Quote /\ x[p] \notin Special => TokenEnd(x, p) = SkipWhile(x, p, Wordly(x))
<1>1. CASE x[p] \in Quote
  <2>1. x[p] \notin Special
    BY <1>1, Characterised, Zenon
  <2> QED BY <1>1, <2>1, Zenon DEF TokenEnd
<1>2. CASE x[p] \in Special
  <2>1. x[p] \notin Quote
    BY <1>2, Characterised, Zenon
  <2> QED BY <1>2, <2>1, Zenon DEF TokenEnd, Doubled
<1>3. CASE x[p] \notin Quote /\ x[p] \notin Special
  BY <1>3, Zenon DEF TokenEnd, Wordly
<1> QED BY <1>1, <1>2, <1>3, Zenon

\* The function ClosingQuote is read from.
Closes(f, x, p) ==
  \A i \in p + 1 .. Len(x) + 2 :
    f[i] = IF i > Len(x) \/ x[i] = x[p] THEN i
           ELSE IF x[i] = Backslash /\ i < Len(x) THEN f[i + 2] ELSE f[i + 1]

\* There is such a function.
LEMMA ClosingQuoteCloses ==
  ASSUME NEW x \in Text, NEW p \in 1 .. Len(x)
  PROVE  \E f : ClosingQuote(x, p) = f[p + 1] /\ Closes(f, x, p)
<1> DEFINE lo == p + 1
           hi == Len(x) + 2
           V == Nat
           stop == {i \in lo .. hi : i > Len(x) \/ x[i] = x[p]}
           base == [i \in lo .. hi |-> i]
           next == [i \in lo .. hi |-> IF x[i] = Backslash /\ i < Len(x) THEN i + 2 ELSE i + 1]
           step == [i \in lo .. hi |-> [v \in V |-> v]]
           Body(f, i) == IF i > Len(x) \/ x[i] = x[p] THEN i
                         ELSE IF x[i] = Backslash /\ i < Len(x) THEN f[i + 2] ELSE f[i + 1]
           Plan(f, i) == IF i \in stop THEN base[i] ELSE step[i][f[next[i]]]
<1>1. Len(x) \in Nat /\ lo \in Nat /\ hi \in Nat
  BY LenProperties DEF Text
<1>2. \A i \in lo .. hi : i \notin stop => next[i] \in i + 1 .. hi
  BY <1>1
<1>3. \A i \in lo .. hi : i \in stop => base[i] \in V
  BY <1>1
<1>4. \A i \in lo .. hi : i \notin stop => \A v \in V : step[i][v] \in V
  OBVIOUS
<1> HIDE DEF stop, base, next, step, V, lo, hi
<1>5. PICK f \in [lo .. hi -> V] : \A i \in lo .. hi : f[i] = Plan(f, i)
  <2>1. Recursion(lo, hi, V, stop, base, next, step)
    BY <1>1, <1>2, <1>3, <1>4, Zenon DEF Recursion
  <2>2. PICK f \in [lo .. hi -> V] : Recurs(f, lo, hi, stop, base, next, step)
    BY <2>1, LaterFirst, Zenon
  <2> QED BY <2>2, Zenon DEF Recurs
<1>6. \A i \in lo .. hi : f[i] = Plan(f, i) /\ f[i] \in V
  BY <1>5
<1>8. \A i \in lo .. hi : Plan(f, i) = Body(f, i)
  <2>1. SUFFICES ASSUME NEW i \in lo .. hi PROVE Plan(f, i) = Body(f, i)
    OBVIOUS
  <2>2. CASE i \in stop
    BY <2>2 DEF stop, base
  <2>3. CASE i \notin stop
    <3>1. next[i] \in lo .. hi
      BY <1>1, <1>2, <2>3
    <3>2. step[i][f[next[i]]] = f[next[i]]
      BY <1>6, <3>1 DEF step
    <3> QED BY <2>3, <3>2 DEF stop, next
  <2> QED BY <2>2, <2>3
<1>9. f = [i \in lo .. hi |-> Body(f, i)]
  <2> HIDE DEF Plan, Body
  <2> QED BY <1>5, <1>6, <1>8
<1> DEFINE g == CHOOSE h : h = [i \in lo .. hi |-> Body(h, i)]
<1>10. g = [i \in lo .. hi |-> Body(g, i)]
  <2> HIDE DEF Body
  <2> QED BY <1>9, Zenon
<1>11. ClosingQuote(x, p) = g[p + 1]
  BY Zenon DEF ClosingQuote, Backslash, lo, hi
<1> HIDE DEF g
<1>12. Closes(g, x, p)
  <2>1. \A i \in lo .. hi : g[i] = Body(g, i)
    <3> HIDE DEF Body
    <3> QED BY <1>10
  <2> QED BY <2>1, Zenon DEF Closes, lo, hi
<1> QED BY <1>11, <1>12

\* What closes a quote stands behind it and is the same, if there is anything.
LEMMA ClosingQuoteRange ==
  ASSUME NEW x \in Text, NEW p \in 1 .. Len(x)
  PROVE  /\ \A f : Closes(f, x, p) =>
              \A i \in p + 1 .. Len(x) + 2 : f[i] \in i .. Len(x) + 2 /\ (f[i] <= Len(x) => x[f[i]] = x[p])
         /\ ClosingQuote(x, p) \in p + 1 .. Len(x) + 2
         /\ ClosingQuote(x, p) <= Len(x) => x[ClosingQuote(x, p)] = x[p]
<1>1. Len(x) \in Nat
  BY LenProperties DEF Text
<1>2. ASSUME NEW f, Closes(f, x, p)
      PROVE  \A i \in p + 1 .. Len(x) + 2 : f[i] \in i .. Len(x) + 2 /\ (f[i] <= Len(x) => x[f[i]] = x[p])
  <2> DEFINE lo == p + 1
             hi == Len(x) + 2
             Fine(i) == f[i] \in i .. hi /\ (f[i] <= Len(x) => x[f[i]] = x[p])
             G == {i \in lo .. hi : Fine(i)}
  <2>1. lo \in Nat /\ hi \in Nat
    BY <1>1
  <2>2. \A i \in lo .. hi : (\A j \in i + 1 .. hi : j \in G) => i \in G
    <3>1. SUFFICES ASSUME NEW i \in lo .. hi, \A j \in i + 1 .. hi : j \in G PROVE Fine(i)
      OBVIOUS
    <3>2. f[i] = IF i > Len(x) \/ x[i] = x[p] THEN i
                 ELSE IF x[i] = Backslash /\ i < Len(x) THEN f[i + 2] ELSE f[i + 1]
      BY <1>2 DEF Closes
    <3>3. CASE i > Len(x) \/ x[i] = x[p]
      BY <1>1, <3>2, <3>3
    <3>4. CASE ~(i > Len(x) \/ x[i] = x[p])
      <4>1. i \in Int /\ i <= Len(x) /\ i + 1 \in i + 1 .. hi /\ i + 2 \in i + 1 .. hi
        BY <1>1, <3>4
      <4>2. Fine(i + 1) /\ Fine(i + 2)
        <5> HIDE DEF Fine
        <5> QED BY <3>1, <4>1
      <4>3. f[i] = f[i + 1] \/ f[i] = f[i + 2]
        BY <3>2, <3>4
      <4> QED BY <1>1, <4>1, <4>2, <4>3
    <3> QED BY <3>3, <3>4
  <2> HIDE DEF G, Fine
  <2>3. \A i \in lo .. hi : i \in G
    BY <2>1, <2>2, FromTheLast, ZenonT(60)
  <2> QED BY <2>3 DEF G, Fine
<1>3. PICK f : ClosingQuote(x, p) = f[p + 1] /\ Closes(f, x, p)
  BY ClosingQuoteCloses
<1>4. p + 1 \in p + 1 .. Len(x) + 2
  BY <1>1
<1> QED BY <1>2, <1>3, <1>4

\* A token has a character at least.
LEMMA TokenEndRange ==
  ASSUME NEW x \in Text, NEW p \in 1 .. Len(x), x[p] \notin Space
  PROVE  TokenEnd(x, p) \in p + 1 .. Len(x) + 3
<1>1. Len(x) \in Nat
  BY LenProperties DEF Text
<1>2. CASE x[p] \in Quote
  <2>1. TokenEnd(x, p) = ClosingQuote(x, p) + 1
    BY <1>2, TokenEnds
  <2> QED BY <1>1, <2>1, ClosingQuoteRange
<1>3. CASE x[p] \in Special
  <2>1. TokenEnd(x, p) = p + 2 \/ TokenEnd(x, p) = p + 1
    BY <1>3, TokenEnds, Zenon
  <2> QED BY <1>1, <2>1
<1>4. CASE x[p] \notin Quote /\ x[p] \notin Special
  <2>1. TokenEnd(x, p) = SkipWhile(x, p, Wordly(x))
    BY <1>4, TokenEnds, Zenon
  <2>2. x[p] \in Wordly(x)
    BY <1>4, InSequence DEF Wordly, Text
  <2> DEFINE e == SkipWhile(x, p, Wordly(x))
  <2>3. e \in p .. Len(x) + 1 /\ (e <= Len(x) => x[e] \notin Wordly(x))
    <3>1. p \in 1 .. Len(x) + 1
      BY <1>1
    <3> QED BY <3>1, SkipTo
  <2> HIDE DEF e
  <2>4. e # p
    BY <2>2, <2>3
  <2> QED BY <1>1, <2>1, <2>3, <2>4 DEF e
<1> QED BY <1>2, <1>3, <1>4, Zenon

-----------------------------------------------------------------------------
(* Tokens and QuoteOpen, position by position.                             *)

\* Where the next token starts, and where it ends.
Start(x, p) == SkipWhile(x, p, Space)
End(x, p) == TokenEnd(x, Start(x, p))

\* There is no token from p on, or a quote that is not closed.
NoToken(x, p) == Start(x, p) > Len(x) \/ End(x, p) > Len(x) + 1

\* The functions Tokens and QuoteOpen are read from.
Cuts(f, x) ==
  \A p \in 1 .. Len(x) + 1 :
    f[p] = IF NoToken(x, p) THEN <<>> ELSE <<SubSeq(x, Start(x, p), End(x, p) - 1)>> \o f[End(x, p)]
Opens(f, x) ==
  \A p \in 1 .. Len(x) + 1 :
    f[p] = (Start(x, p) <= Len(x) /\ (End(x, p) > Len(x) + 1 \/ f[End(x, p)]))

\* Where tokens start and end.
LEMMA StartEnd ==
  ASSUME NEW x \in Text, NEW p \in 1 .. Len(x) + 1
  PROVE  /\ Len(x) \in Nat
         /\ Start(x, p) \in p .. Len(x) + 1
         /\ \A i \in p .. Start(x, p) - 1 : x[i] \in Space
         /\ Start(x, p) <= Len(x) =>
              /\ Start(x, p) \in 1 .. Len(x)
              /\ x[Start(x, p)] \notin Space
              /\ End(x, p) \in Start(x, p) + 1 .. Len(x) + 3
         /\ ~NoToken(x, p) => End(x, p) \in p + 1 .. Len(x) + 1 /\ Start(x, p) \in p .. End(x, p) - 1
<1> DEFINE s == Start(x, p)
<1>1. Len(x) \in Nat
  BY LenProperties DEF Text
<1>2. /\ s \in p .. Len(x) + 1
      /\ \A i \in p .. s - 1 : x[i] \in Space
      /\ s <= Len(x) => x[s] \notin Space
  BY SkipTo DEF Start
<1> HIDE DEF s
<1>3. s <= Len(x) => s \in 1 .. Len(x) /\ End(x, p) \in s + 1 .. Len(x) + 3
  <2>1. SUFFICES ASSUME s <= Len(x) PROVE s \in 1 .. Len(x) /\ End(x, p) \in s + 1 .. Len(x) + 3
    OBVIOUS
  <2>2. s \in 1 .. Len(x)
    BY <1>1, <1>2, <2>1
  <2>3. End(x, p) = TokenEnd(x, s)
    BY Zenon DEF End, s
  <2> QED BY <1>2, <2>1, <2>2, <2>3, TokenEndRange
<1>4. ~NoToken(x, p) => End(x, p) \in p + 1 .. Len(x) + 1 /\ s \in p .. End(x, p) - 1
  <2>1. SUFFICES ASSUME ~NoToken(x, p)
                 PROVE  End(x, p) \in p + 1 .. Len(x) + 1 /\ s \in p .. End(x, p) - 1
    OBVIOUS
  <2>2. ~(s > Len(x)) /\ ~(End(x, p) > Len(x) + 1)
    BY <2>1, Zenon DEF NoToken, s
  <2> QED BY <1>1, <1>2, <1>3, <2>2
<1> QED BY <1>1, <1>2, <1>3, <1>4 DEF s

\* A piece of a text is a text.
LEMMA PieceOfText ==
  ASSUME NEW x \in Text, NEW i \in 1 .. Len(x) + 1, NEW j \in 0 .. Len(x)
  PROVE  SubSeq(x, i, j) \in Text
<1>1. Len(x) \in Nat /\ \A k \in 1 .. Len(x) : x[k] \in Chars
  BY LenProperties, ElementOfSeq DEF Text
<1>2. \A k \in i .. j : x[k] \in Chars
  BY <1>1
<1>3. i \in Int /\ j \in Int
  OBVIOUS
<1> QED BY <1>2, <1>3, SubSeqProperties DEF Text

\* Tokens is read from such a function, whose values are sequences of texts.
LEMMA TokensCut ==
  ASSUME NEW x \in Text
  PROVE  /\ \E f : Tokens(x) = f[1] /\ Cuts(f, x)
         /\ \A f : Cuts(f, x) => \A p \in 1 .. Len(x) + 1 : f[p] \in Seq(Text)
<1> DEFINE lo == 1
           hi == Len(x) + 1
           V == Seq(Text)
           stop == {p \in lo .. hi : NoToken(x, p)}
           base == [p \in lo .. hi |-> <<>>]
           next == [p \in lo .. hi |-> End(x, p)]
           piece(p) == SubSeq(x, Start(x, p), End(x, p) - 1)
           step == [p \in lo .. hi |-> [v \in V |-> <<piece(p)>> \o v]]
           Body(f, p) == IF NoToken(x, p) THEN <<>> ELSE <<piece(p)>> \o f[End(x, p)]
<1>1. Len(x) \in Nat /\ lo \in Nat /\ hi \in Nat
  BY LenProperties DEF Text
<1>2. \A p \in lo .. hi : p \notin stop => next[p] \in p + 1 .. hi
  BY StartEnd
<1>3. \A p \in lo .. hi : p \in stop => base[p] \in V
  BY EmptySeq
<1>4. \A p \in lo .. hi : p \notin stop => \A v \in V : step[p][v] \in V
  <2>1. SUFFICES ASSUME NEW p \in lo .. hi, p \notin stop, NEW v \in V PROVE step[p][v] \in V
    OBVIOUS
  <2>2. ~NoToken(x, p)
    BY <2>1
  <2>3. Start(x, p) \in 1 .. Len(x) + 1 /\ End(x, p) - 1 \in 0 .. Len(x)
    <3>1. End(x, p) \in p + 1 .. Len(x) + 1 /\ Start(x, p) \in p .. End(x, p) - 1
      BY <2>2, StartEnd
    <3> QED BY <1>1, <3>1
  <2>4. piece(p) \in Text
    BY <2>3, PieceOfText
  <2>5. <<piece(p)>> \in Seq(Text)
    BY <2>4
  <2> HIDE DEF piece
  <2>6. <<piece(p)>> \o v \in V
    BY <2>5, ConcatProperties
  <2> QED BY <2>6
<1>5. Recursion(lo, hi, V, stop, base, next, step)
  <2> HIDE DEF stop, base, next, step, V, lo, hi
  <2> QED BY <1>1, <1>2, <1>3, <1>4, Zenon DEF Recursion
<1>6. PICK f \in [lo .. hi -> V] : Recurs(f, lo, hi, stop, base, next, step)
  <2> HIDE DEF stop, base, next, step, V, lo, hi
  <2> QED BY <1>5, LaterFirst, Zenon
<1>7. ASSUME NEW h, \A p \in lo .. hi : p \notin stop => h[next[p]] \in V
      PROVE  \A p \in lo .. hi :
               (IF p \in stop THEN base[p] ELSE step[p][h[next[p]]]) = Body(h, p)
  <2>1. SUFFICES ASSUME NEW p \in lo .. hi
                 PROVE  (IF p \in stop THEN base[p] ELSE step[p][h[next[p]]]) = Body(h, p)
    OBVIOUS
  <2> HIDE DEF piece, V
  <2>2. CASE p \in stop
    BY <2>2
  <2>3. CASE p \notin stop
    <3>1. step[p][h[next[p]]] = <<piece(p)>> \o h[next[p]]
      BY <1>7, <2>3
    <3> QED BY <2>3, <3>1
  <2> QED BY <2>2, <2>3
<1> HIDE DEF stop, base, next, step, V, lo, hi
<1>8. f = [p \in lo .. hi |-> Body(f, p)]
  <2>1. \A p \in lo .. hi : p \notin stop => f[next[p]] \in V
    <3>1. \A p \in lo .. hi : p \notin stop => next[p] \in lo .. hi
      BY <1>1, <1>2
    <3> QED BY <1>6, <3>1
  <2>2. \A p \in lo .. hi : f[p] = Body(f, p)
    <3> HIDE DEF Body
    <3> QED BY <1>6, <1>7, <2>1, Zenon DEF Recurs
  <2> HIDE DEF Body
  <2> QED BY <1>6, <2>2
<1> DEFINE g == CHOOSE h : h = [p \in lo .. hi |-> Body(h, p)]
<1>9. g = [p \in lo .. hi |-> Body(g, p)]
  <2> HIDE DEF Body
  <2> QED BY <1>8, Zenon
<1>10. Tokens(x) = g[1]
  BY Zenon DEF Tokens, NoToken, Start, End, lo, hi
<1> HIDE DEF g
<1>11. Cuts(g, x)
  <2>1. \A p \in lo .. hi : g[p] = Body(g, p)
    <3> HIDE DEF Body
    <3> QED BY <1>9
  <2> QED BY <2>1, Zenon DEF Cuts, lo, hi
<1>12. ASSUME NEW h, Cuts(h, x) PROVE \A p \in 1 .. Len(x) + 1 : h[p] \in Seq(Text)
  <2> DEFINE G == {p \in lo .. hi : h[p] \in V}
  <2>1. ASSUME NEW p \in lo .. hi, \A q \in p + 1 .. hi : q \in G PROVE p \in G
    <3>1. h[p] = Body(h, p)
      BY <1>12, Zenon DEF Cuts, lo, hi
    <3>2. CASE NoToken(x, p)
      <4>1. <<>> \in V
        BY EmptySeq DEF V
      <4> QED BY <3>1, <3>2, <4>1
    <3>3. CASE ~NoToken(x, p)
      <4>1. p \notin stop
        BY <3>3 DEF stop
      <4>2. next[p] = End(x, p)
        BY DEF next
      <4>3. h[End(x, p)] \in V
        BY <1>2, <2>1, <4>1, <4>2
      <4>4. step[p][h[End(x, p)]] = <<piece(p)>> \o h[End(x, p)]
        <5> HIDE DEF piece
        <5> QED BY <4>3 DEF step
      <4>5. <<piece(p)>> \o h[End(x, p)] \in V
        <5> HIDE DEF piece
        <5> QED BY <1>4, <4>1, <4>3, <4>4
      <4> QED BY <3>1, <3>3, <4>5
    <3> QED BY <3>2, <3>3
  <2> HIDE DEF G
  <2>2. \A p \in lo .. hi : p \in G
    BY <1>1, <2>1, FromTheLast
  <2> QED BY <2>2 DEF G, V, lo, hi
<1> QED BY <1>10, <1>11, <1>12

\* QuoteOpen is read from such a function, whose values are truth values.
LEMMA QuoteOpens ==
  ASSUME NEW x \in Text
  PROVE  /\ \E f : QuoteOpen(x) = f[1] /\ Opens(f, x)
         /\ QuoteOpen(x) \in BOOLEAN
<1> DEFINE lo == 1
           hi == Len(x) + 1
           V == BOOLEAN
           stop == {p \in lo .. hi : NoToken(x, p)}
           base == [p \in lo .. hi |-> IF Start(x, p) <= Len(x) THEN TRUE ELSE FALSE]
           next == [p \in lo .. hi |-> End(x, p)]
           step == [p \in lo .. hi |-> [v \in V |-> v]]
           Body(f, p) == Start(x, p) <= Len(x) /\ (End(x, p) > Len(x) + 1 \/ f[End(x, p)])
<1>1. Len(x) \in Nat /\ lo \in Nat /\ hi \in Nat
  BY LenProperties DEF Text
<1>2. \A p \in lo .. hi : p \notin stop => next[p] \in p + 1 .. hi
  BY StartEnd
<1>3. \A p \in lo .. hi : p \in stop => base[p] \in V
  BY Zenon
<1>4. \A p \in lo .. hi : p \notin stop => \A v \in V : step[p][v] \in V
  BY Zenon
<1>5. Recursion(lo, hi, V, stop, base, next, step)
  <2> HIDE DEF stop, base, next, step, V, lo, hi
  <2> QED BY <1>1, <1>2, <1>3, <1>4, Zenon DEF Recursion
<1>6. PICK f \in [lo .. hi -> V] : Recurs(f, lo, hi, stop, base, next, step)
  <2> HIDE DEF stop, base, next, step, V, lo, hi
  <2> QED BY <1>5, LaterFirst, Zenon
<1>7. \A p \in lo .. hi : f[p] = Body(f, p)
  <2>1. SUFFICES ASSUME NEW p \in lo .. hi PROVE f[p] = Body(f, p)
    OBVIOUS
  <2>2. f[p] = IF p \in stop THEN base[p] ELSE step[p][f[next[p]]]
    <3> HIDE DEF stop, base, next, step, V, lo, hi
    <3> QED BY <1>6, Zenon DEF Recurs
  <2>3. Start(x, p) <= Len(x) <=> ~(Start(x, p) > Len(x))
    BY <1>1, StartEnd
  <2>4. CASE p \in stop
    <3>1. f[p] = IF Start(x, p) <= Len(x) THEN TRUE ELSE FALSE
      BY <2>2, <2>4, Zenon
    <3>2. Start(x, p) > Len(x) \/ End(x, p) > Len(x) + 1
      BY <2>4, Zenon DEF NoToken
    <3> QED BY <2>3, <3>1, <3>2, Zenon
  <2>5. CASE p \notin stop
    <3>1. ~(Start(x, p) > Len(x)) /\ ~(End(x, p) > Len(x) + 1)
      BY <2>5, Zenon DEF NoToken
    <3>2. next[p] \in lo .. hi /\ next[p] = End(x, p)
      <4>1. next[p] \in lo .. hi
        BY <1>1, <1>2, <2>5
      <4> QED BY <4>1, Zenon
    <3>3. f[next[p]] \in V
      BY <1>6, <3>2, Zenon
    <3>4. step[p][f[next[p]]] = f[next[p]]
      BY <3>3, Zenon
    <3>5. f[p] = f[End(x, p)] /\ f[End(x, p)] \in BOOLEAN
      BY <2>2, <2>5, <3>2, <3>3, <3>4, Zenon
    <3> HIDE DEF stop, base, next, step, V, lo, hi
    <3> QED BY <2>3, <3>1, <3>5, Zenon
  <2> QED BY <2>4, <2>5, Zenon
<1> HIDE DEF stop, base, next, step, V
<1>8. f = [p \in lo .. hi |-> Body(f, p)]
  <2> HIDE DEF Body, lo, hi
  <2> QED BY <1>6, <1>7
<1> DEFINE g == CHOOSE h : h = [p \in lo .. hi |-> Body(h, p)]
<1>9. g = [p \in lo .. hi |-> Body(g, p)]
  <2> HIDE DEF Body
  <2> QED BY <1>8, Zenon
<1>10. QuoteOpen(x) = g[1]
  BY Zenon DEF QuoteOpen, Start, End, lo, hi
<1> HIDE DEF g
<1>11. \A p \in lo .. hi : g[p] = Body(g, p)
  <2> HIDE DEF Body, lo, hi
  <2> QED BY <1>9
<1>12. Opens(g, x)
  BY <1>11, Zenon DEF Opens, lo, hi
<1>13. g[1] \in BOOLEAN
  <2>1. 1 \in lo .. hi
    BY <1>1
  <2>2. g[1] = Body(g, 1)
    BY <1>11, <2>1, Zenon
  <2> QED BY <2>2, Zenon
<1> QED BY <1>10, <1>12, <1>13, Zenon

\* Only spaces are left: there is no token.
LEMMA OnlySpaces ==
  ASSUME NEW x \in Text, NEW p \in 1 .. Len(x) + 1, \A i \in p .. Len(x) : x[i] \in Space
  PROVE  Start(x, p) = Len(x) + 1 /\ NoToken(x, p)
<1>1. /\ Len(x) \in Nat
      /\ Start(x, p) \in p .. Len(x) + 1
      /\ Start(x, p) <= Len(x) => x[Start(x, p)] \notin Space
  BY StartEnd
<1>2. Start(x, p) = Len(x) + 1
  BY <1>1
<1> QED BY <1>1, <1>2 DEF NoToken

\* A semicolon that only spaces follow is a token of its own, when it is
\* in no literal left open.
LEMMA SemicolonAlone ==
  ASSUME NEW x \in Text, NEW n \in 1 .. Len(x), x[n] = Semicolon,
         \A i \in n + 1 .. Len(x) : x[i] \in Space,
         NEW s \in 1 .. n, x[s] \notin Space,
         TokenEnd(x, s) > n, TokenEnd(x, s) <= Len(x) + 1
  PROVE  s = n /\ TokenEnd(x, s) = n + 1
<1> DEFINE e == TokenEnd(x, s)
           c == ClosingQuote(x, s)
<1>1. Len(x) \in Nat /\ s \in 1 .. Len(x) /\ s \in 1 .. Len(x) + 1
  BY LenProperties DEF Text
<1>2. x[n] \notin Space /\ x[n] \notin Quote /\ x[n] \in Special /\ x[n] # "=" /\ x[n] \notin {"<", ">"}
  BY Characterised, Zenon
<1>3. x[s] \notin Quote
  <2>1. SUFFICES ASSUME x[s] \in Quote PROVE FALSE
    OBVIOUS
  <2>2. e = c + 1
    BY <2>1, TokenEnds, Zenon
  <2>3. c \in s + 1 .. Len(x) + 2 /\ (c <= Len(x) => x[c] = x[s])
    BY <1>1, ClosingQuoteRange
  <2> HIDE DEF c, e
  <2>4. c \in n .. Len(x) /\ x[c] = x[s]
    BY <1>1, <2>2, <2>3 DEF e
  <2>5. x[c] \notin Space
    BY <2>1, <2>4
  <2>6. c = n
    BY <1>1, <2>4, <2>5
  <2> QED BY <1>2, <2>1, <2>4, <2>6
<1>4. CASE x[s] \in Special
  <2>1. e = IF Doubled(x, s) THEN s + 2 ELSE s + 1
    BY <1>4, TokenEnds, Zenon
  <2>2. ~Doubled(x, s)
    <3>1. SUFFICES ASSUME Doubled(x, s) PROVE FALSE
      OBVIOUS
    <3>2. e = s + 2 /\ x[s] \in {"<", ">"} /\ x[s + 1] = "="
      BY <2>1, <3>1, Zenon DEF Doubled
    <3> DEFINE lt == {"<", ">"}
               eq == "="
    <3>3. x[s] \in lt /\ x[s + 1] = eq /\ x[n] # eq /\ x[n] \notin lt
      BY <1>2, <3>2, Zenon
    <3>4. e = s + 2
      BY <3>2, Zenon
    <3> HIDE DEF lt, eq, e
    <3>5. n = s \/ n = s + 1
      BY <3>4 DEF e
    <3> QED BY <3>3, <3>5
  <2>3. e = s + 1
    BY <2>1, <2>2, Zenon
  <2> QED BY <2>3
<1>5. CASE x[s] \notin Quote /\ x[s] \notin Special
  <2>1. e = SkipWhile(x, s, Wordly(x))
    BY <1>5, TokenEnds, Zenon
  <2>2. \A i \in s .. SkipWhile(x, s, Wordly(x)) - 1 : x[i] \in Wordly(x)
    BY <1>1, SkipTo
  <2> HIDE DEF e
  <2>3. n \in s .. e - 1 /\ e \in Int
    <3>1. e \in Int
      BY <1>1, <2>1, SkipTo
    <3> QED BY <3>1 DEF e
  <2>4. x[n] \in Wordly(x)
    BY <2>1, <2>2, <2>3
  <2>5. FALSE
    BY <1>2, <2>4, Zenon DEF Wordly
  <2> QED BY <2>5
<1> QED BY <1>3, <1>4, <1>5, Zenon

\* The last of two sequences joined, when the second has one.
LEMMA LastOfJoined ==
  ASSUME NEW S, NEW a \in Seq(S), NEW b \in Seq(S)
  PROVE  /\ b # <<>> => a \o b # <<>> /\ (a \o b)[Len(a \o b)] = b[Len(b)]
         /\ b = <<>> => a \o b = a
<1>1. /\ Len(a) \in Nat /\ Len(b) \in Nat /\ Len(a \o b) = Len(a) + Len(b)
      /\ \A i \in 1 .. Len(a) + Len(b) : (a \o b)[i] = IF i <= Len(a) THEN a[i] ELSE b[i - Len(a)]
      /\ b # <<>> => Len(b) >= 1
      /\ Len(<<>>) = 0
  BY ConcatProperties, LenProperties, EmptySeq
<1>2. ASSUME b # <<>> PROVE a \o b # <<>> /\ (a \o b)[Len(a \o b)] = b[Len(b)]
  <2> DEFINE n == Len(a) + Len(b)
             ab == a \o b
  <2>1. n \in 1 .. n /\ ~(n <= Len(a)) /\ n - Len(a) = Len(b) /\ n # 0
    BY <1>1, <1>2
  <2>2. Len(ab) = n /\ ab[n] = b[n - Len(a)]
    BY <1>1, <2>1
  <2> HIDE DEF n, ab
  <2> QED BY <1>1, <2>1, <2>2 DEF ab
<1>3. b = <<>> => a \o b = a
  BY ConcatEmptySeq
<1> QED BY <1>2, <1>3

\* is_command_complete and the tokenizer agree: where a semicolon is the last
\* character but for spaces, it is the last token, or a quote is open.
LEMMA LastTokenIsSemicolon ==
  ASSUME NEW x \in Text, NEW n \in 1 .. Len(x), x[n] = Semicolon,
         \A i \in n + 1 .. Len(x) : x[i] \in Space, ~QuoteOpen(x)
  PROVE  Tokens(x)[Len(Tokens(x))] = <<Semicolon>>
<1> DEFINE hi == Len(x) + 1
<1>1. Len(x) \in Nat /\ hi \in Nat /\ 1 \in Nat
  BY LenProperties DEF Text
<1>2. PICK f : Tokens(x) = f[1] /\ Cuts(f, x)
  BY TokensCut
<1>3. PICK o : QuoteOpen(x) = o[1] /\ Opens(o, x)
  BY QuoteOpens
<1>4. \A p \in 1 .. hi : f[p] \in Seq(Text)
  BY <1>2, TokensCut
<1> DEFINE Fine(p) == f[p] # <<>> /\ f[p][Len(f[p])] = <<Semicolon>>
           G == {p \in 1 .. hi : p <= n /\ ~o[p] => Fine(p)}
<1> HIDE DEF hi
<1>5. ASSUME NEW p \in 1 .. hi, \A q \in p + 1 .. hi : q \in G PROVE p \in G
  <2>1. SUFFICES ASSUME p <= n, ~o[p] PROVE Fine(p)
    OBVIOUS
  <2> HIDE DEF Fine
  <2> DEFINE s == Start(x, p)
             e == End(x, p)
             piece == SubSeq(x, s, e - 1)
  <2>2. p \in 1 .. Len(x) + 1
    BY DEF hi
  <2>3. /\ s \in p .. Len(x) + 1
        /\ \A i \in p .. s - 1 : x[i] \in Space
        /\ s <= Len(x) => s \in 1 .. Len(x) /\ x[s] \notin Space /\ e \in s + 1 .. Len(x) + 3
    BY <2>2, StartEnd
  <2>4. s \in 1 .. n /\ x[s] \notin Space /\ s <= Len(x) /\ e \in s + 1 .. Len(x) + 3
    <3>1. x[n] \notin Space
      BY Characterised
    <3> HIDE DEF s, e
    <3> QED BY <1>1, <2>1, <2>3, <3>1
  <2>5. o[p] = (s <= Len(x) /\ (e > Len(x) + 1 \/ o[e]))
    BY <1>3, <2>2, Zenon DEF Opens
  <2>6. ~(e > Len(x) + 1) /\ ~o[e]
    BY <2>1, <2>4, <2>5, Zenon
  <2>7. e \in p + 1 .. hi /\ e <= Len(x) + 1
    <3> HIDE DEF s, e
    <3> QED BY <1>1, <2>3, <2>4, <2>6 DEF hi
  <2>8. ~NoToken(x, p)
    <3>1. ~(s > Len(x))
      <4> HIDE DEF s, e
      <4> QED BY <1>1, <2>4
    <3> QED BY <2>6, <3>1, Zenon DEF NoToken
  <2>9. f[p] = <<piece>> \o f[e]
    BY <1>2, <2>2, <2>8, Zenon DEF Cuts
  <2>10. piece \in Text /\ <<piece>> \in Seq(Text) /\ f[e] \in Seq(Text)
    <3>1. s \in 1 .. Len(x) + 1 /\ e - 1 \in 0 .. Len(x) /\ e \in 1 .. hi
      <4> HIDE DEF s, e
      <4> QED BY <1>1, <2>4, <2>7 DEF hi
    <3>2. piece \in Text
      BY <3>1, PieceOfText
    <3> HIDE DEF piece
    <3> QED BY <1>4, <3>1, <3>2
  <2>11. CASE e <= n
    <3>1. Fine(e)
      BY <1>5, <2>6, <2>7, <2>11
    <3> HIDE DEF piece, e
    <3>2. f[e] # <<>> /\ f[e][Len(f[e])] = <<Semicolon>>
      BY <3>1, Zenon DEF Fine
    <3>3. <<piece>> \o f[e] # <<>> /\ (<<piece>> \o f[e])[Len(<<piece>> \o f[e])] = f[e][Len(f[e])]
      BY <2>10, <3>2, LastOfJoined
    <3> QED BY <2>9, <3>2, <3>3, Zenon DEF Fine
  <2>12. CASE e > n
    <3>1. TokenEnd(x, s) = e
      BY Zenon DEF End
    <3>2. s = n /\ e = n + 1
      <4> HIDE DEF s, e
      <4> QED BY <2>4, <2>7, <2>12, <3>1, SemicolonAlone
    <3>3. NoToken(x, e)
      <4>1. \A i \in e .. Len(x) : x[i] \in Space
        BY <3>2
      <4>2. e \in 1 .. Len(x) + 1
        BY <1>1, <3>2
      <4> QED BY <4>1, <4>2, OnlySpaces
    <3>4. f[e] = <<>>
      <4>1. e \in 1 .. Len(x) + 1
        BY <1>1, <3>2
      <4> QED BY <1>2, <3>3, <4>1, Zenon DEF Cuts
    <3>5. piece = <<Semicolon>>
      <4>1. piece = SubSeq(x, n, n)
        <5> HIDE DEF s, e
        <5> QED BY <3>2
      <4>2. SubSeq(x, n, n) = <<x[n]>>
        BY OneElement DEF Text
      <4> QED BY <4>1, <4>2, Zenon
    <3> HIDE DEF piece, e
    <3>6. <<piece>> \o f[e] = <<piece>>
      BY <2>10, <3>4, LastOfJoined
    <3>7. f[p] = <<piece>>
      BY <2>9, <3>6
    <3>8. <<piece>> # <<>> /\ <<piece>>[Len(<<piece>>)] = piece
      OBVIOUS
    <3> QED BY <3>5, <3>7, <3>8, Zenon DEF Fine
  <2>13. e \in Int /\ n \in Int
    BY <2>7
  <2> HIDE DEF e
  <2> QED BY <2>11, <2>12, <2>13
<1> HIDE DEF G, Fine
<1>6. \A p \in 1 .. hi : p \in G
  BY <1>1, <1>5, FromTheLast
<1>7. 1 \in G /\ 1 <= n
  BY <1>1, <1>6 DEF hi
<1>8. ~o[1]
  BY <1>3, Zenon
<1>9. Fine(1)
  BY <1>7, <1>8 DEF G
<1> QED BY <1>2, <1>9, Zenon DEF Fine

-----------------------------------------------------------------------------
(* A statement handed on is complete.                                      *)

\* Nothing is handed on, or was executed, that is_command_complete refused.
CompleteOnes ==
  /\ at = "complete" => Complete(statement)
  /\ \A i \in DOMAIN executed : Complete(executed[i])

\* Every step hands complete statements on.
LEMMA NextKeepsComplete ==
  ReplTypes /\ CompleteOnes /\ [Next]_vars => CompleteOnes'
<1> SUFFICES ASSUME ReplTypes, CompleteOnes, [Next]_vars PROVE CompleteOnes'
  OBVIOUS
<1>1. ASSUME NEW line \in Lines, NEW ending \in {<<NL>>, <<>>}, Type(line, ending)
      PROVE  CompleteOnes'
  <2>1. at' = at /\ statement' = statement /\ executed' = executed
    BY <1>1, Zenon DEF Type
  <2> QED BY <2>1, Zenon DEF CompleteOnes, Complete
<1>2. CASE ReadLine
  <2>1. executed' = executed /\ (at' = "complete" => Complete(statement'))
    <3> DEFINE whole == Joined(WithoutNewline(Chunk))
    <3>1. /\ executed' = executed /\ statement' = whole
          /\ at' = IF Complete(whole) THEN "complete" ELSE "prompt"
      BY <1>2, Zenon DEF ReadLine
    <3> HIDE DEF whole
    <3>2. at' = "complete" => Complete(whole)
      BY <3>1
    <3> QED BY <3>1, <3>2, Zenon
  <2> QED BY <2>1, Zenon DEF CompleteOnes, Complete
<1>3. CASE Handle
  <2> DEFINE n == Len(executed)
             next == Append(executed, statement)
  <2>1. at = "complete" /\ at' = "prompt" /\ executed' = next
    BY <1>3, Zenon DEF Handle
  <2>2. /\ next \in Seq(Text) /\ Len(next) = n + 1 /\ n \in Nat
        /\ DOMAIN next = 1 .. n + 1 /\ DOMAIN executed = 1 .. n
        /\ \A i \in 1 .. n : next[i] = executed[i]
        /\ next[n + 1] = statement
    BY AppendProperties, LenProperties DEF ReplTypes
  <2>3. Complete(statement) /\ \A i \in 1 .. n : Complete(executed[i])
    BY <2>1, <2>2, Zenon DEF CompleteOnes
  <2> HIDE DEF n, next
  <2>4. \A i \in 1 .. n + 1 : Complete(next[i])
    BY <2>2, <2>3
  <2>5. \A i \in DOMAIN executed' : Complete(executed'[i])
    BY <2>1, <2>2, <2>4, Zenon
  <2>6. at' # "complete"
    BY <2>1
  <2> QED BY <2>5, <2>6, Zenon DEF CompleteOnes, Complete
<1>4. CASE EndOfInput \/ Quit \/ Close \/ Interrupted
  <2>1. at' # "complete" /\ executed' = executed
    BY <1>4 DEF EndOfInput, Quit, Close, Interrupted
  <2> QED BY <2>1, Zenon DEF CompleteOnes, Complete
<1>5. CASE UNCHANGED vars
  <2>1. at' = at /\ statement' = statement /\ executed' = executed
    BY <1>5, Zenon DEF vars
  <2> QED BY <2>1, Zenon DEF CompleteOnes, Complete
<1> QED BY <1>1, <1>2, <1>3, <1>4, <1>5 DEF Next, Program

\* Nothing was executed yet.
LEMMA InitComplete == Init => CompleteOnes
<1> SUFFICES ASSUME Init PROVE CompleteOnes
  OBVIOUS
<1>1. at # "complete" /\ executed = <<>>
  BY DEF Init
<1>2. DOMAIN executed = {}
  BY <1>1
<1> QED BY <1>1, <1>2, Zenon DEF CompleteOnes

\* is_command_complete (repl.c:66) and the tokenizer agree: the text of a
\* statement ends with a semicolon the parser sees as one, or a quote is open.
THEOREM SemicolonEndsStatement == Spec => []EndsWithSemicolon
<1>1. ReplTypes /\ CompleteOnes => EndsWithSemicolon
  <2> SUFFICES ASSUME ReplTypes, CompleteOnes, NEW i \in DOMAIN executed
               PROVE  LET x == executed[i] IN
                        x[1] = "." \/ QuoteOpen(x) \/ Tokens(x)[Len(Tokens(x))] = <<";">>
    BY Zenon DEF EndsWithSemicolon
  <2> DEFINE x == executed[i]
  <2>1. x \in Text
    BY LenProperties, ElementOfSeq DEF ReplTypes
  <2>2. x[1] = "." \/ \E n \in DOMAIN x : x[n] = Semicolon /\ \A j \in n + 1 .. Len(x) : x[j] \in Space
    BY Zenon DEF CompleteOnes, Complete, Semicolon
  <2>3. DOMAIN x = 1 .. Len(x)
    BY <2>1, LenProperties DEF Text
  <2> HIDE DEF x
  <2>4. ASSUME NEW n \in DOMAIN x, x[n] = Semicolon, \A j \in n + 1 .. Len(x) : x[j] \in Space,
               ~QuoteOpen(x)
        PROVE  Tokens(x)[Len(Tokens(x))] = <<Semicolon>>
    BY <2>1, <2>3, <2>4, LastTokenIsSemicolon
  <2> QED BY <2>2, <2>4, Zenon DEF x, Semicolon
<1> QED BY <1>1, InitReadsAll, NextReadsAll, InitComplete, NextKeepsComplete, PTL DEF Spec

-----------------------------------------------------------------------------
(* Two texts joined: the tokens of the second.                             *)

\* What SkipTo says is said of one position only.
LEMMA SkipIs ==
  ASSUME NEW x \in Text, NEW p \in 1 .. Len(x) + 1, NEW S, NEW e \in p .. Len(x) + 1,
         \A i \in p .. e - 1 : x[i] \in S,
         e <= Len(x) => x[e] \notin S
  PROVE  SkipWhile(x, p, S) = e
<1> DEFINE d == SkipWhile(x, p, S)
<1>1. Len(x) \in Nat
  BY LenProperties DEF Text
<1>2. /\ d \in p .. Len(x) + 1
      /\ \A i \in p .. d - 1 : x[i] \in S
      /\ d <= Len(x) => x[d] \notin S
  BY SkipTo
<1> HIDE DEF d
<1>3. ~(d < e)
  <2>1. SUFFICES ASSUME d < e PROVE FALSE
    OBVIOUS
  <2>2. d \in p .. e - 1 /\ d <= Len(x)
    BY <1>1, <1>2, <2>1
  <2> QED BY <1>2, <2>2
<1>4. ~(e < d)
  <2>1. SUFFICES ASSUME e < d PROVE FALSE
    OBVIOUS
  <2>2. e \in p .. d - 1 /\ e <= Len(x)
    BY <1>1, <1>2, <2>1
  <2> QED BY <1>2, <2>2
<1> QED BY <1>1, <1>2, <1>3, <1>4 DEF d

\* z is x and y behind it.
Both(z, x, y) ==
  /\ x \in Text /\ y \in Text /\ z \in Text
  /\ Len(x) \in Nat /\ Len(y) \in Nat /\ Len(z) = Len(x) + Len(y)
  /\ \A i \in 1 .. Len(x) : z[i] = x[i]
  /\ \A i \in 1 .. Len(y) : z[Len(x) + i] = y[i]

\* Joining is that.
LEMMA JoinedBoth ==
  ASSUME NEW x \in Text, NEW y \in Text
  PROVE  Both(x \o y, x, y)
<1> DEFINE z == x \o y
<1>1. /\ z \in Text /\ Len(x) \in Nat /\ Len(y) \in Nat /\ Len(z) = Len(x) + Len(y)
      /\ \A i \in 1 .. Len(x) + Len(y) : z[i] = IF i <= Len(x) THEN x[i] ELSE y[i - Len(x)]
  BY ConcatProperties, LenProperties DEF Text
<1> HIDE DEF z
<1>2. \A i \in 1 .. Len(x) : z[i] = x[i]
  BY <1>1
<1>3. \A i \in 1 .. Len(y) : z[Len(x) + i] = y[i]
  <2>1. SUFFICES ASSUME NEW i \in 1 .. Len(y) PROVE z[Len(x) + i] = y[i]
    OBVIOUS
  <2> DEFINE k == Len(x) + i
  <2>2. k \in 1 .. Len(x) + Len(y) /\ ~(k <= Len(x)) /\ k - Len(x) = i
    BY <1>1
  <2> HIDE DEF k
  <2> QED BY <1>1, <2>2 DEF k
<1> QED BY <1>1, <1>2, <1>3 DEF Both, z

\* Skipping in y is skipping in z behind x.
LEMMA SkipBehind ==
  ASSUME NEW x, NEW y, NEW z, Both(z, x, y), NEW p \in 1 .. Len(y) + 1, NEW A, NEW B,
         \A i \in 1 .. Len(y) : y[i] \in A <=> y[i] \in B
  PROVE  SkipWhile(z, Len(x) + p, A) = Len(x) + SkipWhile(y, p, B)
<1> DEFINE m == Len(x)
           e == SkipWhile(y, p, B)
<1>1. /\ y \in Text /\ z \in Text /\ m \in Nat /\ Len(y) \in Nat /\ Len(z) = m + Len(y)
      /\ \A i \in 1 .. Len(y) : z[m + i] = y[i]
  BY DEF Both
<1>2. /\ e \in p .. Len(y) + 1
      /\ \A i \in p .. e - 1 : y[i] \in B
      /\ e <= Len(y) => y[e] \notin B
  BY <1>1, SkipTo
<1> HIDE DEF m, e
<1>3. m + p \in 1 .. Len(z) + 1 /\ m + e \in m + p .. Len(z) + 1
  BY <1>1, <1>2
<1>4. \A i \in m + p .. (m + e) - 1 : z[i] \in A
  <2>1. SUFFICES ASSUME NEW i \in m + p .. (m + e) - 1 PROVE z[i] \in A
    OBVIOUS
  <2> DEFINE j == i - m
  <2>2. j \in p .. e - 1 /\ j \in 1 .. Len(y) /\ i = m + j
    BY <1>1, <1>2
  <2> HIDE DEF j
  <2> QED BY <1>1, <1>2, <2>2
<1>5. m + e <= Len(z) => z[m + e] \notin A
  <2>1. SUFFICES ASSUME m + e <= Len(z) PROVE z[m + e] \notin A
    OBVIOUS
  <2>2. e \in 1 .. Len(y) /\ e <= Len(y)
    BY <1>1, <1>2, <2>1
  <2> QED BY <1>1, <1>2, <2>2
<1>6. SkipWhile(z, m + p, A) = m + e
  BY <1>1, <1>3, <1>4, <1>5, SkipIs
<1> QED BY <1>6 DEF m, e

\* A quote that opens in y is closed, or not, where it is in z behind x.
LEMMA ClosingBehind ==
  ASSUME NEW x, NEW y, NEW z, Both(z, x, y), NEW p \in 1 .. Len(y)
  PROVE  ClosingQuote(z, Len(x) + p) = Len(x) + ClosingQuote(y, p)
<1> DEFINE m == Len(x)
           hi == Len(y) + 2
<1>1. /\ y \in Text /\ z \in Text /\ m \in Nat /\ Len(y) \in Nat /\ Len(z) = m + Len(y)
      /\ \A i \in 1 .. Len(y) : z[m + i] = y[i]
  BY DEF Both
<1> HIDE DEF m
<1>2. PICK f : ClosingQuote(y, p) = f[p + 1] /\ Closes(f, y, p)
  BY <1>1, ClosingQuoteCloses
<1>3. PICK g : ClosingQuote(z, m + p) = g[(m + p) + 1] /\ Closes(g, z, m + p)
  <2>1. m + p \in 1 .. Len(z)
    BY <1>1
  <2> QED BY <1>1, <2>1, ClosingQuoteCloses
<1>4. z[m + p] = y[p]
  BY <1>1
<1> DEFINE G == {i \in p + 1 .. hi : g[m + i] = m + f[i]}
<1>5. \A i \in p + 1 .. hi : f[i] \in Int
  BY <1>1, <1>2, ClosingQuoteRange
<1>6. ASSUME NEW i \in p + 1 .. hi, \A j \in i + 1 .. hi : j \in G PROVE i \in G
  <2> DEFINE k == m + i
  <2>1. /\ f[i] = IF i > Len(y) \/ y[i] = y[p] THEN i
                  ELSE IF y[i] = Backslash /\ i < Len(y) THEN f[i + 2] ELSE f[i + 1]
        /\ g[k] = IF k > Len(z) \/ z[k] = z[m + p] THEN k
                  ELSE IF z[k] = Backslash /\ k < Len(z) THEN g[k + 2] ELSE g[k + 1]
    <3>1. k \in (m + p) + 1 .. Len(z) + 2
      BY <1>1
    <3> HIDE DEF k
    <3> QED BY <1>2, <1>3, <3>1, Zenon DEF Closes
  <2>2. (k > Len(z) <=> i > Len(y)) /\ (k < Len(z) <=> i < Len(y)) /\ k + 2 = m + (i + 2) /\ k + 1 = m + (i + 1)
    BY <1>1
  <2>3. CASE i > Len(y)
    <3>1. f[i] = i /\ g[k] = k
      BY <2>1, <2>2, <2>3, Zenon
    <3> QED BY <3>1
  <2>4. CASE ~(i > Len(y))
    <3>1. z[k] = y[i] /\ z[m + p] = y[p] /\ i \in 1 .. Len(y)
      BY <1>1, <1>4, <2>4
    <3>2. i + 1 \in i + 1 .. hi /\ i + 2 \in i + 1 .. hi
      BY <1>1, <2>4
    <3>3. g[k + 1] = m + f[i + 1] /\ g[k + 2] = m + f[i + 2]
      BY <1>6, <2>2, <3>2
    <3>4. ~(k > Len(z))
      BY <2>2, <2>4
    <3>5. CASE y[i] = y[p]
      <4>1. f[i] = i /\ g[k] = k
        BY <2>1, <3>1, <3>5, Zenon
      <4> QED BY <4>1
    <3>6. CASE y[i] # y[p] /\ y[i] = Backslash /\ i < Len(y)
      <4>1. f[i] = f[i + 2] /\ g[k] = g[k + 2]
        BY <2>1, <2>2, <2>4, <3>1, <3>4, <3>6, Zenon
      <4> QED BY <3>3, <4>1
    <3>7. CASE y[i] # y[p] /\ ~(y[i] = Backslash /\ i < Len(y))
      <4>1. f[i] = f[i + 1] /\ g[k] = g[k + 1]
        BY <2>1, <2>2, <2>4, <3>1, <3>4, <3>7, Zenon
      <4> QED BY <3>3, <4>1
    <3> QED BY <3>5, <3>6, <3>7
  <2> QED BY <2>3, <2>4
<1> HIDE DEF G
<1>7. \A i \in p + 1 .. hi : i \in G
  <2>1. p + 1 \in Nat /\ hi \in Nat
    BY <1>1
  <2> HIDE DEF hi
  <2> QED BY <1>6, <2>1, FromTheLast
<1>8. p + 1 \in G
  BY <1>1, <1>7
<1>9. g[m + (p + 1)] = m + f[p + 1] /\ m + (p + 1) = (m + p) + 1
  BY <1>1, <1>8 DEF G
<1> QED BY <1>2, <1>3, <1>9 DEF m

\* A token of y ends where it does in z behind x.
LEMMA TokenEndBehind ==
  ASSUME NEW x, NEW y, NEW z, Both(z, x, y), NEW p \in 1 .. Len(y)
  PROVE  TokenEnd(z, Len(x) + p) = Len(x) + TokenEnd(y, p)
<1> DEFINE m == Len(x)
           k == m + p
<1>1. /\ y \in Text /\ z \in Text /\ m \in Nat /\ Len(y) \in Nat /\ Len(z) = m + Len(y)
      /\ \A i \in 1 .. Len(y) : z[m + i] = y[i]
  BY DEF Both
<1>2. z[k] = y[p] /\ k \in Nat
  BY <1>1
<1>3. CASE y[p] \in Quote
  <2>1. ClosingQuote(z, k) = m + ClosingQuote(y, p)
    BY ClosingBehind
  <2>2. TokenEnd(z, k) = ClosingQuote(z, k) + 1 /\ TokenEnd(y, p) = ClosingQuote(y, p) + 1
    <3> HIDE DEF k
    <3> QED BY <1>2, <1>3, TokenEnds, Zenon
  <2>3. ClosingQuote(y, p) \in Int
    BY <1>1, ClosingQuoteRange
  <2> HIDE DEF k, m
  <2> QED BY <1>1, <2>1, <2>2, <2>3 DEF k, m
<1>4. CASE y[p] \in Special
  <2>1. Doubled(z, k) <=> Doubled(y, p)
    <3>1. k < Len(z) <=> p < Len(y)
      BY <1>1
    <3>2. p < Len(y) => z[k + 1] = y[p + 1]
      <4>1. k + 1 = m + (p + 1)
        BY <1>1
      <4>2. p < Len(y) => p + 1 \in 1 .. Len(y)
        BY <1>1
      <4> HIDE DEF k, m
      <4> QED BY <1>1, <4>1, <4>2
    <3> HIDE DEF k
    <3> QED BY <1>2, <3>1, <3>2, Zenon DEF Doubled
  <2>2. /\ TokenEnd(z, k) = IF Doubled(z, k) THEN k + 2 ELSE k + 1
        /\ TokenEnd(y, p) = IF Doubled(y, p) THEN p + 2 ELSE p + 1
    <3> HIDE DEF k
    <3> QED BY <1>2, <1>4, TokenEnds, Zenon
  <2>3. k + 2 = m + (p + 2) /\ k + 1 = m + (p + 1)
    BY <1>1
  <2> HIDE DEF k
  <2>4. TokenEnd(z, k) = m + TokenEnd(y, p)
    BY <2>1, <2>2, <2>3, Zenon
  <2> QED BY <2>4 DEF k
<1>5. CASE y[p] \notin Quote /\ y[p] \notin Special
  <2>1. \A i \in 1 .. Len(y) : y[i] \in Wordly(z) <=> y[i] \in Wordly(y)
    <3>1. SUFFICES ASSUME NEW i \in 1 .. Len(y) PROVE y[i] \in Wordly(z) <=> y[i] \in Wordly(y)
      OBVIOUS
    <3>2. y[i] \in ToSet(y)
      BY <1>1, InSequence DEF Text
    <3>3. m + i \in 1 .. Len(z) /\ z[m + i] = y[i]
      BY <1>1
    <3>4. y[i] \in ToSet(z)
      <4>1. z[m + i] \in ToSet(z)
        BY <1>1, <3>3, InSequence DEF Text
      <4> QED BY <3>3, <4>1
    <3> QED BY <3>2, <3>4, Zenon DEF Wordly
  <2>2. p \in 1 .. Len(y) + 1
    BY <1>1
  <2>3. SkipWhile(z, k, Wordly(z)) = m + SkipWhile(y, p, Wordly(y))
    BY <2>1, <2>2, SkipBehind
  <2>4. TokenEnd(z, k) = SkipWhile(z, k, Wordly(z)) /\ TokenEnd(y, p) = SkipWhile(y, p, Wordly(y))
    <3> HIDE DEF k
    <3> QED BY <1>2, <1>5, TokenEnds, Zenon
  <2> QED BY <2>3, <2>4
<1> QED BY <1>3, <1>4, <1>5, Zenon

\* Tokens of y start and end where they do in z behind x.
LEMMA StartEndBehind ==
  ASSUME NEW x, NEW y, NEW z, Both(z, x, y), NEW p \in 1 .. Len(y) + 1
  PROVE  /\ Start(z, Len(x) + p) = Len(x) + Start(y, p)
         /\ Start(y, p) <= Len(y) => End(z, Len(x) + p) = Len(x) + End(y, p)
         /\ NoToken(z, Len(x) + p) <=> NoToken(y, p)
<1> DEFINE m == Len(x)
           s == Start(y, p)
           e == End(y, p)
<1>1. /\ y \in Text /\ z \in Text /\ m \in Nat /\ Len(y) \in Nat /\ Len(z) = m + Len(y)
  BY DEF Both
<1>2. Start(z, m + p) = m + s
  BY SkipBehind DEF Start
<1>3. s \in p .. Len(y) + 1 /\ (s <= Len(y) => s \in 1 .. Len(y) /\ e \in s + 1 .. Len(y) + 3)
  BY <1>1, StartEnd
<1>4. s <= Len(y) => End(z, m + p) = m + e
  <2>1. End(z, m + p) = TokenEnd(z, m + s) /\ e = TokenEnd(y, s)
    BY <1>2, Zenon DEF End
  <2> HIDE DEF s, e, m
  <2> QED BY <1>3, <2>1, TokenEndBehind DEF m
<1>5. NoToken(z, m + p) <=> NoToken(y, p)
  <2>1. /\ NoToken(z, m + p) <=> Start(z, m + p) > Len(z) \/ End(z, m + p) > Len(z) + 1
        /\ NoToken(y, p) <=> s > Len(y) \/ e > Len(y) + 1
    BY Zenon DEF NoToken
  <2> HIDE DEF s, e, m
  <2> QED BY <1>1, <1>2, <1>3, <1>4, <2>1
<1> QED BY <1>2, <1>4, <1>5

\* A piece of y is a piece of z.
LEMMA PieceBehind ==
  ASSUME NEW x, NEW y, NEW z, Both(z, x, y), NEW i \in 1 .. Len(y), NEW j \in i .. Len(y)
  PROVE  SubSeq(z, Len(x) + i, Len(x) + j) = SubSeq(y, i, j)
<1> DEFINE m == Len(x)
           a == SubSeq(z, m + i, m + j)
           b == SubSeq(y, i, j)
<1>1. /\ m \in Nat /\ Len(y) \in Nat /\ Len(z) = m + Len(y)
      /\ \A k \in 1 .. Len(y) : z[m + k] = y[k]
      /\ \A k \in 1 .. Len(y) : y[k] \in Chars
      /\ \A k \in 1 .. Len(z) : z[k] \in Chars
  BY ElementOfSeq DEF Both, Text
<1> HIDE DEF m
<1>2. \A k \in m + i .. m + j : z[k] \in Chars
  BY <1>1
<1>3. \A k \in i .. j : y[k] \in Chars
  BY <1>1
<1>4. /\ a \in Text /\ Len(a) = j - i + 1
      /\ \A k \in 1 .. (m + j) - (m + i) + 1 : a[k] = z[m + i + k - 1]
  <2>1. m + i \in Int /\ m + j \in Int /\ m + i <= m + j /\ (m + j) - (m + i) + 1 = j - i + 1
    BY <1>1
  <2> QED BY <1>2, <2>1, SubSeqProperties, SMTT(60) DEF Text
<1>5. /\ b \in Text /\ Len(b) = j - i + 1
      /\ \A k \in 1 .. j - i + 1 : b[k] = y[i + k - 1]
  <2>1. i \in Int /\ j \in Int /\ i <= j
    OBVIOUS
  <2> QED BY <1>3, <2>1, SubSeqProperties DEF Text
<1> HIDE DEF a, b
<1>6. \A k \in 1 .. Len(a) : a[k] = b[k]
  <2>1. SUFFICES ASSUME NEW k \in 1 .. j - i + 1 PROVE a[k] = b[k]
    BY <1>4
  <2> DEFINE n == i + k - 1
  <2>2. n \in 1 .. Len(y) /\ m + i + k - 1 = m + n /\ (m + j) - (m + i) + 1 = j - i + 1
    BY <1>1
  <2> HIDE DEF n
  <2> QED BY <1>1, <1>4, <1>5, <2>2 DEF n
<1> QED BY <1>4, <1>5, <1>6, SeqEqual DEF Text, a, b, m

\* The tokens of y are those of z from behind x on, and a quote is left open
\* in both or in none.
LEMMA TokensBehind ==
  ASSUME NEW x, NEW y, NEW z, Both(z, x, y),
         NEW f, Cuts(f, y), NEW g, Cuts(g, z), NEW o, Opens(o, y), NEW q, Opens(q, z)
  PROVE  g[Len(x) + 1] = f[1] /\ (q[Len(x) + 1] <=> o[1])
<1> DEFINE m == Len(x)
           hi == Len(y) + 1
           G == {p \in 1 .. hi : g[m + p] = f[p] /\ (q[m + p] <=> o[p])}
<1>1. /\ y \in Text /\ z \in Text /\ m \in Nat /\ Len(y) \in Nat /\ Len(z) = m + Len(y)
      /\ \A i \in 1 .. Len(y) : z[m + i] = y[i]
      /\ x \in Text /\ hi \in Nat
  BY DEF Both
<1> HIDE DEF m
<1>2. ASSUME NEW p \in 1 .. hi, \A j \in p + 1 .. hi : j \in G PROVE p \in G
  <2> DEFINE k == m + p
             s == Start(y, p)
             e == End(y, p)
  <2>0. k \in 1 .. Len(z) + 1 /\ p \in 1 .. Len(y) + 1
    BY <1>1
  <2>1. /\ Start(z, k) = m + s
        /\ s <= Len(y) => End(z, k) = m + e
        /\ NoToken(z, k) <=> NoToken(y, p)
    BY <2>0, StartEndBehind DEF m
  <2>2. /\ s \in p .. Len(y) + 1
        /\ s <= Len(y) => s \in 1 .. Len(y) /\ e \in s + 1 .. Len(y) + 3
        /\ ~NoToken(y, p) => e \in p + 1 .. Len(y) + 1 /\ s \in p .. e - 1
    BY <1>1, <2>0, StartEnd
  <2>3. /\ f[p] = IF NoToken(y, p) THEN <<>> ELSE <<SubSeq(y, s, e - 1)>> \o f[e]
        /\ g[k] = IF NoToken(z, k) THEN <<>> ELSE <<SubSeq(z, Start(z, k), End(z, k) - 1)>> \o g[End(z, k)]
        /\ o[p] = (s <= Len(y) /\ (e > Len(y) + 1 \/ o[e]))
        /\ q[k] = (Start(z, k) <= Len(z) /\ (End(z, k) > Len(z) + 1 \/ q[End(z, k)]))
    <3> HIDE DEF k
    <3> QED BY <2>0, Zenon DEF Cuts, Opens
  <2>4. Start(z, k) <= Len(z) <=> s <= Len(y)
    <3> HIDE DEF s, e, k
    <3> QED BY <1>1, <2>1, <2>2
  <2>5. s <= Len(y) => (End(z, k) > Len(z) + 1 <=> e > Len(y) + 1)
    <3> HIDE DEF s, e, k
    <3> QED BY <1>1, <2>1, <2>2
  <2>6. s <= Len(y) /\ ~(e > Len(y) + 1) => e \in p + 1 .. hi /\ ~NoToken(y, p)
    <3>1. ~(s > Len(y)) /\ ~(e > Len(y) + 1) => ~NoToken(y, p)
      BY Zenon DEF NoToken
    <3> HIDE DEF s, e, k
    <3> QED BY <1>1, <2>2, <3>1
  <2>7. s <= Len(y) /\ ~(e > Len(y) + 1) => g[m + e] = f[e] /\ (q[m + e] <=> o[e])
    <3> HIDE DEF s, e, k
    <3> QED BY <1>2, <2>6
  <2>8. q[k] <=> o[p]
    <3> HIDE DEF s, e, k
    <3>1. CASE s <= Len(y) /\ ~(e > Len(y) + 1)
      <4>1. End(z, k) = m + e /\ ~(End(z, k) > Len(z) + 1)
        BY <2>1, <2>5, <3>1, Zenon
      <4>2. (q[k] <=> q[m + e]) /\ (o[p] <=> o[e])
        BY <2>3, <2>4, <3>1, <4>1, Zenon
      <4> QED BY <2>7, <3>1, <4>2, Zenon
    <3>2. CASE ~(s <= Len(y))
      BY <2>3, <2>4, <3>2, Zenon
    <3>3. CASE s <= Len(y) /\ e > Len(y) + 1
      BY <2>3, <2>4, <2>5, <3>3, Zenon
    <3> QED BY <3>1, <3>2, <3>3, Zenon
  <2>9. g[k] = f[p]
    <3>1. CASE NoToken(y, p)
      BY <2>1, <2>3, <3>1, Zenon
    <3>2. CASE ~NoToken(y, p)
      <4>0. ~(s > Len(y)) /\ ~(e > Len(y) + 1)
        BY <3>2, Zenon DEF NoToken
      <4> HIDE DEF s, e, k
      <4>1. s \in 1 .. Len(y) /\ e - 1 \in s .. Len(y) /\ e \in Int /\ s <= Len(y)
        BY <1>1, <2>2, <3>2, <4>0
      <4>2. End(z, k) = m + e /\ Start(z, k) = m + s
        BY <2>1, <4>1
      <4>3. SubSeq(z, m + s, (m + e) - 1) = SubSeq(y, s, e - 1)
        BY <1>1, <4>1, PieceBehind, SMTT(60) DEF m
      <4>4. g[k] = <<SubSeq(z, m + s, (m + e) - 1)>> \o g[m + e]
        BY <2>1, <2>3, <3>2, <4>2, Zenon
      <4>5. g[m + e] = f[e]
        BY <2>7, <4>0, <4>1
      <4> QED BY <2>3, <3>2, <4>3, <4>4, <4>5, Zenon
    <3> QED BY <3>1, <3>2, Zenon
  <2> QED BY <2>8, <2>9
<1> HIDE DEF G, hi
<1>3. \A p \in 1 .. hi : p \in G
  BY <1>1, <1>2, FromTheLast
<1>4. 1 \in 1 .. hi
  BY <1>1 DEF hi
<1> QED BY <1>3, <1>4 DEF G, m

-----------------------------------------------------------------------------
(* Two texts joined: the tokens of the first.                              *)

\* A quote closed in x is closed where it is in z, whatever stands behind x.
LEMMA ClosingAhead ==
  ASSUME NEW x, NEW y, NEW z, Both(z, x, y), NEW p \in 1 .. Len(x),
         ClosingQuote(x, p) <= Len(x)
  PROVE  ClosingQuote(z, p) = ClosingQuote(x, p)
<1> DEFINE hi == Len(x) + 2
<1>1. /\ x \in Text /\ z \in Text /\ Len(x) \in Nat /\ Len(z) \in Nat /\ Len(z) >= Len(x)
      /\ p \in 1 .. Len(z)
      /\ \A i \in 1 .. Len(x) : z[i] = x[i]
  BY DEF Both
<1>2. PICK f : ClosingQuote(x, p) = f[p + 1] /\ Closes(f, x, p)
  BY <1>1, ClosingQuoteCloses
<1>3. PICK g : ClosingQuote(z, p) = g[p + 1] /\ Closes(g, z, p)
  BY <1>1, ClosingQuoteCloses
<1>4. \A i \in p + 1 .. hi : f[i] \in i .. hi
  BY <1>1, <1>2, ClosingQuoteRange
<1> DEFINE G == {i \in p + 1 .. hi : f[i] <= Len(x) => g[i] = f[i]}
<1>5. ASSUME NEW i \in p + 1 .. hi, \A j \in i + 1 .. hi : j \in G PROVE i \in G
  <2>0. SUFFICES ASSUME f[i] <= Len(x) PROVE g[i] = f[i]
    OBVIOUS
  <2>1. i \in 1 .. Len(x) /\ i <= Len(x) /\ ~(i > Len(x)) /\ ~(i > Len(z))
    BY <1>1, <1>4, <2>0
  <2>2. /\ f[i] = IF i > Len(x) \/ x[i] = x[p] THEN i
                  ELSE IF x[i] = Backslash /\ i < Len(x) THEN f[i + 2] ELSE f[i + 1]
        /\ g[i] = IF i > Len(z) \/ z[i] = z[p] THEN i
                  ELSE IF z[i] = Backslash /\ i < Len(z) THEN g[i + 2] ELSE g[i + 1]
    <3>1. i \in p + 1 .. Len(z) + 2
      BY <1>1
    <3> QED BY <1>2, <1>3, <3>1, Zenon DEF Closes
  <2>3. z[i] = x[i] /\ z[p] = x[p]
    BY <1>1, <2>1
  <2>4. i + 1 \in i + 1 .. hi /\ i + 2 \in i + 1 .. hi
    BY <1>1, <2>1
  <2>5. CASE x[i] = x[p]
    <3>1. z[i] = z[p]
      BY <2>3, <2>5
    <3>2. f[i] = i /\ g[i] = i
      BY <2>2, <2>5, <3>1, Zenon
    <3> QED BY <3>2
  <2>6. CASE x[i] # x[p] /\ x[i] = Backslash /\ i < Len(x)
    <3>1. i < Len(z)
      BY <1>1, <2>6
    <3>2. f[i] = f[i + 2] /\ g[i] = g[i + 2]
      BY <2>1, <2>2, <2>3, <2>6, <3>1, Zenon
    <3> QED BY <1>5, <2>0, <2>4, <3>2
  <2>7. CASE x[i] # x[p] /\ ~(x[i] = Backslash /\ i < Len(x))
    <3>1. f[i] = f[i + 1]
      BY <2>1, <2>2, <2>7, Zenon
    <3>2. i < Len(x)
      BY <1>1, <1>4, <2>0, <2>1, <2>4, <3>1
    <3>3. x[i] # Backslash
      BY <2>7, <3>2, Zenon
    <3>4. g[i] = g[i + 1]
      BY <2>1, <2>2, <2>3, <2>7, <3>3, Zenon
    <3> QED BY <1>5, <2>0, <2>4, <3>1, <3>4
  <2> QED BY <2>5, <2>6, <2>7
<1> HIDE DEF G
<1>6. \A i \in p + 1 .. hi : i \in G
  <2>1. p + 1 \in Nat /\ hi \in Nat
    BY <1>1
  <2> HIDE DEF hi
  <2> QED BY <1>5, <2>1, FromTheLast
<1>7. p + 1 \in G
  BY <1>1, <1>6
<1> QED BY <1>2, <1>3, <1>7 DEF G

\* One space behind it closes no quote.
LEMMA StillOpen ==
  ASSUME NEW x, NEW y, NEW z, Both(z, x, y), Len(y) = 1, y[1] \in Space,
         NEW p \in 1 .. Len(x), x[p] \in Quote, ClosingQuote(x, p) > Len(x)
  PROVE  ClosingQuote(z, p) > Len(z)
<1> DEFINE hi == Len(x) + 2
<1>1. /\ x \in Text /\ z \in Text /\ Len(x) \in Nat /\ Len(z) \in Nat /\ Len(z) = Len(x) + 1
      /\ p \in 1 .. Len(z)
      /\ \A i \in 1 .. Len(x) : z[i] = x[i]
      /\ z[Len(x) + 1] = y[1]
  BY DEF Both
<1>2. PICK f : ClosingQuote(x, p) = f[p + 1] /\ Closes(f, x, p)
  BY <1>1, ClosingQuoteCloses
<1>3. PICK g : ClosingQuote(z, p) = g[p + 1] /\ Closes(g, z, p)
  BY <1>1, ClosingQuoteCloses
<1>4. z[p] = x[p] /\ y[1] # x[p] /\ y[1] # Backslash
  <2>1. y[1] # x[p] /\ y[1] # Backslash
    BY Characterised, Zenon
  <2> QED BY <1>1, <2>1
<1> DEFINE G == {i \in p + 1 .. hi : f[i] > Len(x) => g[i] > Len(z)}
<1>5. ASSUME NEW i \in p + 1 .. hi, \A j \in i + 1 .. hi : j \in G PROVE i \in G
  <2>0. SUFFICES ASSUME f[i] > Len(x) PROVE g[i] > Len(z)
    OBVIOUS
  <2>2. /\ f[i] = IF i > Len(x) \/ x[i] = x[p] THEN i
                  ELSE IF x[i] = Backslash /\ i < Len(x) THEN f[i + 2] ELSE f[i + 1]
        /\ g[i] = IF i > Len(z) \/ z[i] = z[p] THEN i
                  ELSE IF z[i] = Backslash /\ i < Len(z) THEN g[i + 2] ELSE g[i + 1]
    <3>1. i \in p + 1 .. Len(z) + 2
      BY <1>1
    <3> QED BY <1>2, <1>3, <3>1, Zenon DEF Closes
  <2>3. \A j \in i + 1 .. hi : f[j] > Len(x) => g[j] > Len(z)
    BY <1>5
  <2>4. CASE i = Len(x) + 2
    <3>1. i > Len(z)
      BY <1>1, <2>4
    <3>2. g[i] = i
      BY <2>2, <3>1, Zenon
    <3> QED BY <3>1, <3>2
  <2>5. CASE i = Len(x) + 1
    <3>1. ~(i > Len(z)) /\ z[i] # z[p] /\ z[i] # Backslash
      BY <1>1, <1>4, <2>5
    <3>2. g[i] = g[i + 1]
      BY <2>2, <3>1, Zenon
    <3>3. i + 1 \in i + 1 .. hi /\ i + 1 > Len(x) /\ i + 1 \in p + 1 .. Len(x) + 2
      BY <1>1, <2>5
    <3>4. f[i + 1] = i + 1
      BY <1>2, <3>3, Zenon DEF Closes
    <3> QED BY <2>3, <3>2, <3>3, <3>4
  <2>6. CASE i <= Len(x)
    <3>1. i \in 1 .. Len(x) /\ ~(i > Len(x)) /\ ~(i > Len(z)) /\ i < Len(z)
      BY <1>1, <2>6
    <3>2. z[i] = x[i] /\ z[p] = x[p]
      BY <1>1, <1>4, <3>1
    <3>3. i + 1 \in i + 1 .. hi /\ i + 2 \in i + 1 .. hi
      BY <1>1, <2>6
    <3>4. x[i] # x[p]
      <4>1. x[i] = x[p] => f[i] = i
        BY <2>2, Zenon
      <4> QED BY <2>0, <2>6, <4>1, <1>1
    <3>5. CASE x[i] = Backslash /\ i < Len(x)
      <4>1. f[i] = f[i + 2] /\ g[i] = g[i + 2]
        BY <2>2, <3>1, <3>2, <3>4, <3>5, Zenon
      <4> QED BY <2>0, <2>3, <3>3, <4>1
    <3>6. CASE x[i] = Backslash /\ ~(i < Len(x))
      <4>1. g[i] = g[i + 2]
        BY <2>2, <3>1, <3>2, <3>4, <3>6, Zenon
      <4>2. i + 2 > Len(x) /\ i + 2 \in p + 1 .. Len(x) + 2
        BY <1>1, <2>6, <3>6
      <4>3. f[i + 2] = i + 2
        BY <1>2, <4>2, Zenon DEF Closes
      <4> QED BY <2>3, <3>3, <4>1, <4>2, <4>3
    <3>7. CASE x[i] # Backslash
      <4>1. f[i] = f[i + 1] /\ g[i] = g[i + 1]
        BY <2>2, <3>1, <3>2, <3>4, <3>7, Zenon
      <4> QED BY <2>0, <2>3, <3>3, <4>1
    <3> QED BY <3>5, <3>6, <3>7
  <2> QED BY <1>1, <2>4, <2>5, <2>6
<1> HIDE DEF G
<1>6. \A i \in p + 1 .. hi : i \in G
  <2>1. p + 1 \in Nat /\ hi \in Nat
    BY <1>1
  <2> HIDE DEF hi
  <2> QED BY <1>5, <2>1, FromTheLast
<1>7. p + 1 \in G
  BY <1>1, <1>6
<1> QED BY <1>2, <1>3, <1>7 DEF G

\* Between x and y no token goes on: a space ends x or begins y.
Apart(x, y) == Len(x) >= 1 /\ Len(y) >= 1 => y[1] \in Space \/ x[Len(x)] \in Space

\* A token of x ends where it does in z, when y is apart.
LEMMA TokenEndAhead ==
  ASSUME NEW x, NEW y, NEW z, Both(z, x, y), Apart(x, y), NEW p \in 1 .. Len(x),
         x[p] \notin Space, TokenEnd(x, p) <= Len(x) + 1
  PROVE  TokenEnd(z, p) = TokenEnd(x, p)
<1>1. /\ x \in Text /\ y \in Text /\ z \in Text /\ Len(x) \in Nat /\ Len(y) \in Nat
      /\ Len(z) = Len(x) + Len(y)
      /\ p \in 1 .. Len(z)
      /\ \A i \in 1 .. Len(x) : z[i] = x[i]
      /\ \A i \in 1 .. Len(y) : z[Len(x) + i] = y[i]
  BY DEF Both
<1>2. z[p] = x[p]
  BY <1>1
<1>3. CASE x[p] \in Quote
  <2>1. TokenEnd(z, p) = ClosingQuote(z, p) + 1 /\ TokenEnd(x, p) = ClosingQuote(x, p) + 1
    BY <1>2, <1>3, TokenEnds, Zenon
  <2>2. ClosingQuote(x, p) \in Int
    BY <1>1, ClosingQuoteRange
  <2>3. ClosingQuote(x, p) <= Len(x)
    BY <1>1, <2>1, <2>2
  <2> QED BY <2>1, <2>3, ClosingAhead
<1>4. CASE x[p] \in Special
  <2>1. Doubled(z, p) <=> Doubled(x, p)
    <3>1. CASE p < Len(x)
      <4>1. p < Len(z) /\ z[p + 1] = x[p + 1]
        BY <1>1, <3>1
      <4> QED BY <1>2, <3>1, <4>1, Zenon DEF Doubled
    <3>2. CASE ~(p < Len(x))
      <4>1. p = Len(x)
        BY <1>1, <3>2
      <4> DEFINE eq == "="
      <4>2. eq \notin Space
        BY Characterised, Zenon
      <4> HIDE DEF eq
      <4>3. p < Len(z) => z[p + 1] # eq
        <5>1. SUFFICES ASSUME p < Len(z) PROVE z[p + 1] # eq
          OBVIOUS
        <5>2. Len(x) >= 1 /\ Len(y) >= 1 /\ 1 \in 1 .. Len(y) /\ z[p + 1] = y[1]
          BY <1>1, <4>1, <5>1
        <5> QED BY <4>1, <4>2, <5>2 DEF Apart
      <4> QED BY <3>2, <4>3, Zenon DEF Doubled, eq
    <3> QED BY <3>1, <3>2
  <2> QED BY <1>2, <1>4, <2>1, TokenEnds, Zenon
<1>5. CASE x[p] \notin Quote /\ x[p] \notin Special
  <2> DEFINE e == SkipWhile(x, p, Wordly(x))
  <2>1. TokenEnd(x, p) = e /\ TokenEnd(z, p) = SkipWhile(z, p, Wordly(z))
    BY <1>2, <1>5, TokenEnds, Zenon
  <2>2. e \in p + 1 .. Len(x) + 1
    BY <1>1, <2>1, TokenEndRange
  <2>3. /\ \A i \in p .. e - 1 : x[i] \in Wordly(x)
        /\ e <= Len(x) => x[e] \notin Wordly(x)
    <3>1. p \in 1 .. Len(x) + 1
      BY <1>1
    <3> QED BY <1>1, <3>1, SkipTo
  <2> HIDE DEF e
  <2>4. \A i \in 1 .. Len(x) : x[i] \in ToSet(x) /\ x[i] \in ToSet(z)
    <3>1. SUFFICES ASSUME NEW i \in 1 .. Len(x) PROVE x[i] \in ToSet(x) /\ x[i] \in ToSet(z)
      OBVIOUS
    <3>2. i \in 1 .. Len(z) /\ z[i] = x[i]
      BY <1>1
    <3>3. z[i] \in ToSet(z) /\ x[i] \in ToSet(x)
      BY <1>1, <3>2, InSequence DEF Text
    <3> QED BY <3>2, <3>3
  <2>5. \A i \in p .. e - 1 : z[i] \in Wordly(z)
    <3>1. SUFFICES ASSUME NEW i \in p .. e - 1 PROVE z[i] \in Wordly(z)
      OBVIOUS
    <3>2. i \in 1 .. Len(x) /\ z[i] = x[i] /\ x[i] \in Wordly(x)
      BY <1>1, <2>2, <2>3
    <3> QED BY <2>4, <3>2, Zenon DEF Wordly
  <2>6. e <= Len(z) => z[e] \notin Wordly(z)
    <3>1. SUFFICES ASSUME e <= Len(z) PROVE z[e] \notin Wordly(z)
      OBVIOUS
    <3>2. CASE e <= Len(x)
      <4>1. e \in 1 .. Len(x) /\ z[e] = x[e] /\ x[e] \notin Wordly(x)
        BY <1>1, <2>2, <2>3, <3>2
      <4> QED BY <2>4, <4>1, Zenon DEF Wordly
    <3>3. CASE ~(e <= Len(x))
      <4>1. /\ Len(x) >= 1 /\ Len(y) >= 1 /\ 1 \in 1 .. Len(y) /\ z[e] = y[1]
            /\ x[Len(x)] \in Wordly(x)
        BY <1>1, <2>2, <2>3, <3>1, <3>3
      <4>2. x[Len(x)] \notin Space
        BY <4>1, Zenon DEF Wordly
      <4> QED BY <4>1, <4>2, Zenon DEF Apart, Wordly
    <3> QED BY <3>2, <3>3
  <2>7. SkipWhile(z, p, Wordly(z)) = e
    <3>1. p \in 1 .. Len(z) + 1 /\ e \in p .. Len(z) + 1
      BY <1>1, <2>2
    <3> QED BY <1>1, <2>5, <2>6, <3>1, SkipIs
  <2> QED BY <2>1, <2>7
<1> QED BY <1>3, <1>4, <1>5, Zenon

\* The next token of z starts where the one of x does; when x has none left it
\* is the first one behind x.
LEMMA StartAhead ==
  ASSUME NEW x, NEW y, NEW z, Both(z, x, y), NEW p \in 1 .. Len(x) + 1
  PROVE  /\ Start(x, p) <= Len(x) => Start(z, p) = Start(x, p)
         /\ Start(x, p) > Len(x) => Start(z, p) = Start(z, Len(x) + 1)
<1> DEFINE s == Start(x, p)
           m == Len(x) + 1
           t == Start(z, m)
<1>1. /\ x \in Text /\ z \in Text /\ Len(x) \in Nat /\ Len(z) \in Nat /\ Len(z) >= Len(x)
      /\ p \in 1 .. Len(z) + 1 /\ m \in 1 .. Len(z) + 1
      /\ \A i \in 1 .. Len(x) : z[i] = x[i]
  BY DEF Both
<1>2. /\ s \in p .. Len(x) + 1
      /\ \A i \in p .. s - 1 : x[i] \in Space
      /\ s <= Len(x) => s \in 1 .. Len(x) /\ x[s] \notin Space
  BY <1>1, StartEnd
<1>3. /\ t \in m .. Len(z) + 1
      /\ \A i \in m .. t - 1 : z[i] \in Space
      /\ t <= Len(z) => z[t] \notin Space
  BY <1>1, StartEnd
<1> HIDE DEF s, m, t
<1>4. ASSUME s <= Len(x) PROVE Start(z, p) = s
  <2>1. s \in p .. Len(z) + 1
    BY <1>1, <1>2
  <2>2. \A i \in p .. s - 1 : z[i] \in Space
    BY <1>1, <1>2, <1>4
  <2>3. z[s] \notin Space
    BY <1>1, <1>2, <1>4
  <2> QED BY <1>1, <2>1, <2>2, <2>3, SkipIs DEF Start
<1>5. ASSUME s > Len(x) PROVE Start(z, p) = t
  <2>0. s = m
    BY <1>1, <1>2, <1>5 DEF m
  <2>1. t \in p .. Len(z) + 1
    BY <1>1, <1>3 DEF m
  <2>2. \A i \in p .. t - 1 : z[i] \in Space
    <3>1. SUFFICES ASSUME NEW i \in p .. t - 1 PROVE z[i] \in Space
      OBVIOUS
    <3>2. CASE i \in p .. s - 1
      <4>1. i \in 1 .. Len(x)
        BY <1>1, <1>2, <3>2
      <4> QED BY <1>1, <1>2, <3>2, <4>1
    <3>3. CASE i \notin p .. s - 1
      <4>1. i \in m .. t - 1
        BY <1>1, <1>2, <1>3, <2>0, <3>3
      <4> QED BY <1>3, <4>1
    <3> QED BY <3>2, <3>3
  <2> QED BY <1>1, <1>3, <2>1, <2>2, SkipIs DEF Start
<1> QED BY <1>4, <1>5 DEF s, t, m

\* A piece of x is a piece of z.
LEMMA PieceAhead ==
  ASSUME NEW x, NEW y, NEW z, Both(z, x, y), NEW i \in 1 .. Len(x), NEW j \in i .. Len(x)
  PROVE  SubSeq(z, i, j) = SubSeq(x, i, j)
<1> DEFINE a == SubSeq(z, i, j)
           b == SubSeq(x, i, j)
<1>1. /\ Len(x) \in Nat /\ i \in Int /\ j \in Int /\ i <= j
      /\ \A k \in 1 .. Len(x) : z[k] = x[k] /\ x[k] \in Chars
  BY ElementOfSeq DEF Both, Text
<1>2. \A k \in i .. j : z[k] \in Chars /\ x[k] \in Chars
  BY <1>1
<1>3. /\ a \in Text /\ Len(a) = j - i + 1 /\ \A k \in 1 .. j - i + 1 : a[k] = z[i + k - 1]
      /\ b \in Text /\ Len(b) = j - i + 1 /\ \A k \in 1 .. j - i + 1 : b[k] = x[i + k - 1]
  BY <1>1, <1>2, SubSeqProperties DEF Text
<1> HIDE DEF a, b
<1>4. \A k \in 1 .. Len(a) : a[k] = b[k]
  <2>1. SUFFICES ASSUME NEW k \in 1 .. j - i + 1 PROVE a[k] = b[k]
    BY <1>3
  <2> DEFINE n == i + k - 1
  <2>2. n \in 1 .. Len(x)
    BY <1>1
  <2> HIDE DEF n
  <2> QED BY <1>1, <1>3, <2>2 DEF n
<1> QED BY <1>3, <1>4, SeqEqual DEF Text, a, b

\* A whole token of x is one of z, when y is apart.
LEMMA TokenAhead ==
  ASSUME NEW x, NEW y, NEW z, Both(z, x, y), Apart(x, y), NEW p \in 1 .. Len(x) + 1,
         Start(x, p) <= Len(x), End(x, p) <= Len(x) + 1
  PROVE  /\ Start(z, p) = Start(x, p) /\ End(z, p) = End(x, p)
         /\ ~NoToken(z, p) /\ ~NoToken(x, p)
         /\ Start(z, p) <= Len(z) /\ ~(End(z, p) > Len(z) + 1)
         /\ SubSeq(z, Start(x, p), End(x, p) - 1) = SubSeq(x, Start(x, p), End(x, p) - 1)
         /\ SubSeq(x, Start(x, p), End(x, p) - 1) \in Text
         /\ End(x, p) \in p + 1 .. Len(x) + 1
<1> DEFINE s == Start(x, p)
           e == End(x, p)
<1>1. /\ x \in Text /\ z \in Text /\ Len(x) \in Nat /\ Len(z) \in Nat /\ Len(z) >= Len(x)
  BY DEF Both
<1>2. s \in p .. Len(x) + 1 /\ s \in 1 .. Len(x) /\ x[s] \notin Space /\ e \in s + 1 .. Len(x) + 3
  BY <1>1, StartEnd
<1>3. Start(z, p) = s
  BY StartAhead
<1>4. e = TokenEnd(x, s) /\ End(z, p) = TokenEnd(z, s)
  BY <1>3, Zenon DEF End
<1> HIDE DEF s
<1>5. TokenEnd(z, s) = TokenEnd(x, s)
  <2>1. TokenEnd(x, s) <= Len(x) + 1
    BY <1>4
  <2> QED BY <1>2, <2>1, TokenEndAhead
<1>6. End(z, p) = e
  BY <1>4, <1>5
<1>7. e <= Len(x) + 1
  OBVIOUS
<1> HIDE DEF e
<1>8. /\ ~(s > Len(x)) /\ ~(e > Len(x) + 1) /\ ~(s > Len(z)) /\ ~(e > Len(z) + 1) /\ s <= Len(z)
      /\ e - 1 \in s .. Len(x) /\ e - 1 \in 0 .. Len(x) /\ s \in 1 .. Len(x) + 1
      /\ e \in p + 1 .. Len(x) + 1
  BY <1>1, <1>2, <1>7
<1>9. ~NoToken(z, p) /\ ~NoToken(x, p)
  BY <1>3, <1>6, <1>8, Zenon DEF NoToken, s, e
<1>10. SubSeq(z, s, e - 1) = SubSeq(x, s, e - 1) /\ SubSeq(x, s, e - 1) \in Text
  BY <1>1, <1>2, <1>8, PieceAhead, PieceOfText
<1> QED BY <1>3, <1>6, <1>8, <1>9, <1>10, Zenon DEF s, e

\* Where x has no token left, z goes on with those of y.
LEMMA TokensGoOn ==
  ASSUME NEW x, NEW y, NEW z, Both(z, x, y), NEW p \in 1 .. Len(x) + 1, Start(x, p) > Len(x),
         NEW g, Cuts(g, z), NEW q, Opens(q, z)
  PROVE  g[p] = g[Len(x) + 1] /\ (q[p] <=> q[Len(x) + 1])
<1> DEFINE m == Len(x) + 1
<1>1. p \in 1 .. Len(z) + 1 /\ m \in 1 .. Len(z) + 1
  BY DEF Both
<1>2. Start(z, p) = Start(z, m)
  BY StartAhead
<1> HIDE DEF m
<1>3. End(z, p) = End(z, m) /\ (NoToken(z, p) <=> NoToken(z, m))
  BY <1>2, Zenon DEF End, NoToken
<1>4. /\ g[p] = IF NoToken(z, p) THEN <<>> ELSE <<SubSeq(z, Start(z, p), End(z, p) - 1)>> \o g[End(z, p)]
      /\ g[m] = IF NoToken(z, m) THEN <<>> ELSE <<SubSeq(z, Start(z, m), End(z, m) - 1)>> \o g[End(z, m)]
      /\ q[p] = (Start(z, p) <= Len(z) /\ (End(z, p) > Len(z) + 1 \/ q[End(z, p)]))
      /\ q[m] = (Start(z, m) <= Len(z) /\ (End(z, m) > Len(z) + 1 \/ q[End(z, m)]))
  BY <1>1, Zenon DEF Cuts, Opens
<1> QED BY <1>2, <1>3, <1>4, Zenon DEF m

-----------------------------------------------------------------------------
(* Two texts joined: all tokens.                                           *)

\* Where no quote is left open in x and a space is between, z has the tokens
\* of x and those of y.
LEMMA TokensJoined ==
  ASSUME NEW x, NEW y, NEW z, Both(z, x, y), Apart(x, y), ~QuoteOpen(x)
  PROVE  /\ Tokens(z) = Tokens(x) \o Tokens(y)
         /\ QuoteOpen(z) <=> QuoteOpen(y)
<1> DEFINE hi == Len(x) + 1
<1>1. x \in Text /\ y \in Text /\ z \in Text /\ Len(x) \in Nat /\ Len(y) \in Nat /\ hi \in Nat
      /\ Len(z) = Len(x) + Len(y)
  BY DEF Both
<1>2. PICK f : Tokens(x) = f[1] /\ Cuts(f, x)
  BY <1>1, TokensCut
<1>3. PICK g : Tokens(z) = g[1] /\ Cuts(g, z)
  BY <1>1, TokensCut
<1>4. PICK h : Tokens(y) = h[1] /\ Cuts(h, y)
  BY <1>1, TokensCut
<1>5. PICK o : QuoteOpen(x) = o[1] /\ Opens(o, x)
  BY <1>1, QuoteOpens
<1>6. PICK q : QuoteOpen(z) = q[1] /\ Opens(q, z)
  BY <1>1, QuoteOpens
<1>7. PICK r : QuoteOpen(y) = r[1] /\ Opens(r, y)
  BY <1>1, QuoteOpens
<1>8. g[hi] = h[1] /\ (q[hi] <=> r[1])
  BY <1>3, <1>4, <1>6, <1>7, TokensBehind
<1>9. h[1] \in Seq(Text) /\ \A p \in 1 .. hi : f[p] \in Seq(Text)
  <2>1. 1 \in 1 .. Len(y) + 1
    BY <1>1
  <2> QED BY <1>1, <1>2, <1>4, <2>1, TokensCut
<1> DEFINE G == {p \in 1 .. hi : ~o[p] => g[p] = f[p] \o h[1] /\ (q[p] <=> r[1])}
<1>10. ASSUME NEW p \in 1 .. hi, \A j \in p + 1 .. hi : j \in G PROVE p \in G
  <2>0. SUFFICES ASSUME ~o[p] PROVE g[p] = f[p] \o h[1] /\ (q[p] <=> r[1])
    OBVIOUS
  <2> DEFINE s == Start(x, p)
             e == End(x, p)
             piece == SubSeq(x, s, e - 1)
  <2>1. p \in 1 .. Len(x) + 1
    OBVIOUS
  <2>2. /\ f[p] = IF NoToken(x, p) THEN <<>> ELSE <<piece>> \o f[e]
        /\ o[p] = (s <= Len(x) /\ (e > Len(x) + 1 \/ o[e]))
    BY <1>2, <1>5, <2>1, Zenon DEF Cuts, Opens
  <2>3. s \in Int /\ (s <= Len(x) => e \in Int)
    BY <1>1, <2>1, StartEnd
  <2>4. CASE ~(s <= Len(x))
    <3>1. s > Len(x)
      BY <1>1, <2>3, <2>4
    <3>2. g[p] = g[hi] /\ (q[p] <=> q[hi])
      BY <1>3, <1>6, <2>1, <3>1, TokensGoOn
    <3>3. f[p] = <<>>
      BY <2>2, <3>1, Zenon DEF NoToken
    <3>4. f[p] \o h[1] = h[1]
      BY <1>9, <3>3, ConcatEmptySeq
    <3> QED BY <1>8, <3>2, <3>4, Zenon
  <2>5. CASE s <= Len(x)
    <3>1. ~(e > Len(x) + 1) /\ ~o[e]
      BY <2>0, <2>2, <2>5, Zenon
    <3>2. e <= Len(x) + 1
      <4> HIDE DEF s, e
      <4> QED BY <1>1, <2>3, <2>5, <3>1
    <3>3. /\ Start(z, p) = s /\ End(z, p) = e
          /\ ~NoToken(z, p) /\ ~NoToken(x, p)
          /\ Start(z, p) <= Len(z) /\ ~(End(z, p) > Len(z) + 1)
          /\ SubSeq(z, s, e - 1) = piece /\ piece \in Text
          /\ e \in p + 1 .. hi
      <4> HIDE DEF G
      <4>1. /\ Start(z, p) = s /\ End(z, p) = e
            /\ ~NoToken(z, p) /\ ~NoToken(x, p)
            /\ e \in p + 1 .. hi
        BY <2>1, <2>5, <3>2, TokenAhead
      <4>2. Start(z, p) <= Len(z) /\ ~(End(z, p) > Len(z) + 1)
        BY <2>1, <2>5, <3>2, TokenAhead
      <4>3. SubSeq(z, s, e - 1) = piece /\ piece \in Text
        BY <2>1, <2>5, <3>2, TokenAhead
      <4> QED BY <4>1, <4>2, <4>3
    <3>4. /\ g[p] = IF NoToken(z, p) THEN <<>> ELSE <<SubSeq(z, Start(z, p), End(z, p) - 1)>> \o g[End(z, p)]
          /\ q[p] = (Start(z, p) <= Len(z) /\ (End(z, p) > Len(z) + 1 \/ q[End(z, p)]))
      <4>1. p \in 1 .. Len(z) + 1
        BY <1>1, <2>1
      <4> QED BY <1>3, <1>6, <4>1, Zenon DEF Cuts, Opens
    <3> HIDE DEF s, e, piece, hi
    <3>5. g[e] = f[e] \o h[1] /\ (q[e] <=> r[1])
      BY <1>10, <3>1, <3>3
    <3>6. f[p] = <<piece>> \o f[e]
      BY <2>2, <3>3, Zenon
    <3>7. g[p] = <<piece>> \o (f[e] \o h[1])
      BY <3>3, <3>4, <3>5, Zenon DEF s, e
    <3>8. (<<piece>> \o f[e]) \o h[1] = <<piece>> \o (f[e] \o h[1])
      <4>1. <<piece>> \in Seq(Text) /\ f[e] \in Seq(Text)
        <5>1. e \in 1 .. hi
          BY <3>3
        <5> QED BY <1>9, <3>3, <5>1
      <4> DEFINE a == <<piece>>
                 b == f[e]
                 c == h[1]
      <4>2. a \in Seq(Text) /\ b \in Seq(Text) /\ c \in Seq(Text)
        BY <1>9, <4>1
      <4> HIDE DEF a, b, c
      <4>3. (a \o b) \o c = a \o (b \o c)
        BY <4>2, ConcatAssociative, SMTT(60)
      <4> QED BY <4>3 DEF a, b, c
    <3>9. q[p] <=> r[1]
      BY <3>3, <3>4, <3>5, Zenon
    <3> QED BY <3>6, <3>7, <3>8, <3>9, Zenon
  <2> QED BY <2>4, <2>5
<1> HIDE DEF G, hi
<1>11. \A p \in 1 .. hi : p \in G
  BY <1>1, <1>10, FromTheLast
<1>12. 1 \in G
  <2>1. 1 \in 1 .. hi
    BY <1>1 DEF hi
  <2> QED BY <1>11, <2>1
<1>13. ~o[1]
  BY <1>5, Zenon
<1>14. g[1] = f[1] \o h[1] /\ (q[1] <=> r[1])
  BY <1>12, <1>13 DEF G
<1> QED BY <1>2, <1>3, <1>4, <1>6, <1>7, <1>14, Zenon

\* In spaces is no token, and no quote is open.
LEMMA TokensOfSpaces ==
  ASSUME NEW x \in Text, \A i \in 1 .. Len(x) : x[i] \in Space
  PROVE  Tokens(x) = <<>> /\ ~QuoteOpen(x)
<1>1. Len(x) \in Nat /\ 1 \in 1 .. Len(x) + 1
  BY LenProperties DEF Text
<1>2. Start(x, 1) = Len(x) + 1 /\ NoToken(x, 1)
  BY <1>1, OnlySpaces
<1>3. PICK f : Tokens(x) = f[1] /\ Cuts(f, x)
  BY TokensCut
<1>4. f[1] = <<>>
  BY <1>1, <1>2, <1>3, Zenon DEF Cuts
<1>5. PICK o : QuoteOpen(x) = o[1] /\ Opens(o, x)
  BY QuoteOpens
<1>6. o[1] = (Start(x, 1) <= Len(x) /\ (End(x, 1) > Len(x) + 1 \/ o[End(x, 1)]))
  BY <1>1, <1>5, Zenon DEF Opens
<1>7. ~(Start(x, 1) <= Len(x))
  BY <1>1, <1>2
<1> QED BY <1>3, <1>4, <1>5, <1>6, <1>7, Zenon

\* A token that does not end in x is a literal left open.
LEMMA OnlyQuotesOpen ==
  ASSUME NEW x \in Text, NEW s \in 1 .. Len(x), x[s] \notin Space, TokenEnd(x, s) > Len(x) + 1
  PROVE  x[s] \in Quote /\ ClosingQuote(x, s) > Len(x)
<1>1. Len(x) \in Nat /\ s \in 1 .. Len(x) + 1
  BY LenProperties DEF Text
<1>2. CASE x[s] \in Quote
  <2>1. TokenEnd(x, s) = ClosingQuote(x, s) + 1 /\ ClosingQuote(x, s) \in Int
    BY <1>2, TokenEnds, ClosingQuoteRange
  <2> QED BY <1>1, <1>2, <2>1
<1>3. CASE x[s] \in Special
  <2>1. TokenEnd(x, s) = IF Doubled(x, s) THEN s + 2 ELSE s + 1
    BY <1>3, TokenEnds, Zenon
  <2>2. Doubled(x, s) => s < Len(x)
    BY Zenon DEF Doubled
  <2>3. TokenEnd(x, s) <= Len(x) + 1
    BY <1>1, <2>1, <2>2
  <2> QED BY <1>1, <2>1, <2>3
<1>4. CASE x[s] \notin Quote /\ x[s] \notin Special
  <2>1. TokenEnd(x, s) = SkipWhile(x, s, Wordly(x))
    BY <1>4, TokenEnds, Zenon
  <2>2. SkipWhile(x, s, Wordly(x)) \in s .. Len(x) + 1
    BY <1>1, SkipTo
  <2> QED BY <1>1, <2>1, <2>2
<1> QED BY <1>2, <1>3, <1>4, Zenon

\* One space more makes no token, and closes no quote.
LEMMA OneSpaceMore ==
  ASSUME NEW x, NEW y, NEW z, Both(z, x, y), Len(y) = 1, y[1] \in Space
  PROVE  Tokens(z) = Tokens(x)
<1> DEFINE hi == Len(x) + 1
<1>1. x \in Text /\ y \in Text /\ z \in Text /\ Len(x) \in Nat /\ hi \in Nat
      /\ Len(z) = Len(x) + 1 /\ Apart(x, y)
      /\ \A i \in 1 .. Len(x) : z[i] = x[i]
  BY DEF Both, Apart
<1>2. PICK f : Tokens(x) = f[1] /\ Cuts(f, x)
  BY <1>1, TokensCut
<1>3. PICK g : Tokens(z) = g[1] /\ Cuts(g, z)
  BY <1>1, TokensCut
<1>4. PICK h : Tokens(y) = h[1] /\ Cuts(h, y)
  BY <1>1, TokensCut
<1>5. PICK q : Opens(q, z)
  BY <1>1, QuoteOpens
<1>6. PICK r : Opens(r, y)
  BY <1>1, QuoteOpens
<1>7. g[hi] = h[1]
  BY <1>3, <1>4, <1>5, <1>6, TokensBehind
<1>8. h[1] = <<>>
  <2>1. \A i \in 1 .. Len(y) : y[i] \in Space
    OBVIOUS
  <2> QED BY <1>1, <1>4, <2>1, TokensOfSpaces
<1> DEFINE G == {p \in 1 .. hi : g[p] = f[p]}
<1>9. ASSUME NEW p \in 1 .. hi, \A j \in p + 1 .. hi : j \in G PROVE p \in G
  <2>0. SUFFICES g[p] = f[p]
    OBVIOUS
  <2> DEFINE s == Start(x, p)
             e == End(x, p)
             piece == SubSeq(x, s, e - 1)
  <2>1. p \in 1 .. Len(x) + 1
    OBVIOUS
  <2>2. f[p] = IF NoToken(x, p) THEN <<>> ELSE <<piece>> \o f[e]
    BY <1>2, <2>1, Zenon DEF Cuts
  <2>3. /\ s \in Int
        /\ s <= Len(x) => e \in Int /\ s \in 1 .. Len(x) /\ x[s] \notin Space
    BY <1>1, <2>1, StartEnd
  <2>4. g[p] = IF NoToken(z, p) THEN <<>> ELSE <<SubSeq(z, Start(z, p), End(z, p) - 1)>> \o g[End(z, p)]
    <3>1. p \in 1 .. Len(z) + 1
      BY <1>1, <2>1
    <3> QED BY <1>3, <3>1, Zenon DEF Cuts
  <2>5. CASE ~(s <= Len(x))
    <3>1. s > Len(x)
      BY <1>1, <2>3, <2>5
    <3>2. g[p] = g[hi]
      BY <1>3, <1>5, <2>1, <3>1, TokensGoOn
    <3>3. f[p] = <<>>
      BY <2>2, <3>1, Zenon DEF NoToken
    <3> QED BY <1>7, <1>8, <3>2, <3>3
  <2>6. CASE s <= Len(x) /\ e <= Len(x) + 1
    <3>3. /\ Start(z, p) = s /\ End(z, p) = e
          /\ ~NoToken(z, p) /\ ~NoToken(x, p)
          /\ SubSeq(z, s, e - 1) = piece
          /\ e \in p + 1 .. hi
      BY <1>1, <2>1, <2>6, TokenAhead
    <3> HIDE DEF s, e, piece, hi
    <3>5. g[e] = f[e]
      BY <1>9, <3>3
    <3> QED BY <2>2, <2>4, <3>3, <3>5, Zenon DEF s, e
  <2>7. CASE s <= Len(x) /\ ~(e <= Len(x) + 1)
    <3>1. NoToken(x, p)
      <4>1. e > Len(x) + 1
        <5> HIDE DEF s, e
        <5> QED BY <1>1, <2>3, <2>7
      <4> QED BY <4>1, Zenon DEF NoToken
    <3>2. Start(z, p) = s
      BY <2>1, <2>7, StartAhead
    <3>3. e = TokenEnd(x, s) /\ End(z, p) = TokenEnd(z, s)
      BY <3>2, Zenon DEF End
    <3> HIDE DEF s, e
    <3>4. x[s] \in Quote /\ ClosingQuote(x, s) > Len(x)
      BY <1>1, <2>3, <2>7, <3>3, OnlyQuotesOpen
    <3>5. ClosingQuote(z, s) > Len(z)
      BY <2>3, <2>7, <3>4, StillOpen
    <3>6. TokenEnd(z, s) = ClosingQuote(z, s) + 1 /\ ClosingQuote(z, s) \in Int
      <4>1. z[s] \in Quote /\ s \in 1 .. Len(z)
        BY <1>1, <2>3, <2>7, <3>4
      <4> QED BY <1>1, <4>1, TokenEnds, ClosingQuoteRange
    <3>7. End(z, p) > Len(z) + 1
      BY <1>1, <3>3, <3>5, <3>6
    <3>8. NoToken(z, p)
      BY <3>7, Zenon DEF NoToken
    <3> QED BY <2>2, <2>4, <3>1, <3>8, Zenon
  <2> QED BY <2>5, <2>6, <2>7, Zenon
<1> HIDE DEF G, hi
<1>10. \A p \in 1 .. hi : p \in G
  BY <1>1, <1>9, FromTheLast
<1>11. 1 \in 1 .. hi
  BY <1>1 DEF hi
<1> QED BY <1>2, <1>3, <1>10, <1>11 DEF G

-----------------------------------------------------------------------------
(* Words as they are typed.                                                *)

\* One space; and a text with its newlines made spaces, the words of which
\* are those that were typed.
Blank == <<" ">>
Blanked(x) == [i \in DOMAIN x |-> IF x[i] = NL THEN " " ELSE x[i]]

\* What it is.
LEMMA BlankText == Blank \in Text /\ Len(Blank) = 1 /\ Blank[1] \in Space /\ Blank[1] # NL
<1>1. Blank \in Text
  BY UnspacedSpace, Zenon DEF Blank
<1>2. Len(Blank) = 1 /\ Blank[1] = " "
  BY DEF Blank
<1>3. " " \in Space
  BY Zenon DEF Space
<1>4. " " # NL
  BY DEF NL
<1> QED BY <1>1, <1>2, <1>3, <1>4

\* Blanked is a text of the same length.
LEMMA BlankedText ==
  ASSUME NEW x \in Text
  PROVE  /\ Blanked(x) \in Text /\ Len(Blanked(x)) = Len(x) /\ Len(x) \in Nat
         /\ \A i \in 1 .. Len(x) : Blanked(x)[i] = IF x[i] = NL THEN Blank[1] ELSE x[i]
         /\ (\A i \in 1 .. Len(x) : x[i] # NL) => Blanked(x) = x
<1> DEFINE n == Len(x)
           b == Blanked(x)
<1>1. n \in Nat /\ DOMAIN x = 1 .. n /\ \A i \in 1 .. n : x[i] \in Chars
  BY LenProperties, ElementOfSeq DEF Text
<1>2. Blank[1] \in Chars /\ Blank[1] = " "
  BY BlankText DEF Chars, Blank
<1> HIDE DEF n
<1>3. b = [i \in 1 .. n |-> IF x[i] = NL THEN " " ELSE x[i]]
  BY <1>1 DEF Blanked
<1>4. b = [i \in 1 .. n |-> IF x[i] = NL THEN Blank[1] ELSE x[i]]
  BY <1>2, <1>3
<1> HIDE DEF b
<1>5. b \in [1 .. n -> Chars]
  BY <1>1, <1>2, <1>4
<1>6. b \in Text /\ Len(b) = n
  BY <1>1, <1>5 DEF Text
<1>7. \A i \in 1 .. n : b[i] = IF x[i] = NL THEN Blank[1] ELSE x[i]
  BY <1>4
<1>8. (\A i \in 1 .. n : x[i] # NL) => b = x
  <2>1. SUFFICES ASSUME \A i \in 1 .. n : x[i] # NL PROVE b = x
    OBVIOUS
  <2>2. \A i \in 1 .. n : b[i] = x[i]
    BY <1>7, <2>1
  <2> QED BY <1>6, <2>2, SeqEqual DEF Text, n
<1> QED BY <1>1, <1>6, <1>7, <1>8 DEF n, b

\* Two texts joined are blanked one by one.
LEMMA BlankedConcat ==
  ASSUME NEW x \in Text, NEW y \in Text
  PROVE  Blanked(x \o y) = Blanked(x) \o Blanked(y)
<1> DEFINE z == x \o y
           a == Blanked(x)
           b == Blanked(y)
           c == Blanked(z)
           d == a \o b
<1>1. Both(z, x, y)
  BY JoinedBoth
<1>2. /\ z \in Text /\ Len(x) \in Nat /\ Len(y) \in Nat /\ Len(z) = Len(x) + Len(y)
      /\ \A i \in 1 .. Len(x) : z[i] = x[i]
      /\ \A i \in 1 .. Len(y) : z[Len(x) + i] = y[i]
  <2> HIDE DEF z
  <2> QED BY <1>1 DEF Both
<1> HIDE DEF z
<1>3. /\ a \in Text /\ Len(a) = Len(x) /\ b \in Text /\ Len(b) = Len(y) /\ c \in Text /\ Len(c) = Len(z)
      /\ \A i \in 1 .. Len(x) : a[i] = IF x[i] = NL THEN Blank[1] ELSE x[i]
      /\ \A i \in 1 .. Len(y) : b[i] = IF y[i] = NL THEN Blank[1] ELSE y[i]
      /\ \A i \in 1 .. Len(z) : c[i] = IF z[i] = NL THEN Blank[1] ELSE z[i]
  BY <1>2, BlankedText
<1> HIDE DEF a, b, c
<1>4. Both(d, a, b)
  BY <1>3, JoinedBoth
<1>5. /\ d \in Text /\ Len(d) = Len(x) + Len(y)
      /\ \A i \in 1 .. Len(x) : d[i] = a[i]
      /\ \A i \in 1 .. Len(y) : d[Len(x) + i] = b[i]
  <2> HIDE DEF d
  <2> QED BY <1>3, <1>4 DEF Both
<1> HIDE DEF d
<1>6. \A i \in 1 .. Len(c) : c[i] = d[i]
  <2>1. SUFFICES ASSUME NEW i \in 1 .. Len(z) PROVE c[i] = d[i]
    BY <1>3
  <2>2. CASE i <= Len(x)
    <3>1. i \in 1 .. Len(x)
      BY <1>2, <2>2
    <3> QED BY <1>2, <1>3, <1>5, <3>1, ZenonT(60)
  <2>3. CASE ~(i <= Len(x))
    <3> DEFINE j == i - Len(x)
    <3>1. j \in 1 .. Len(y) /\ i = Len(x) + j
      BY <1>2, <2>3
    <3> HIDE DEF j
    <3>2. d[i] = b[j] /\ z[i] = y[j]
      BY <1>2, <1>5, <3>1
    <3> QED BY <1>3, <3>1, <3>2
  <2> QED BY <2>2, <2>3
<1> QED BY <1>2, <1>3, <1>5, <1>6, SeqEqual DEF Text, z, a, b, c, d

\* A line read is its text and the newline, or its text alone.
LEMMA ChunkBlanked ==
  ASSUME NEW x \in Text, NEW n \in Nat, n >= 1, Len(x) = n, \A i \in 1 .. n - 1 : x[i] # NL
  PROVE  /\ WithoutNewline(x) \in Text
         /\ x[n] = NL => Blanked(x) = WithoutNewline(x) \o Blank
         /\ x[n] # NL => Blanked(x) = WithoutNewline(x)
<1> DEFINE w == WithoutNewline(x)
<1>1. x # <<>>
  BY EmptySeq
<1>2. ASSUME x[n] = NL PROVE w \in Text /\ Blanked(x) = w \o Blank
  <2> DEFINE m == n - 1
             last == SubSeq(x, m + 1, Len(x))
  <2>1. w = Front(x)
    BY <1>1, <1>2, Zenon DEF WithoutNewline
  <2>2. w = SubSeq(x, 1, m)
    BY <2>1, Zenon DEF Front
  <2>3. m \in 0 .. Len(x) /\ Len(x) - m = 1 /\ m + 1 = n
    OBVIOUS
  <2> HIDE DEF w, m
  <2>4. /\ w \in Text /\ Len(w) = m /\ \A i \in 1 .. m : w[i] = x[i]
        /\ last \in Text /\ Len(last) = 1 /\ \A i \in 1 .. 1 : last[i] = x[m + i]
        /\ x = w \o last
    BY <2>2, <2>3, CutInTwo, ZenonT(60)
  <2>5. last[1] = NL
    BY <1>2, <2>3, <2>4
  <2> HIDE DEF last
  <2>6. \A i \in 1 .. Len(w) : w[i] # NL
    BY <2>4 DEF m
  <2>7. Blanked(w) = w
    BY <2>4, <2>6, BlankedText
  <2>8. Blanked(last) = Blank
    <3>1. /\ Blanked(last) \in Text /\ Len(Blanked(last)) = 1
          /\ \A i \in 1 .. 1 : Blanked(last)[i] = IF last[i] = NL THEN Blank[1] ELSE last[i]
      BY <2>4, BlankedText
    <3>2. Blanked(last)[1] = Blank[1]
      BY <2>5, <3>1
    <3>3. \A i \in 1 .. Len(Blanked(last)) : Blanked(last)[i] = Blank[i]
      <4>1. \A i \in 1 .. 1 : i = 1
        OBVIOUS
      <4> QED BY <3>1, <3>2, <4>1
    <3> QED BY <3>1, <3>3, BlankText, SeqEqual DEF Text
  <2>9. Blanked(x) = Blanked(w) \o Blanked(last)
    BY <2>4, BlankedConcat
  <2> QED BY <2>4, <2>7, <2>8, <2>9
<1>3. ASSUME x[n] # NL PROVE w \in Text /\ Blanked(x) = w
  <2>1. w = x
    BY <1>3, Zenon DEF WithoutNewline
  <2>2. \A i \in 1 .. Len(x) : x[i] # NL
    <3>1. SUFFICES ASSUME NEW i \in 1 .. Len(x) PROVE x[i] # NL
      OBVIOUS
    <3>2. i = n \/ i \in 1 .. n - 1
      OBVIOUS
    <3> QED BY <1>3, <3>2
  <2> QED BY <2>1, <2>2, BlankedText
<1> QED BY <1>2, <1>3

\* A text ends with a space, or there is none.
Ends(x) == x = <<>> \/ x[Len(x)] \in Space

\* What the words of two texts joined are: what stands behind a finished text
\* has its own, if a space is between.
LEMMA WordsJoined ==
  ASSUME NEW x \in Text, NEW y \in Text, ~QuoteOpen(x),
         Ends(x) \/ y = <<>> \/ y[1] \in Space
  PROVE  /\ x \o y \in Text
         /\ Tokens(x \o y) = Tokens(x) \o Tokens(y)
         /\ QuoteOpen(x \o y) <=> QuoteOpen(y)
<1>1. Both(x \o y, x, y)
  BY JoinedBoth
<1>2. Apart(x, y)
  <2>1. Len(<<>>) = 0
    BY EmptySeq
  <2> QED BY <2>1 DEF Apart, Ends
<1>3. x \o y \in Text
  BY ConcatProperties DEF Text
<1> QED BY <1>1, <1>2, <1>3, TokensJoined

\* A space at the end changes no words.
LEMMA WordsBeforeSpace ==
  ASSUME NEW x \in Text
  PROVE  /\ x \o Blank \in Text /\ x \o Blank # <<>> /\ Ends(x \o Blank)
         /\ Tokens(x \o Blank) = Tokens(x)
         /\ ~QuoteOpen(x) => ~QuoteOpen(x \o Blank)
<1> DEFINE z == x \o Blank
<1>1. Both(z, x, Blank)
  BY BlankText, JoinedBoth
<1>2. Tokens(z) = Tokens(x)
  BY <1>1, BlankText, OneSpaceMore
<1>3. ~QuoteOpen(x) => ~QuoteOpen(z)
  <2>1. ~QuoteOpen(Blank)
    <3>1. \A i \in 1 .. Len(Blank) : Blank[i] \in Space
      BY BlankText
    <3> QED BY <3>1, BlankText, TokensOfSpaces
  <2> QED BY <2>1, BlankText, WordsJoined
<1> HIDE DEF z
<1>4. z \in Text /\ z # <<>> /\ Ends(z)
  <2>1. z \in Text /\ Len(z) = Len(x) + 1 /\ Len(x) \in Nat /\ z[Len(x) + 1] = Blank[1]
    BY <1>1, BlankText DEF Both
  <2>2. Len(<<>>) = 0
    BY EmptySeq
  <2> QED BY <2>1, <2>2, BlankText DEF Ends
<1> QED BY <1>2, <1>3, <1>4 DEF z

\* No text has no words.
LEMMA NoWords == Tokens(<<>>) = <<>> /\ ~QuoteOpen(<<>>) /\ Blanked(<<>>) = <<>> /\ <<>> \in Text /\ Ends(<<>>)
<1>1. <<>> \in Text /\ Len(<<>>) = 0
  BY EmptySeq DEF Text
<1>2. Blanked(<<>>) = <<>>
  BY <1>1, BlankedText
<1> QED BY <1>1, <1>2, TokensOfSpaces DEF Ends

\* The words of some statements, statement by statement.
Words(done) == [i \in DOMAIN done |-> Tokens(done[i])]

\* One statement more adds its words.
LEMMA WordsAppend ==
  ASSUME NEW done \in Seq(Text), NEW last \in Text
  PROVE  /\ Words(done) \in Seq(Seq(Text))
         /\ FlattenSeq(Words(done)) \in Seq(Text)
         /\ FlattenSeq(Words(Append(done, last))) = FlattenSeq(Words(done)) \o Tokens(last)
<1>1. \A x \in Text : Tokens(x) \in Seq(Text)
  <2>1. SUFFICES ASSUME NEW x \in Text PROVE Tokens(x) \in Seq(Text)
    OBVIOUS
  <2>2. PICK f : Tokens(x) = f[1] /\ Cuts(f, x)
    BY TokensCut
  <2>3. 1 \in 1 .. Len(x) + 1
    BY LenProperties DEF Text
  <2> QED BY <2>2, <2>3, TokensCut
<1> DEFINE V == Seq(Text)
<1>2. \A d \in Seq(Text) : Words(d) \in Seq(V) /\ Len(Words(d)) = Len(d)
                           /\ \A i \in 1 .. Len(d) : Words(d)[i] = Tokens(d[i])
  <2>1. SUFFICES ASSUME NEW d \in Seq(Text)
                 PROVE  /\ Words(d) \in Seq(V) /\ Len(Words(d)) = Len(d)
                        /\ \A i \in 1 .. Len(d) : Words(d)[i] = Tokens(d[i])
    OBVIOUS
  <2>2. Len(d) \in Nat /\ DOMAIN d = 1 .. Len(d) /\ \A i \in 1 .. Len(d) : d[i] \in Text
    BY LenProperties, ElementOfSeq
  <2> HIDE DEF V
  <2>3. Words(d) \in [1 .. Len(d) -> V]
    BY <1>1, <2>2 DEF Words, V
  <2> QED BY <2>2, <2>3 DEF Words
<1> DEFINE n == Len(done)
           next == Append(done, last)
           w == Words(done)
           v == Words(next)
           t == Tokens(last)
<1>3. /\ next \in Seq(Text) /\ Len(next) = n + 1 /\ n \in Nat
      /\ \A i \in 1 .. n : next[i] = done[i]
      /\ next[n + 1] = last
  BY AppendProperties, LenProperties
<1> HIDE DEF n, next, V
<1>4. /\ w \in Seq(V) /\ Len(w) = n /\ \A i \in 1 .. n : w[i] = Tokens(done[i])
      /\ v \in Seq(V) /\ Len(v) = n + 1 /\ \A i \in 1 .. n + 1 : v[i] = Tokens(next[i])
      /\ t \in V
  BY <1>1, <1>2, <1>3 DEF n, V
<1> HIDE DEF w, v, t
<1>5. v = Append(w, t)
  <2>1. /\ Append(w, t) \in Seq(V) /\ Len(Append(w, t)) = n + 1
        /\ \A i \in 1 .. n : Append(w, t)[i] = w[i]
        /\ Append(w, t)[n + 1] = t
    BY <1>4, AppendProperties
  <2>2. \A i \in 1 .. n + 1 : v[i] = Append(w, t)[i]
    <3>1. SUFFICES ASSUME NEW i \in 1 .. n + 1 PROVE v[i] = Append(w, t)[i]
      OBVIOUS
    <3>2. CASE i = n + 1
      BY <1>3, <1>4, <2>1, <3>2 DEF t
    <3>3. CASE i # n + 1
      <4>1. i \in 1 .. n
        BY <1>3, <3>3
      <4> QED BY <1>3, <1>4, <2>1, <4>1
    <3> QED BY <3>2, <3>3
  <2> QED BY <1>4, <2>1, <2>2, SeqEqual
<1>6. FlattenSeq(w) \in V /\ FlattenSeq(Append(w, t)) = FlattenSeq(w) \o t
  BY <1>4, FlattenAppend DEF V
<1> QED BY <1>4, <1>5, <1>6 DEF w, v, t, V, next

\* What is still to be read is the end of what was typed, and ends a line or
\* the input.
TailOfTyped ==
  /\ \E c \in Text : typed = c \o input
  /\ input = <<>> \/ input[Len(input)] = NL \/ eof

\* What the next line is joined to.
Began == IF statement = <<>> THEN <<>> ELSE statement \o Blank

\* A text whose words are those executed.
Finished(x) == x \in Text /\ ~QuoteOpen(x) /\ Tokens(x) = FlattenSeq(Words(executed))

\* What was typed is what was executed, the statement begun and what is to be
\* read; the statement begins behind a space and a space follows it, if it is
\* not the last line.
BetweenLines(x) == Ends(x) /\ Blanked(typed) = (x \o Began) \o Blanked(input)
AtTheEnd(x) ==
  /\ input = <<>> /\ eof
  /\ Ends(x) \/ statement = <<>>
  /\ Blanked(typed) = x \o statement

WordsKept ==
  at # "closed" /\ LinesFit /\ (\A i \in DOMAIN executed : ~QuoteOpen(executed[i])) =>
    \E x : Finished(x) /\ (BetweenLines(x) \/ AtTheEnd(x))

\* Where nothing was typed nothing is kept.
LEMMA InitKeepsWords == Init => WordsKept /\ TailOfTyped
<1> SUFFICES ASSUME Init PROVE WordsKept /\ TailOfTyped
  OBVIOUS
<1>1. input = <<>> /\ typed = <<>> /\ statement = <<>> /\ executed = <<>>
  BY DEF Init
<1>2. <<>> \in Text /\ <<>> \o <<>> = <<>> /\ Ends(<<>>) /\ ~QuoteOpen(<<>>)
      /\ Tokens(<<>>) = <<>> /\ Blanked(<<>>) = <<>>
  BY NoWords, ConcatEmptySeq DEF Text
<1>3. Words(<<>>) = <<>>
  <2>1. DOMAIN <<>> = {}
    OBVIOUS
  <2>2. Words(<<>>) = [i \in {} |-> Tokens(<<>>[i])]
    BY <2>1 DEF Words
  <2> QED BY <2>2
<1>4. Finished(<<>>)
  BY <1>1, <1>2, <1>3, FlattenNothing, Zenon DEF Finished
<1>5. Began = <<>>
  BY <1>1, Zenon DEF Began
<1>6. BetweenLines(<<>>)
  BY <1>1, <1>2, <1>5, Zenon DEF BetweenLines
<1>7. TailOfTyped
  BY <1>1, <1>2, Zenon DEF TailOfTyped
<1> QED BY <1>4, <1>6, <1>7, Zenon DEF WordsKept

\* Lines that fit still fit when more was typed before them.
LEMMA FitBefore ==
  ASSUME ReplTypes, NEW new \in Text, typed' = typed \o new, LinesFit'
  PROVE  LinesFit
<1> DEFINE z == typed \o new
<1>1. /\ typed \in Text /\ Len(typed) \in Nat /\ Len(new) \in Nat /\ Len(z) = Len(typed) + Len(new)
      /\ Buffer \in Nat /\ Buffer >= 2
  <2>1. typed \in Text
    BY DEF ReplTypes
  <2>2. Buffer \in Nat /\ Buffer >= 2
    BY ReplAssumption
  <2> QED BY <2>1, <2>2, ConcatProperties, LenProperties DEF Text
<1>2. SUFFICES ASSUME NEW i \in 1 .. Len(typed) - Buffer + 2
               PROVE  NL \in ToSet(SubSeq(typed, i, i + Buffer - 2))
  BY DEF LinesFit
<1> DEFINE j == i + Buffer - 2
<1>3. i \in 1 .. Len(z) - Buffer + 2 /\ i \in 1 .. Len(typed) /\ j \in 1 .. Len(typed)
  BY <1>1
<1>4. NL \in ToSet(SubSeq(z, i, j))
  <2> HIDE DEF z
  <2> QED BY <1>3 DEF LinesFit, z
<1> HIDE DEF j
<1>5. SubSeq(z, i, j) = SubSeq(typed, i, j)
  BY <1>1, <1>3, SubSeqOfConcat1 DEF Text
<1> QED BY <1>4, <1>5 DEF j

\* Three texts joined.
LEMMA TextAssociative ==
  ASSUME NEW a \in Text, NEW b \in Text, NEW c \in Text
  PROVE  (a \o b) \o c = a \o (b \o c)
BY ConcatAssociative DEF Text

\* Five texts.
FiveTexts(a, b, c, d, e) == a \in Text /\ b \in Text /\ c \in Text /\ d \in Text /\ e \in Text

\* They are joined in two ways.
Regrouped(a, b, c, d, e) == (a \o b) \o ((c \o d) \o e) = (a \o ((b \o c) \o d)) \o e

\* Both ways give one text.
LEMMA Regroup == \A a, b, c, d, e : FiveTexts(a, b, c, d, e) => Regrouped(a, b, c, d, e)
<1>0. SUFFICES ASSUME NEW a, NEW b, NEW c, NEW d, NEW e,
                      FiveTexts(a, b, c, d, e)
               PROVE  Regrouped(a, b, c, d, e)
  BY Zenon
<1>1. a \in Text /\ b \in Text
  BY <1>0 DEF FiveTexts
<1>2. c \in Text /\ d \in Text
  BY <1>0 DEF FiveTexts
<1>3. b \in Text
  BY <1>0 DEF FiveTexts
<1>4. e \in Text
  BY <1>0 DEF FiveTexts
<1> DEFINE ab == a \o b
           cd == c \o d
<1>5. ab \in Text
  BY <1>1, ConcatProperties DEF Text
<1>6. cd \in Text
  BY <1>2, ConcatProperties DEF Text
<1>7. (b \o c) \o d = b \o cd
  BY <1>2, <1>3, TextAssociative, Zenon
<1> HIDE DEF cd
<1>8. ab \o cd = a \o (b \o cd)
  BY <1>1, <1>6, TextAssociative, Zenon
<1> HIDE DEF ab
<1>9. (ab \o cd) \o e = ab \o (cd \o e)
  BY <1>4, <1>5, <1>6, TextAssociative, Zenon
<1> QED BY <1>7, <1>8, <1>9, Zenon DEF ab, cd, Regrouped

\* The statement begun is a text, and the next line is joined to it.
LEMMA BegunText ==
  ASSUME ReplTypes, NEW w \in Text
  PROVE  /\ Began \in Text /\ Joined(w) = Began \o w /\ Joined(w) \in Text
         /\ statement # <<>> => Began = statement \o Blank
         /\ statement = <<>> => Began = <<>>
<1>1. statement \in Text
  BY DEF ReplTypes
<1>2. CASE statement = <<>>
  <2>1. Began = <<>> /\ Joined(w) = w
    BY <1>2, Zenon DEF Began, Joined
  <2>2. <<>> \in Text /\ <<>> \o w = w
    BY NoWords, ConcatEmptySeq DEF Text
  <2> QED BY <1>2, <2>1, <2>2
<1>3. CASE statement # <<>>
  <2>1. Began = statement \o Blank /\ Joined(w) = (statement \o Blank) \o w
    BY <1>3, Zenon DEF Began, Joined, Blank
  <2>2. statement \o Blank \in Text
    BY <1>1, WordsBeforeSpace
  <2> DEFINE b == statement \o Blank
  <2>3. b \in Text
    BY <2>2
  <2> HIDE DEF b
  <2>4. b \o w \in Text
    BY <2>3, ConcatProperties DEF Text
  <2> QED BY <1>3, <2>1, <2>3, <2>4, Zenon DEF b
<1> QED BY <1>2, <1>3

\* A line typed is still to be read, behind all that was typed before.
LEMMA TypeKeepsWords ==
  ASSUME ReplTypes, WordsKept, NEW line \in Lines, NEW ending \in {<<NL>>, <<>>}, Type(line, ending)
  PROVE  WordsKept' /\ TailOfTyped'
<1> DEFINE new == line \o ending
<1>1. /\ at = "prompt" /\ input = <<>> /\ ~eof
      /\ input' = new /\ typed' = typed \o new /\ eof' = (ending = <<>>)
      /\ statement' = statement /\ executed' = executed
  BY Zenon DEF Type
<1>2. line \in Text /\ ending \in Text /\ new \in Text /\ typed \in Text
  BY LineTyped DEF ReplTypes
<1>3. TailOfTyped'
  <2>1. \E c \in Text : typed' = c \o input'
    BY <1>1, <1>2, Zenon
  <2>2. ending = <<NL>> => new[Len(new)] = NL
    <3>1. SUFFICES ASSUME ending = <<NL>> PROVE new[Len(new)] = NL
      OBVIOUS
    <3>2. ending # <<>> /\ ending[Len(ending)] = NL
      BY <3>1
    <3> QED BY <1>2, <3>2, LastOfJoined DEF Text
  <2>3. input'[Len(input')] = NL \/ eof'
    BY <1>1, <2>2
  <2> QED BY <2>1, <2>3, Zenon DEF TailOfTyped
<1> HIDE DEF new
<1>4. SUFFICES ASSUME at' # "closed", LinesFit', \A i \in DOMAIN executed' : ~QuoteOpen(executed'[i])
               PROVE  \E x : Finished(x)' /\ (BetweenLines(x) \/ AtTheEnd(x))'
  BY <1>3, Zenon DEF WordsKept
<1>5. LinesFit
  BY <1>1, <1>2, <1>4, FitBefore
<1>6. PICK x : Finished(x) /\ (BetweenLines(x) \/ AtTheEnd(x))
  <2>1. at # "closed" /\ \A i \in DOMAIN executed : ~QuoteOpen(executed[i])
    <3>1. at # "closed"
      BY <1>1
    <3> QED BY <1>1, <1>4, <3>1, Zenon
  <2> QED BY <1>5, <2>1, Zenon DEF WordsKept
<1>7. BetweenLines(x) /\ x \in Text
  BY <1>1, <1>6, Zenon DEF AtTheEnd, Finished
<1>8. Finished(x)'
  BY <1>1, <1>6, Zenon DEF Finished
<1>9. BetweenLines(x)'
  <2>1. Ends(x) /\ Blanked(typed) = (x \o Began) \o <<>>
    BY <1>1, <1>7, NoWords, Zenon DEF BetweenLines
  <2>2. Began \in Text
    BY <1>2, BegunText
  <2>3. x \o Began \in Text
    BY <1>7, <2>2, ConcatProperties DEF Text
  <2>4. Blanked(typed) = x \o Began
    BY <2>1, <2>3, ConcatEmptySeq DEF Text
  <2>5. Blanked(typed') = (x \o Began) \o Blanked(new)
    BY <1>1, <1>2, <2>4, BlankedConcat, Zenon
  <2>6. Began' = Began
    BY <1>1, Zenon DEF Began
  <2> QED BY <1>1, <2>1, <2>5, <2>6, Zenon DEF BetweenLines
<1> QED BY <1>8, <1>9, Zenon

\* Where lines fit, what is read is a whole line, or the last one.
LEMMA WholeLineRead ==
  ASSUME ReplTypes, TailOfTyped, LinesFit, input # <<>>
  PROVE  \E n \in 1 .. Len(input) :
           /\ Chunk = SubSeq(input, 1, n) /\ Len(Chunk) = n
           /\ \A i \in 1 .. n - 1 : Chunk[i] # NL
           /\ Chunk[n] = NL \/ (n = Len(input) /\ eof)
<1>1. PICK n \in 1 .. Len(input) :
        /\ Chunk = SubSeq(input, 1, n) /\ Len(Chunk) = n
        /\ n = Len(input) \/ input[n] = NL \/ n = Buffer - 1
        /\ \A i \in 1 .. n - 1 : input[i] # NL
  BY ChunkOfInput DEF ReplTypes
<1>2. PICK c \in Text : typed = c \o input
  BY DEF TailOfTyped
<1>3. input \in Text /\ typed \in Text /\ Buffer \in Nat /\ Buffer >= 2 /\ n \in 0 .. Len(input)
      /\ Len(input) \in Nat
  <2>1. input \in Text /\ typed \in Text
    BY DEF ReplTypes
  <2>2. Buffer \in Nat /\ Buffer >= 2
    BY ReplAssumption
  <2>3. Len(input) \in Nat
    BY <2>1, LenProperties DEF Text
  <2> QED BY <2>1, <2>2, <2>3
<1>4. Chunk \in Text /\ \A i \in 1 .. n : Chunk[i] = input[i]
  BY <1>1, <1>3, CutInTwo
<1>5. Both(typed, c, input)
  BY <1>2, <1>3, JoinedBoth
<1>6. n = Buffer - 1 => input[n] = NL
  <2>1. SUFFICES ASSUME n = Buffer - 1 PROVE input[n] = NL
    OBVIOUS
  <2> DEFINE i == Len(c) + 1
             j == Len(c) + n
  <2>2. i \in 1 .. Len(typed) - Buffer + 2 /\ i + Buffer - 2 = j
    BY <1>3, <1>5, <2>1 DEF Both
  <2>3. NL \in ToSet(SubSeq(typed, i, j))
    <3> HIDE DEF i, j
    <3> QED BY <2>2 DEF LinesFit
  <2>4. SubSeq(typed, i, j) = SubSeq(input, 1, n)
    <3>1. 1 \in 1 .. Len(input) /\ n \in 1 .. Len(input)
      BY <1>3
    <3> QED BY <1>5, <3>1, PieceBehind
  <2>5. NL \in ToSet(Chunk)
    BY <1>1, <2>3, <2>4
  <2>6. PICK k \in 1 .. Len(Chunk) : Chunk[k] = NL
    BY <1>4, <2>5, InSequence DEF Text
  <2>7. k \in 1 .. n /\ input[k] = NL
    BY <1>1, <1>4, <2>6
  <2>8. k = n
    BY <1>1, <2>7
  <2> QED BY <2>7, <2>8
<1>7. Chunk[n] = NL \/ (n = Len(input) /\ eof)
  <2>1. Chunk[n] = input[n]
    BY <1>4
  <2>2. CASE input[n] = NL
    BY <2>1, <2>2
  <2>3. CASE input[n] # NL
    <3>1. n = Len(input)
      BY <1>1, <1>6, <2>3
    <3> QED BY <2>3, <3>1 DEF TailOfTyped
  <2> QED BY <2>2, <2>3
<1>8. \A i \in 1 .. n - 1 : Chunk[i] # NL
  <2>1. \A i \in 1 .. n - 1 : i \in 1 .. n
    BY <1>3
  <2> QED BY <1>1, <1>4, <2>1
<1> QED BY <1>1, <1>7, <1>8

-----------------------------------------------------------------------------
(* Every step keeps the words.                                             *)

\* What is left after a line is the end of what was typed.
LEMMA ReadLineKeepsTail ==
  ASSUME ReplTypes, TailOfTyped, ReadLine
  PROVE  TailOfTyped'
<1> DEFINE rest == SubSeq(input, Len(Chunk) + 1, Len(input))
<1>1. input # <<>> /\ input' = rest /\ typed' = typed /\ eof' = eof
  BY Zenon DEF ReadLine
<1>2. input \in Text /\ Len(input) \in Nat
  BY LenProperties DEF ReplTypes, Text
<1>3. PICK n \in 1 .. Len(input) : Chunk = SubSeq(input, 1, n) /\ Len(Chunk) = n
  BY <1>1, <1>2, ChunkOfInput
<1>4. PICK c \in Text : typed = c \o input
  BY DEF TailOfTyped
<1>5. /\ Chunk \in Text /\ rest \in Text /\ input = Chunk \o rest
  <2>1. n \in 0 .. Len(input)
    BY <1>2
  <2> QED BY <1>2, <1>3, <2>1, CutInTwo
<1> HIDE DEF rest
<1>6. \E b \in Text : typed' = b \o input'
  <2>1. c \o Chunk \in Text
    BY <1>5, ConcatProperties DEF Text
  <2>2. (c \o Chunk) \o rest = c \o (Chunk \o rest)
    BY <1>5, TextAssociative, Zenon
  <2> QED BY <1>1, <1>4, <1>5, <2>1, <2>2, Zenon
<1>7. rest = <<>> \/ rest[Len(rest)] = input[Len(input)]
  <2>1. rest # <<>> => (Chunk \o rest)[Len(Chunk \o rest)] = rest[Len(rest)]
    BY <1>5, LastOfJoined DEF Text
  <2> QED BY <1>5, <2>1, Zenon
<1>8. input[Len(input)] = NL \/ eof
  BY <1>1 DEF TailOfTyped
<1> QED BY <1>1, <1>6, <1>7, <1>8, Zenon DEF TailOfTyped

\* A line read goes from the input to the statement.
LEMMA ReadLineKeepsWords ==
  ASSUME ReplTypes, WordsKept, TailOfTyped, ReadLine
  PROVE  WordsKept'
<1> DEFINE w == WithoutNewline(Chunk)
           whole == Joined(w)
           rest == SubSeq(input, Len(Chunk) + 1, Len(input))
<1>1. /\ at = "prompt" /\ input # <<>> /\ input' = rest /\ statement' = whole
      /\ typed' = typed /\ executed' = executed /\ eof' = eof
  BY Zenon DEF ReadLine
<1>2. SUFFICES ASSUME at' # "closed", LinesFit', \A i \in DOMAIN executed' : ~QuoteOpen(executed'[i])
               PROVE  \E x : Finished(x)' /\ (BetweenLines(x) \/ AtTheEnd(x))'
  BY Zenon DEF WordsKept
<1>3. LinesFit
  BY <1>1, <1>2 DEF LinesFit
<1>4. PICK x : Finished(x) /\ (BetweenLines(x) \/ AtTheEnd(x))
  <2>1. at # "closed" /\ \A i \in DOMAIN executed : ~QuoteOpen(executed[i])
    <3>1. at # "closed"
      BY <1>1
    <3> QED BY <1>1, <1>2, <3>1, Zenon
  <2> QED BY <1>3, <2>1, Zenon DEF WordsKept
<1>5. x \in Text /\ Ends(x) /\ Blanked(typed) = (x \o Began) \o Blanked(input)
  BY <1>1, <1>4, Zenon DEF AtTheEnd, BetweenLines, Finished
<1>6. PICK n \in 1 .. Len(input) :
           /\ Chunk = SubSeq(input, 1, n) /\ Len(Chunk) = n
           /\ \A i \in 1 .. n - 1 : Chunk[i] # NL
           /\ Chunk[n] = NL \/ (n = Len(input) /\ eof)
  BY <1>1, <1>3, WholeLineRead
<1>7. Chunk \in Text /\ rest \in Text /\ input = Chunk \o rest /\ Len(rest) = Len(input) - n
      /\ n \in Nat /\ n >= 1
  <2>1. input \in Text /\ Len(input) \in Nat
    BY LenProperties DEF ReplTypes, Text
  <2>2. n \in 0 .. Len(input)
    BY <2>1
  <2> DEFINE a == SubSeq(input, 1, n)
             b == SubSeq(input, n + 1, Len(input))
  <2>3. a \in Text /\ b \in Text /\ input = a \o b /\ Len(b) = Len(input) - n
    BY <2>1, <2>2, CutInTwo, ZenonT(60)
  <2>4. Chunk = a /\ rest = b
    BY <1>6
  <2> HIDE DEF a, b, rest
  <2> QED BY <2>1, <2>3, <2>4
<1>8. /\ w \in Text
      /\ Chunk[n] = NL => Blanked(Chunk) = w \o Blank
      /\ Chunk[n] # NL => Blanked(Chunk) = w
  BY <1>6, <1>7, ChunkBlanked
<1> HIDE DEF w, rest
<1>9. Began \in Text /\ whole = Began \o w /\ whole \in Text
  BY <1>8, BegunText
<1> HIDE DEF whole
<1>10. Blanked(input) = Blanked(Chunk) \o Blanked(rest) /\ Blanked(rest) \in Text
  BY <1>7, BlankedConcat, BlankedText
<1>11. Finished(x)'
  BY <1>1, <1>4, Zenon DEF Finished
<1>12. CASE Chunk[n] = NL
  <2>1. (x \o Began) \o ((w \o Blank) \o Blanked(rest)) = (x \o ((Began \o w) \o Blank)) \o Blanked(rest)
    <3> DEFINE e == Blanked(rest)
    <3>1. FiveTexts(x, Began, w, Blank, e)
      BY <1>5, <1>8, <1>9, <1>10, BlankText, Zenon DEF FiveTexts
    <3> HIDE DEF e
    <3>2. Regrouped(x, Began, w, Blank, e)
      BY <3>1, Regroup, Zenon
    <3> QED BY <3>2, Zenon DEF e, Regrouped
  <2>2. Blanked(typed) = (x \o (whole \o Blank)) \o Blanked(rest)
    BY <1>5, <1>8, <1>9, <1>10, <1>12, <2>1, Zenon
  <2>3. CASE whole # <<>>
    <3>1. Began' = whole \o Blank
      BY <1>1, <2>3, Zenon DEF Began
    <3>2. BetweenLines(x)'
      BY <1>1, <1>5, <2>2, <3>1, Zenon DEF BetweenLines
    <3> QED BY <1>11, <3>2, Zenon
  <2>4. CASE whole = <<>>
    <3> DEFINE y == x \o Blank
    <3>1. Began' = <<>>
      BY <1>1, <2>4, Zenon DEF Began
    <3>2. whole \o Blank = Blank
      BY <2>4, BlankText, ConcatEmptySeq DEF Text
    <3>3. y \in Text /\ Ends(y) /\ Tokens(y) = Tokens(x) /\ ~QuoteOpen(y)
      BY <1>4, <1>5, WordsBeforeSpace DEF Finished
    <3> HIDE DEF y
    <3>4. y \o <<>> = y
      BY <3>3, ConcatEmptySeq DEF Text
    <3>5. BetweenLines(y)'
      <4>1. Blanked(typed) = (y \o <<>>) \o Blanked(rest)
        BY <2>2, <3>2, <3>4, Zenon DEF y
      <4> QED BY <1>1, <3>1, <3>3, <4>1, Zenon DEF BetweenLines
    <3>6. Finished(y)'
      BY <1>1, <1>4, <3>3, Zenon DEF Finished
    <3> QED BY <3>5, <3>6, Zenon
  <2> QED BY <2>3, <2>4
<1>13. CASE Chunk[n] # NL
  <2>1. n = Len(input) /\ eof
    BY <1>6, <1>13
  <2>2. rest = <<>>
    <3>1. Len(rest) = 0
      BY <1>7, <2>1
    <3> QED BY <1>7, <3>1, EmptySeq DEF Text
  <2>3. Blanked(input) = w
    <3>1. w \o <<>> = w
      BY <1>8, ConcatEmptySeq DEF Text
    <3> QED BY <1>8, <1>10, <1>13, <2>2, <3>1, NoWords, Zenon
  <2>4. (x \o Began) \o w = x \o (Began \o w)
    BY <1>5, <1>8, <1>9, TextAssociative, Zenon
  <2>5. Blanked(typed) = x \o whole
    BY <1>5, <1>9, <2>3, <2>4, Zenon
  <2>6. AtTheEnd(x)'
    BY <1>1, <1>5, <2>1, <2>2, <2>5, Zenon DEF AtTheEnd
  <2> QED BY <1>11, <2>6, Zenon
<1> QED BY <1>12, <1>13

\* A statement executed is finished, and nothing waits.
LEMMA HandleKeepsWords ==
  ASSUME ReplTypes, CompleteOnes, WordsKept, Handle
  PROVE  WordsKept'
<1>1. /\ at = "complete" /\ executed' = Append(executed, statement) /\ statement' = <<>>
      /\ input' = input /\ typed' = typed /\ eof' = eof
  BY Zenon DEF Handle
<1>2. statement # <<>> /\ statement \in Text /\ executed \in Seq(Text)
  <2>1. Complete(statement)
    BY <1>1, Zenon DEF CompleteOnes
  <2> QED BY <2>1 DEF Complete, ReplTypes
<1>3. SUFFICES ASSUME at' # "closed", LinesFit', \A i \in DOMAIN executed' : ~QuoteOpen(executed'[i])
               PROVE  \E x : Finished(x)' /\ (BetweenLines(x) \/ AtTheEnd(x))'
  BY Zenon DEF WordsKept
<1>4. LinesFit
  BY <1>1, <1>3 DEF LinesFit
<1>5. ~QuoteOpen(statement) /\ \A i \in DOMAIN executed : ~QuoteOpen(executed[i])
  <2> DEFINE next == Append(executed, statement)
             m == Len(executed)
  <2>1. /\ DOMAIN next = 1 .. m + 1 /\ DOMAIN executed = 1 .. m /\ m \in Nat
        /\ next[m + 1] = statement
        /\ \A i \in 1 .. m : next[i] = executed[i]
    <3>1. /\ next \in Seq(Text) /\ Len(next) = m + 1
          /\ \A i \in 1 .. m : next[i] = executed[i]
          /\ next[m + 1] = statement
      BY <1>2, AppendProperties
    <3>2. DOMAIN next = 1 .. Len(next) /\ DOMAIN executed = 1 .. m /\ m \in Nat
      BY <1>2, <3>1, LenProperties
    <3> QED BY <3>1, <3>2
  <2> HIDE DEF next, m
  <2>2. m + 1 \in 1 .. m + 1 /\ \A i \in 1 .. m : i \in 1 .. m + 1
    BY <2>1
  <2>3. \A i \in DOMAIN next : ~QuoteOpen(next[i])
    BY <1>1, <1>3, Zenon DEF next
  <2> QED BY <2>1, <2>2, <2>3, Zenon
<1>6. PICK x : Finished(x) /\ (BetweenLines(x) \/ AtTheEnd(x))
  <2>1. at # "closed"
    BY <1>1
  <2> QED BY <1>4, <1>5, <2>1, Zenon DEF WordsKept
<1>7. /\ x \in Text /\ ~QuoteOpen(x) /\ Tokens(x) = FlattenSeq(Words(executed)) /\ Ends(x)
  BY <1>2, <1>6, Zenon DEF Finished, BetweenLines, AtTheEnd
<1>80. PICK y : y = x \o statement
  OBVIOUS
<1>81. PICK z : z = y \o Blank
  OBVIOUS
<1> DEFINE words == FlattenSeq(Words(Append(executed, statement)))
<1>8. y \in Text /\ Tokens(y) = Tokens(x) \o Tokens(statement) /\ ~QuoteOpen(y)
  BY <1>2, <1>5, <1>7, <1>80, WordsJoined
<1>9. words = Tokens(x) \o Tokens(statement)
  BY <1>2, <1>7, WordsAppend
<1>10. z \in Text /\ Ends(z) /\ Tokens(z) = Tokens(y) /\ ~QuoteOpen(z)
  BY <1>8, <1>81, WordsBeforeSpace
<1>11. Finished(y)' /\ Finished(z)'
  BY <1>1, <1>8, <1>9, <1>10, Zenon DEF Finished
<1>12. CASE BetweenLines(x)
  <2>1. Began = statement \o Blank /\ Began' = <<>>
    BY <1>1, <1>2, Zenon DEF Began
  <2>2. (x \o statement) \o Blank = x \o (statement \o Blank)
    BY <1>2, <1>7, BlankText, TextAssociative, Zenon
  <2>3. z \o <<>> = z
    BY <1>10, ConcatEmptySeq DEF Text
  <2>4. Blanked(typed) = (x \o Began) \o Blanked(input)
    BY <1>12, Zenon DEF BetweenLines
  <2>5. Blanked(typed) = (z \o <<>>) \o Blanked(input)
    BY <1>80, <1>81, <2>1, <2>2, <2>3, <2>4, Zenon
  <2>6. BetweenLines(z)'
    BY <1>1, <1>10, <2>1, <2>5, Zenon DEF BetweenLines
  <2> QED BY <1>11, <2>6, Zenon
<1>13. CASE AtTheEnd(x)
  <2>1. input = <<>> /\ eof /\ Blanked(typed) = y
    BY <1>13, <1>80, Zenon DEF AtTheEnd
  <2>2. y \o <<>> = y
    BY <1>8, ConcatEmptySeq DEF Text
  <2>3. AtTheEnd(y)'
    BY <1>1, <2>1, <2>2, Zenon DEF AtTheEnd
  <2> QED BY <1>11, <2>3, Zenon
<1> QED BY <1>6, <1>12, <1>13

\* Every step keeps the words.
LEMMA NextKeepsWords ==
  ReplTypes /\ CompleteOnes /\ WordsKept /\ TailOfTyped /\ [Next]_vars => WordsKept' /\ TailOfTyped'
<1> SUFFICES ASSUME ReplTypes, CompleteOnes, WordsKept, TailOfTyped, [Next]_vars
             PROVE  WordsKept' /\ TailOfTyped'
  OBVIOUS
<1>1. ASSUME NEW line \in Lines, NEW ending \in {<<NL>>, <<>>}, Type(line, ending)
      PROVE  WordsKept' /\ TailOfTyped'
  BY <1>1, TypeKeepsWords
<1>2. CASE ReadLine
  BY <1>2, ReadLineKeepsTail, ReadLineKeepsWords
<1>3. CASE Handle
  <2>1. input' = input /\ typed' = typed /\ eof' = eof
    BY <1>3, Zenon DEF Handle
  <2>2. TailOfTyped'
    BY <2>1, Zenon DEF TailOfTyped
  <2> QED BY <1>3, <2>2, HandleKeepsWords
<1>4. ASSUME at' = "closed" \/ at # "closed", UNCHANGED <<input, eof, executed, typed>>,
             at' = "closed" \/ statement' = statement
      PROVE  WordsKept' /\ TailOfTyped'
  <2>1. TailOfTyped'
    BY <1>4, Zenon DEF TailOfTyped
  <2>2. CASE at' = "closed"
    BY <2>1, <2>2, Zenon DEF WordsKept
  <2>3. CASE at' # "closed"
    <3>1. at # "closed" /\ UNCHANGED <<input, eof, statement, executed, typed>>
      BY <1>4, <2>3, Zenon
    <3>2. WordsKept'
      BY <3>1, Zenon DEF WordsKept, LinesFit, Finished, BetweenLines, AtTheEnd, Began
    <3> QED BY <2>1, <3>2
  <2> QED BY <2>2, <2>3
<1>5. CASE EndOfInput \/ Quit \/ Interrupted \/ Close
  <2>1. /\ at' = "closed" \/ at # "closed"
        /\ UNCHANGED <<input, eof, executed, typed>>
        /\ at' = "closed" \/ statement' = statement
    BY <1>5 DEF EndOfInput, Quit, Interrupted, Close
  <2> QED BY <1>4, <2>1
<1>6. CASE UNCHANGED vars
  <2>1. UNCHANGED <<input, eof, at, statement, executed, typed>>
    BY <1>6, Zenon DEF vars
  <2>2. at' = "closed" \/ at # "closed"
    BY <2>1, Zenon
  <2> QED BY <1>4, <2>1, <2>2, Zenon
<1> QED BY <1>1, <1>2, <1>3, <1>5, <1>6 DEF Next, Program

\* As long as lines fit the buffer and no quote is open where a statement is
\* taken to end, the parser gets the words that were typed (repl.c:280-299).
THEOREM WordsReachParser == Spec => []WordsAsTyped
<1>1. ReplTypes /\ WordsKept => WordsAsTyped
  <2> SUFFICES ASSUME ReplTypes, WordsKept, Reading, LinesFit,
                      \A i \in DOMAIN executed : ~QuoteOpen(executed[i])
               PROVE  FlattenSeq([i \in DOMAIN Read |-> Tokens(Read[i])])
                        = Tokens([i \in DOMAIN typed |-> IF typed[i] = NL THEN " " ELSE typed[i]])
    BY Zenon DEF WordsAsTyped
  <2>1. SUFFICES FlattenSeq(Words(Append(executed, statement))) = Tokens(Blanked(typed))
    BY Zenon DEF Words, Blanked, Read
  <2>2. input = <<>> /\ at # "closed" /\ statement \in Text /\ executed \in Seq(Text)
    BY DEF Reading, ReplTypes
  <2>3. PICK x : Finished(x) /\ (BetweenLines(x) \/ AtTheEnd(x))
    BY <2>2, Zenon DEF WordsKept
  <2>4. x \in Text /\ ~QuoteOpen(x) /\ Tokens(x) = FlattenSeq(Words(executed))
    BY <2>3, Zenon DEF Finished
  <2>5. FlattenSeq(Words(Append(executed, statement))) = Tokens(x) \o Tokens(statement)
    BY <2>2, <2>4, WordsAppend
  <2>6. ASSUME Ends(x) \/ statement = <<>>
        PROVE  Tokens(x \o statement) = Tokens(x) \o Tokens(statement) /\ x \o statement \in Text
    BY <2>2, <2>4, <2>6, WordsJoined
  <2>7. CASE AtTheEnd(x)
    BY <2>5, <2>6, <2>7, Zenon DEF AtTheEnd
  <2>8. CASE BetweenLines(x)
    <3>1. Ends(x) /\ Blanked(typed) = (x \o Began) \o <<>>
      BY <2>2, <2>8, NoWords, Zenon DEF BetweenLines
    <3>2. Began \in Text
      BY <2>2, BegunText
    <3>3. Blanked(typed) = x \o Began
      <4>1. x \o Began \in Text
        BY <2>4, <3>2, ConcatProperties DEF Text
      <4> QED BY <3>1, <4>1, ConcatEmptySeq DEF Text
    <3>4. CASE statement = <<>>
      <4>1. Began = statement
        BY <3>4, Zenon DEF Began
      <4> QED BY <2>5, <2>6, <3>3, <3>4, <4>1, Zenon
    <3>5. CASE statement # <<>>
      <4>1. Began = statement \o Blank
        BY <3>5, Zenon DEF Began
      <4>2. (x \o statement) \o Blank = x \o (statement \o Blank)
        BY <2>2, <2>4, BlankText, TextAssociative, Zenon
      <4> DEFINE y == x \o statement
      <4>3. y \in Text /\ Tokens(y) = Tokens(x) \o Tokens(statement)
        BY <2>6, <3>1
      <4> HIDE DEF y
      <4>4. Tokens(y \o Blank) = Tokens(y)
        BY <4>3, WordsBeforeSpace
      <4> QED BY <2>5, <3>3, <4>1, <4>2, <4>3, <4>4, Zenon DEF y
    <3> QED BY <3>4, <3>5
  <2> QED BY <2>3, <2>7, <2>8
<1> QED BY <1>1, InitReadsAll, NextReadsAll, InitComplete, NextKeepsComplete,
           InitKeepsWords, NextKeepsWords, PTL DEF Spec

=============================================================================
