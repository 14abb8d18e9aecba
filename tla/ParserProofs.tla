---------------------------- MODULE ParserProofs ----------------------------
(***************************************************************************)
(* Proofs about the SQL parser (module Parser).  A parse that fails leaves *)
(* a half-built statement, and both front ends execute it when has_error   *)
(* is not set; the invariant says, for every place where the parser can    *)
(* be, what such a statement may hold.  The last part is about texts that  *)
(* are statements as they should be (module WrittenStatements).            *)
(***************************************************************************)
EXTENDS WrittenStatements, SequenceLemmas

\* The statement is of its type, and no list is longer than its array.
StatementOK(s) ==
  /\ s \in Statements
  /\ Len(s.columns) <= MaxColumns
  /\ Len(s.select) <= MaxColumns
  /\ Len(s.values) <= MaxColumns
  /\ Len(s.set_columns) <= MaxColumns
  /\ s.column_count \in {0, Len(s.columns)}
  /\ s.value_count \in {0, Len(s.values)}
  /\ s.select_count \in {0, Len(s.select)}
  /\ s.set_count \in {0, Len(s.set_values)}
  /\ Len(s.where_value) <= 1

\* All of the statement was read.
Finished(place, ok) == ok \/ place = "end"

\* Which statement is under construction where.
KindOK(place, s, ok) ==
  /\ place \in CreatePlaces => s.type = "CREATE"
  /\ place \in InsertPlaces => s.type = "INSERT"
  /\ place \in SetPlaces => s.type = "UPDATE"
  /\ place \in SelectPlaces => s.type = "SELECT"
  /\ place \in WherePlaces => s.type \in {"SELECT", "DELETE", "UPDATE"}
  /\ place = "name" => s.type \in Commands
  /\ s.type = "UNKNOWN" => place \in {"done", "ran"} /\ s.has_error
  /\ s.type = "SHOW TABLES" => Finished(place, ok)
  /\ ok => place \in {"done", "ran"}

\* What is counted belongs to a list that was read to its end, and a filter to
\* a statement that was; a SET list may be whole and what follows it not, but
\* then WHERE has been read.
CountOK(place, s, ok) ==
  /\ s.column_count # 0 => place \in {"end", "done", "ran"}
  /\ s.value_count # 0 => Finished(place, ok)
  /\ s.select_count # 0 => place \notin {"start", "select_first", "select_columns"}
  /\ s.where_value # <<>> => Finished(place, ok)
  /\ s.set_count # 0 =>
       /\ place \in {"where_or_end", "where_column", "where_operator", "where_value", "end", "done", "ran"}
       /\ Finished(place, ok) \/ s.has_where \/ place = "where_or_end"

\* A column has its entry before its type is read, and a SET clause has a value
\* for each column but the one it is about to read.
ListsOK(place, s) ==
  /\ place \in CreatePlaces \ {"create", "columns", "column"} => s.columns # <<>>
  /\ place \notin {"done", "ran"} =>
       Len(s.set_columns) = Len(s.set_values) + (IF place \in {"set_equals", "set_value"} THEN 1 ELSE 0)

Shape(place, s, ok) == KindOK(place, s, ok) /\ CountOK(place, s, ok) /\ ListsOK(place, s)

\* Where the parser gives up without has_error, the text is at its end or the
\* statement writes no row.
ReadInv ==
  at \in {"done", "ran"} /\ ~stmt.has_error /\ Tok # NULL => stmt.type \in {"SELECT", "CREATE"}

\* Nothing has an effect before it is executed.
EffectInv ==
  IF at = "ran" THEN \E front \in FrontEnds : effect = EffectOn(front)
  ELSE effect = NoEffect

ParserInv == TypeOK /\ Shape(at, stmt, parse_success) /\ ReadInv /\ EffectInv

-----------------------------------------------------------------------------
(* Tokens, and what is made of one.                                        *)

\* A token that is not NULL is one of the text, and is there to be taken.
LEMMA TokenTaken ==
  ASSUME TypeOK
  PROVE  Tok # NULL => Tok \in Vocabulary /\ pos + 1 \in 1 .. Len(text.tokens) + 1
<1>1. /\ text.tokens \in Seq(Vocabulary)
      /\ Len(text.tokens) \in Nat
      /\ pos \in 1 .. Len(text.tokens) + 1
  BY LenProperties DEF TypeOK
<1>3. CASE pos <= Len(text.tokens)
  <2>1. pos \in 1 .. Len(text.tokens)
    BY <1>1, <1>3
  <2>2. text.tokens[pos] \in Vocabulary
    BY <1>1, <2>1, ElementOfSeq
  <2>3. Tok = text.tokens[pos]
    BY <1>3 DEF Tok
  <2> QED BY <2>2, <2>3, <2>1, <1>1
<1>4. CASE ~(pos <= Len(text.tokens))
  BY <1>4 DEF Tok
<1> QED BY <1>3, <1>4

\* A name is kept as it is, or what is left of it.
LEMMA NameKept ==
  /\ \A tok \in Names : AsTable(tok) \in Names /\ AsColumn(tok) \in Names /\ AsJoinColumn(tok) \in Names
  /\ \A tok \in STRING : AsTable(tok) \in STRING /\ AsColumn(tok) \in STRING /\ AsJoinColumn(tok) \in STRING
<1>1. ASSUME NEW short \in {Unqualified, CutColumns, CutTables}
      PROVE  /\ \A tok \in Names : Shortened(short, tok) \in Names
             /\ \A tok \in STRING : Shortened(short, tok) \in STRING
  <2>1. \A tok \in DOMAIN short : short[tok] \in Names
    BY DEF Names
  <2>2. \A tok \in DOMAIN short : short[tok] \in STRING
    BY ParserAssumption, Zenon
  <2> QED BY <2>1, <2>2, Zenon DEF Shortened
<1> QED BY <1>1, Zenon DEF AsTable, AsColumn, AsJoinColumn

\* Numbers and literals are read from any token.
LEMMA TokenRead ==
  ASSUME NEW tok \in Vocabulary
  PROVE  /\ Atoi(tok) \in Int
         /\ Value(tok) \in Literals
         /\ DataType(tok) \in {"INT", "FLOAT", "STRING", "BOOL"}
         /\ Operator(tok) \in Operators
<1>1. Atoi(tok) \in Int
  BY ParserAssumption DEF Atoi
<1>2. Value(tok) \in Literals
  <2>1. tok \in Names /\ "" \in Names
    BY DEF Names
  <2>2. \A t \in {"STRING", "INT"}, i \in Int, s \in Names :
          [type |-> t, int |-> i, str |-> s] \in Literals
    BY DEF Literals
  <2>3. CASE tok \in Quoted
    <3>1. Value(tok) = [type |-> "STRING", int |-> 0, str |-> tok]
      BY <2>3, Zenon DEF Value
    <3>2. 0 \in Int
      OBVIOUS
    <3>3. [type |-> "STRING", int |-> 0, str |-> tok] \in Literals
      BY <2>1, <2>2, <3>2, Zenon
    <3> QED BY <3>1, <3>3, Zenon
  <2>4. CASE tok \notin Quoted
    <3>1. Value(tok) = [type |-> "INT", int |-> Atoi(tok), str |-> ""]
      BY <2>4, Zenon DEF Value
    <3>2. [type |-> "INT", int |-> Atoi(tok), str |-> ""] \in Literals
      BY <1>1, <2>1, <2>2
    <3> QED BY <3>1, <3>2, Zenon
  <2> QED BY <2>3, <2>4
<1> QED BY <1>1, <1>2 DEF DataType, Operator, Operators

-----------------------------------------------------------------------------
(* Steps that go from one place to another.                                *)

\* The fields of a statement.
LEMMA StatementFields ==
  ASSUME NEW s, StatementOK(s)
  PROVE  /\ s.type \in Commands \cup {"SHOW TABLES", "UNKNOWN"}
         /\ s.columns \in Seq(Columns) /\ Len(s.columns) \in Nat
         /\ s.select \in Seq(Names) /\ Len(s.select) \in Nat
         /\ s.values \in Seq(Literals) /\ Len(s.values) \in Nat
         /\ s.set_columns \in Seq(Names) /\ Len(s.set_columns) \in Nat
         /\ s.set_values \in Seq(Literals) /\ Len(s.set_values) \in Nat
         /\ s.where_value \in Seq(Int) /\ Len(s.where_value) \in Nat
         /\ s.join \in Seq(JoinParts)
BY LenProperties DEF StatementOK, Statements

\* A step of the parser keeps the invariant when the statement it leaves is one
\* for the place it goes to, and it gives up only as ReadInv allows.
LEMMA GoKeeps ==
  ASSUME ParserInv, at \notin {"done", "ran"},
         NEW place \in Places \ {"ran"}, NEW s, NEW tokens \in {0, 1},
         Go(place, s, tokens),
         tokens = 1 => Tok # NULL,
         StatementOK(s), Shape(place, s, FALSE),
         place = "done" => \/ s.has_error
                           \/ s.type \in {"SELECT", "CREATE"}
                           \/ tokens = 0 /\ Tok = NULL
  PROVE  ParserInv'
<1>1. /\ at' = place /\ stmt' = s /\ pos' = pos + tokens
      /\ text' = text /\ parse_success' = parse_success /\ effect' = effect
  BY DEF Go
<1>2. parse_success = FALSE
  BY DEF ParserInv, TypeOK, Shape, KindOK
<1>3. pos' \in 1 .. Len(text.tokens) + 1
  <2>1. pos \in 1 .. Len(text.tokens) + 1 /\ pos + 0 = pos
    BY DEF ParserInv, TypeOK
  <2> QED BY <1>1, <2>1, TokenTaken DEF ParserInv
<1>4. TypeOK'
  BY <1>1, <1>3 DEF ParserInv, TypeOK, StatementOK
<1>5. Shape(at, stmt, parse_success)'
  BY <1>1, <1>2
<1>6. ReadInv'
  <2>1. tokens = 0 => Tok' = Tok
    BY <1>1 DEF Tok, ParserInv, TypeOK
  <2> QED BY <1>1, <2>1 DEF ReadInv
<1>7. EffectInv'
  BY <1>1 DEF ParserInv, EffectInv
<1> QED BY <1>4, <1>5, <1>6, <1>7 DEF ParserInv

\* A step that takes a token.
LEMMA TakeKeeps ==
  ASSUME ParserInv, at \notin {"done", "ran"}, Tok # NULL,
         NEW place \in Places \ {"ran"}, NEW s, Take(place, s),
         StatementOK(s), Shape(place, s, FALSE),
         place = "done" => s.has_error \/ s.type \in {"SELECT", "CREATE"}
  PROVE  ParserInv'
<1>1. 1 \in {0, 1}
  OBVIOUS
<1>2. Go(place, s, 1)
  BY DEF Take
<1> QED BY <1>1, <1>2, GoKeeps

\* A step that only looks at the next token.
LEMMA PeekKeeps ==
  ASSUME ParserInv, at \notin {"done", "ran"},
         NEW place \in Places \ {"ran"}, NEW s, Peek(place, s),
         StatementOK(s), Shape(place, s, FALSE),
         place = "done" => s.has_error \/ s.type \in {"SELECT", "CREATE"} \/ Tok = NULL
  PROVE  ParserInv'
<1>1. 0 \in {0, 1} /\ 0 # 1
  OBVIOUS
<1>2. Go(place, s, 0)
  BY DEF Peek
<1> QED BY <1>1, <1>2, GoKeeps

\* What a step of the parser begins with.
LEMMA Underway ==
  ASSUME ParserInv, at \notin {"done", "ran"}
  PROVE  /\ StatementOK(stmt)
         /\ Shape(at, stmt, FALSE)
         /\ at \in Places
         /\ Tok # NULL =>
              /\ Tok \in Vocabulary /\ Tok \in Names
              /\ AsTable(Tok) \in Names /\ AsColumn(Tok) \in Names /\ AsJoinColumn(Tok) \in Names
<1>1. parse_success = FALSE
  BY DEF ParserInv, TypeOK, Shape, KindOK
<1>2. StatementOK(stmt)
  BY DEF ParserInv, TypeOK, StatementOK
<1>3. Shape(at, stmt, FALSE)
  BY <1>1 DEF ParserInv
<1>4. at \in Places
  BY DEF ParserInv, TypeOK
<1>5. Tok # NULL => Tok \in Vocabulary /\ Tok \in Names
  BY TokenTaken DEF ParserInv, Names
<1> QED BY <1>2, <1>3, <1>4, <1>5, NameKept, Zenon

\* All that Shape looks at in a statement.
Alike(s, t) ==
  /\ t.type = s.type /\ (s.has_error => t.has_error) /\ t.has_where = s.has_where
  /\ t.columns = s.columns /\ t.column_count = s.column_count
  /\ t.value_count = s.value_count /\ t.select_count = s.select_count
  /\ t.set_columns = s.set_columns /\ t.set_values = s.set_values /\ t.set_count = s.set_count
  /\ t.where_value = s.where_value

\* What looks alike has the same shape.
LEMMA AlikeShape ==
  ASSUME NEW s, NEW t, Alike(s, t)
  PROVE  \A place : Shape(place, s, FALSE) => Shape(place, t, FALSE)
<1> SUFFICES ASSUME NEW place, Shape(place, s, FALSE)
             PROVE  Shape(place, t, FALSE)
  OBVIOUS
<1>1. KindOK(place, t, FALSE)
  BY Zenon DEF Alike, Shape, KindOK
<1>2. CountOK(place, t, FALSE)
  BY Zenon DEF Alike, Shape, CountOK
<1>3. ListsOK(place, t)
  BY Zenon DEF Alike, Shape, ListsOK
<1> QED BY <1>1, <1>2, <1>3 DEF Shape

\* has_error set is a field among others.
LEMMA ErrorIs ==
  ASSUME StatementOK(stmt)
  PROVE  /\ StatementOK(Error)
         /\ Error.has_error
         /\ Error.type = stmt.type
         /\ \A place : Shape(place, stmt, FALSE) => Shape(place, Error, FALSE)
<1>1. StatementOK(Error) /\ Error.has_error
  BY DEF StatementOK, Error, Statements
<1>2. Alike(stmt, Error) /\ Error.type = stmt.type
  BY DEF StatementOK, Error, Statements, Alike
<1> QED BY <1>1, <1>2, AlikeShape

\* To give up is possible everywhere.
LEMMA GivingUp ==
  ASSUME StatementOK(stmt), Shape(at, stmt, FALSE), at \notin {"where_or_end", "end", "done", "ran"}
  PROVE  Shape("done", stmt, FALSE)
BY DEF Shape, KindOK, CountOK, ListsOK, Finished, CreatePlaces, InsertPlaces, SetPlaces,
       SelectPlaces, WherePlaces

\* parse_sql: each statement begins with a blank SQLStatement.
LEMMA BeginKeeps ==
  ASSUME ParserInv, Begin
  PROVE  ParserInv'
<1> DEFINE typed(t) == [stmt EXCEPT !.type = t]
           create == [stmt EXCEPT !.type = "CREATE", !.primary_key_index = -1]
           unknown == [Error EXCEPT !.type = "UNKNOWN"]
<1>1. /\ StatementOK(stmt) /\ Shape("start", stmt, FALSE)
      /\ at = "start" /\ Tok # NULL
  BY Underway DEF Begin
<1>2. \A t \in Commands : StatementOK(typed(t))
  BY <1>1 DEF StatementOK, Statements
<1>3. StatementOK(create)
  <2>1. -1 \in -1 .. MaxColumns - 1
    BY ParserAssumption
  <2> QED BY <1>1, <2>1 DEF StatementOK, Statements, Commands
<1>4. StatementOK(unknown) /\ unknown.has_error
  BY <1>1, ErrorIs DEF StatementOK, Statements
<1> USE DEF Shape, KindOK, CountOK, ListsOK, Finished, CreatePlaces, InsertPlaces,
            SetPlaces, SelectPlaces, WherePlaces
<1>5. Shape("select_first", stmt, FALSE) /\ Shape("show", stmt, FALSE)
  BY <1>1
<1>6. /\ Shape("insert", typed("INSERT"), FALSE)
      /\ Shape("delete", typed("DELETE"), FALSE)
      /\ Shape("name", typed("UPDATE"), FALSE)
      /\ Shape("name", typed("DROP"), FALSE)
  BY <1>1 DEF StatementOK, Statements, Commands
<1>7. Shape("create", create, FALSE)
  BY <1>1 DEF StatementOK, Statements
<1>8. Shape("done", unknown, FALSE)
  BY <1>1, <1>4, ErrorIs DEF StatementOK, Statements
<1> HIDE DEF Shape, typed, create, unknown
<1>9. {"select_first", "show", "insert", "delete", "name", "create", "done"} \subseteq Places \ {"ran"}
  BY DEF Places
<1> HIDE DEF CreatePlaces, InsertPlaces, SetPlaces, SelectPlaces, WherePlaces
<1>10. \/ Take("select_first", stmt)
       \/ Take("insert", typed("INSERT"))
       \/ Take("delete", typed("DELETE"))
       \/ Take("name", typed("UPDATE"))
       \/ Take("name", typed("DROP"))
       \/ Take("create", create)
       \/ Take("show", stmt)
       \/ Take("done", unknown)
  BY Zenon DEF Begin, typed, create, unknown
<1> QED BY <1>1, <1>2, <1>3, <1>4, <1>5, <1>6, <1>7, <1>8, <1>9, <1>10, TakeKeeps DEF Commands

\* SHOW without TABLES leaves a blank SELECT.
LEMMA ShowKeeps ==
  ASSUME ParserInv, Show
  PROVE  ParserInv'
<1> DEFINE show == [stmt EXCEPT !.type = "SHOW TABLES"]
<1>1. StatementOK(stmt) /\ Shape("show", stmt, FALSE) /\ at = "show" /\ Tok # NULL
  BY Underway DEF Show
<1>2. StatementOK(show) /\ stmt.type = "SELECT"
  BY <1>1 DEF StatementOK, Statements, Shape, KindOK, SelectPlaces
<1>3. Shape("end", show, FALSE)
  BY <1>1 DEF StatementOK, Statements, Shape, KindOK, CountOK, ListsOK, Finished, CreatePlaces,
     InsertPlaces, SetPlaces, SelectPlaces, WherePlaces
<1>4. Shape("done", stmt, FALSE)
  BY <1>1, GivingUp
<1>5. Take("end", show) \/ Take("done", stmt)
  BY Zenon DEF Show
<1>6. {"end", "done"} \subseteq Places \ {"ran"}
  BY DEF Places
<1> HIDE DEF show
<1> QED BY <1>1, <1>2, <1>3, <1>4, <1>5, <1>6, TakeKeeps

\* expect_token: what is not expected is an error.
LEMMA ExpectKeeps ==
  ASSUME ParserInv, Expect
  PROVE  ParserInv'
<1>1. StatementOK(stmt) /\ Shape(at, stmt, FALSE) /\ at \in DOMAIN Expected /\ Tok # NULL
      /\ at \notin {"where_or_end", "end", "done", "ran"}
  BY Underway DEF Expect, Expected
<1>2. Shape(Expected[at][2], stmt, FALSE)
  <2> DEFINE next == Expected[at][2]
  <2>1. \/ at \in {"create", "insert", "delete"} /\ next = "name"
        \/ at = "columns" /\ next = "column"
        \/ at = "length_end" /\ next = "constraint"
        \/ at = "values" /\ next = "values_open"
        \/ at = "values_open" /\ next = "value"
        \/ at = "set" /\ next = "set_column"
        \/ at = "set_equals" /\ next = "set_value"
        \/ at = "join" /\ next = "join_table"
        \/ at = "join_on" /\ next = "join_left"
        \/ at = "join_equals" /\ next = "join_right"
    BY <1>1 DEF Expected
  <2> HIDE DEF next
  <2> USE DEF CreatePlaces, InsertPlaces, SetPlaces, SelectPlaces, WherePlaces
  <2>2. KindOK(next, stmt, FALSE)
    BY <1>1, <2>1 DEF Shape, KindOK, Finished, Commands
  <2>3. CountOK(next, stmt, FALSE)
    BY <1>1, <2>1 DEF Shape, CountOK, Finished
  <2>4. ListsOK(next, stmt)
    BY <1>1, <2>1 DEF Shape, ListsOK
  <2> QED BY <2>2, <2>3, <2>4 DEF Shape, next
<1>3. Shape("done", Error, FALSE) /\ StatementOK(Error) /\ Error.has_error
  BY <1>1, ErrorIs, GivingUp
<1>4. Expected[at][2] \in Places \ {"ran", "done"} /\ "done" \in Places \ {"ran"}
  BY <1>1 DEF Expected, Places, CreatePlaces, InsertPlaces, SetPlaces, SelectPlaces, WherePlaces
<1>5. Take(Expected[at][2], stmt) \/ Take("done", Error)
  BY Zenon DEF Expect
<1> QED BY <1>1, <1>2, <1>3, <1>4, <1>5, TakeKeeps

\* At the end of the text nothing more is read.
LEMMA EndOfTextKeeps ==
  ASSUME ParserInv, EndOfText
  PROVE  ParserInv'
<1> DEFINE unknown == [Error EXCEPT !.type = "UNKNOWN"]
<1>1. /\ StatementOK(stmt) /\ Shape(at, stmt, FALSE) /\ Tok = NULL
      /\ at \notin {"where_or_end", "end", "done", "ran"}
  BY Underway DEF EndOfText, Peeks
<1>2. StatementOK(Error) /\ Error.has_error
  BY <1>1, ErrorIs
<1>3. StatementOK(unknown) /\ unknown.has_error /\ unknown.type = "UNKNOWN"
  BY <1>2 DEF StatementOK, Statements
<1>4. Shape("done", stmt, FALSE) /\ Shape("done", Error, FALSE)
  BY <1>1, ErrorIs, GivingUp
<1>5. Shape("done", unknown, FALSE)
  BY <1>2, <1>3, <1>4 DEF StatementOK, Statements, Shape, KindOK, CountOK, ListsOK, Finished, CreatePlaces,
     InsertPlaces, SetPlaces, SelectPlaces, WherePlaces
<1>6. at = "skip" => Shape("values", stmt, FALSE)
  BY <1>1 DEF Shape, KindOK, CountOK, ListsOK, Finished, CreatePlaces,
     InsertPlaces, SetPlaces, SelectPlaces, WherePlaces
<1>7. \/ Peek("done", unknown)
      \/ Peek("done", Error)
      \/ at = "skip" /\ Peek("values", stmt)
      \/ Peek("done", stmt)
  BY Zenon DEF EndOfText
<1>8. {"values", "done"} \subseteq Places \ {"ran"}
  BY DEF Places, InsertPlaces
<1> HIDE DEF unknown
<1>9. CASE at = "skip" /\ Peek("values", stmt)
  BY <1>1, <1>6, <1>8, <1>9, PeekKeeps
<1>10. CASE Peek("done", unknown) \/ Peek("done", Error) \/ Peek("done", stmt)
  <2>1. \E s \in {unknown, Error, stmt} : Peek("done", s)
    BY <1>10, Zenon
  <2>2. PICK s \in {unknown, Error, stmt} : Peek("done", s)
    BY <2>1
  <2>3. StatementOK(s) /\ Shape("done", s, FALSE)
    BY <1>1, <1>2, <1>3, <1>4, <1>5
  <2> QED BY <1>1, <1>8, <2>2, <2>3, PeekKeeps
<1> QED BY <1>7, <1>9, <1>10

\* The name of a table leads on in its statement.
LEMMA TableNameKeeps ==
  ASSUME ParserInv, TableName
  PROVE  ParserInv'
<1> DEFINE named == [stmt EXCEPT !.table = AsTable(Tok)]
           place == AfterName[stmt.type]
<1>1. StatementOK(stmt) /\ Shape("name", stmt, FALSE) /\ at = "name" /\ Tok # NULL /\ AsTable(Tok) \in Names
  BY Underway DEF TableName
<1>2. StatementOK(named)
  BY <1>1 DEF StatementOK, Statements
<1>3. stmt.type \in Commands
  BY <1>1 DEF Shape, KindOK
<1>4. Shape(place, stmt, FALSE)
  <2>1. \/ stmt.type = "CREATE" /\ place = "columns"
        \/ stmt.type = "INSERT" /\ place = "insert_columns"
        \/ stmt.type = "UPDATE" /\ place = "set"
        \/ stmt.type = "DELETE" /\ place = "where_or_end"
        \/ stmt.type = "DROP" /\ place = "end"
        \/ stmt.type = "SELECT" /\ place = "join_or_where"
    BY <1>3 DEF AfterName, Commands
  <2> HIDE DEF place
  <2> USE DEF CreatePlaces, InsertPlaces, SetPlaces, SelectPlaces, WherePlaces
  <2>2. KindOK(place, stmt, FALSE)
    BY <1>1, <2>1 DEF Shape, KindOK, Finished, Commands
  <2>3. CountOK(place, stmt, FALSE)
    BY <1>1, <2>1 DEF Shape, CountOK, Finished
  <2>4. ListsOK(place, stmt)
    BY <1>1, <2>1 DEF Shape, ListsOK
  <2> QED BY <2>2, <2>3, <2>4 DEF Shape
<1>5. Alike(stmt, named)
  BY <1>1 DEF StatementOK, Statements, Alike
<1>6. place \in Places \ {"ran", "done"}
  BY <1>3 DEF AfterName, Commands, Places, CreatePlaces, InsertPlaces, SetPlaces, SelectPlaces, WherePlaces
<1>7. Take(place, named)
  BY DEF TableName
<1> HIDE DEF place, named
<1>8. Shape(place, named, FALSE)
  BY <1>4, <1>5, AlikeShape
<1> QED BY <1>1, <1>2, <1>6, <1>7, <1>8, TakeKeeps

\* A WHERE may follow, and is read.
LEMMA WhereOrEndKeeps ==
  ASSUME ParserInv, WhereOrEnd
  PROVE  ParserInv'
<1> DEFINE filtered == [stmt EXCEPT !.has_where = TRUE]
<1>1. StatementOK(stmt) /\ Shape("where_or_end", stmt, FALSE) /\ at = "where_or_end"
  BY Underway DEF WhereOrEnd
<1>2. StatementOK(filtered)
  BY <1>1 DEF StatementOK, Statements
<1>3. Shape("where_column", filtered, FALSE)
  BY <1>1 DEF StatementOK, Statements, Shape, KindOK, CountOK, ListsOK, Finished, CreatePlaces,
     InsertPlaces, SetPlaces, SelectPlaces, WherePlaces
<1>4. Shape("end", stmt, FALSE)
  BY <1>1 DEF Shape, KindOK, CountOK, ListsOK, Finished, CreatePlaces,
     InsertPlaces, SetPlaces, SelectPlaces, WherePlaces
<1>5. {"where_column", "end"} \subseteq Places \ {"ran", "done"}
  BY DEF Places, WherePlaces
<1>6. Tok = "WHERE" => Tok # NULL
  BY DEF NULL
<1>7. \/ Tok = "WHERE" /\ Take("where_column", filtered)
      \/ Peek("end", stmt)
  BY Zenon DEF WhereOrEnd
<1> HIDE DEF filtered
<1> QED BY <1>1, <1>2, <1>3, <1>4, <1>5, <1>6, <1>7, TakeKeeps, PeekKeeps

\* parse_where_clause: the filter is there only when its value was read.
LEMMA WhereKeeps ==
  ASSUME ParserInv, WhereColumn \/ WhereOperator \/ WhereValue
  PROVE  ParserInv'
<1> DEFINE column == [stmt EXCEPT !.where_column = AsColumn(Tok)]
           operator == [stmt EXCEPT !.where_operator = Operator(Tok)]
           value == [stmt EXCEPT !.where_value = <<Atoi(Tok)>>]
<1>1. /\ StatementOK(stmt) /\ Shape(at, stmt, FALSE) /\ Tok # NULL
      /\ at \in {"where_column", "where_operator", "where_value"}
      /\ Tok \in Vocabulary /\ AsColumn(Tok) \in Names
  BY Underway DEF WhereColumn, WhereOperator, WhereValue
<1>2. StatementOK(column)
  BY <1>1 DEF StatementOK, Statements
<1>3. StatementOK(operator)
  BY <1>1, TokenRead DEF StatementOK, Statements
<1>4. StatementOK(value)
  <2> DEFINE read == <<Atoi(Tok)>>
  <2>1. read \in Seq(Int) /\ Len(read) = 1
    BY <1>1, TokenRead
  <2>2. value = [stmt EXCEPT !.where_value = read]
    OBVIOUS
  <2> HIDE DEF read, value
  <2>3. value \in Statements /\ value.where_value = read
    BY <1>1, <2>1, <2>2 DEF StatementOK, Statements
  <2>4. Len(value.where_value) = 1
    BY <2>1, <2>3, Zenon
  <2>5. \A n \in Nat : n = 1 => n <= 1
    OBVIOUS
  <2>6. Len(value.where_value) <= 1
    BY <2>4, <2>5, Zenon
  <2>7. /\ value.columns = stmt.columns /\ value.column_count = stmt.column_count
        /\ value.select = stmt.select /\ value.select_count = stmt.select_count
        /\ value.values = stmt.values /\ value.value_count = stmt.value_count
        /\ value.set_columns = stmt.set_columns
        /\ value.set_values = stmt.set_values /\ value.set_count = stmt.set_count
    BY <1>1, <2>2 DEF StatementOK, Statements
  <2> QED BY <1>1, <2>3, <2>6, <2>7, Zenon DEF StatementOK
<1> USE DEF Shape, KindOK, CountOK, ListsOK, Finished, CreatePlaces, InsertPlaces,
            SetPlaces, SelectPlaces, WherePlaces
<1>5. at = "where_column" => Shape("where_operator", column, FALSE)
  BY <1>1 DEF StatementOK, Statements
<1>6. at = "where_operator" => Shape("where_value", operator, FALSE)
  BY <1>1 DEF StatementOK, Statements
<1>7. at = "where_value" => Shape("end", value, FALSE)
  BY <1>1 DEF StatementOK, Statements
<1> HIDE DEF Shape
<1>8. {"where_operator", "where_value", "end"} \subseteq Places \ {"ran", "done"}
  BY DEF Places
<1> HIDE DEF CreatePlaces, InsertPlaces, SetPlaces, SelectPlaces, WherePlaces
<1>9. \/ at = "where_column" /\ Take("where_operator", column)
      \/ at = "where_operator" /\ Take("where_value", operator)
      \/ at = "where_value" /\ Take("end", value)
  BY Zenon DEF WhereColumn, WhereOperator, WhereValue
<1> HIDE DEF column, operator, value
<1> QED BY <1>1, <1>2, <1>3, <1>4, <1>5, <1>6, <1>7, <1>8, <1>9, TakeKeeps

\* A statement that was parsed ends the text, or is an error.
LEMMA FinishKeeps ==
  ASSUME ParserInv, Finish
  PROVE  ParserInv'
<1> DEFINE rest == IF Tok = ";" THEN pos + 1 ELSE pos
           extra == rest <= Len(text.tokens)
<1>1. StatementOK(stmt) /\ Shape("end", stmt, FALSE) /\ at = "end"
  BY Underway DEF Finish
<1>2. /\ pos' = (IF extra THEN rest + 1 ELSE rest)
      /\ stmt' = (IF extra THEN Error ELSE stmt)
      /\ at' = "done" /\ parse_success' = TRUE /\ text' = text /\ effect' = effect
  BY DEF Finish
<1>3. StatementOK(Error) /\ Error.has_error /\ Shape("end", Error, FALSE)
  BY <1>1, ErrorIs
<1>4. rest \in 1 .. Len(text.tokens) + 1 /\ rest \in Nat /\ Len(text.tokens) \in Nat
  <2>1. pos \in 1 .. Len(text.tokens) + 1 /\ text.tokens \in Seq(Vocabulary)
    BY DEF ParserInv, TypeOK
  <2>2. Tok = ";" => pos + 1 \in 1 .. Len(text.tokens) + 1
    BY TokenTaken DEF ParserInv, NULL
  <2>3. Len(text.tokens) \in Nat
    BY <2>1, LenProperties
  <2>4. rest \in 1 .. Len(text.tokens) + 1
    BY <2>1, <2>2, Zenon
  <2> HIDE DEF rest
  <2> QED BY <2>3, <2>4
<1> HIDE DEF rest
<1>5. pos' \in 1 .. Len(text.tokens) + 1
  BY <1>2, <1>4
<1>6. StatementOK(stmt') /\ Shape("end", stmt', FALSE)
  BY <1>1, <1>2, <1>3
<1>7. TypeOK'
  <2>1. "done" \in Places
    BY DEF Places
  <2> QED BY <1>2, <1>5, <1>6, <2>1 DEF ParserInv, TypeOK, StatementOK
<1>8. Shape(at, stmt, parse_success)'
  <2>1. Shape("done", stmt', TRUE)
    BY <1>6 DEF Shape, KindOK, CountOK, ListsOK, Finished, CreatePlaces,
       InsertPlaces, SetPlaces, SelectPlaces, WherePlaces
  <2> QED BY <1>2, <2>1
<1>9. ReadInv'
  <2>1. CASE extra
    BY <1>2, <1>3, <2>1 DEF ReadInv
  <2>2. CASE ~extra
    <3>1. Tok' = NULL
      BY <1>2, <1>4, <2>2 DEF Tok
    <3> QED BY <3>1 DEF ReadInv, NULL
  <2> QED BY <2>1, <2>2
<1>10. EffectInv'
  BY <1>1, <1>2 DEF ParserInv, EffectInv
<1> QED BY <1>7, <1>8, <1>9, <1>10 DEF ParserInv

-----------------------------------------------------------------------------
(* parse_create_table.                                                     *)

\* The column under construction.
LEMMA LastIs ==
  ASSUME NEW cs \in Seq(Columns), cs # <<>>
  PROVE  Len(cs) \in 1 .. Len(cs) /\ cs[Len(cs)] \in Columns
<1>1. Len(cs) \in Nat /\ Len(cs) # 0
  BY LenProperties, EmptySeq
<1>2. Len(cs) \in 1 .. Len(cs)
  BY <1>1
<1> QED BY <1>2, ElementOfSeq

\* It can be changed in its place.
LEMMA LastChanged ==
  ASSUME NEW cs \in Seq(Columns), NEW c \in Columns, cs # <<>>
  PROVE  /\ [cs EXCEPT ![Len(cs)] = c] \in Seq(Columns)
         /\ Len([cs EXCEPT ![Len(cs)] = c]) = Len(cs)
BY LastIs, ExceptSeq

\* The statement with its last column replaced.
WithLast(c) == [stmt EXCEPT !.columns = [stmt.columns EXCEPT ![LastColumn] = c]]

\* It is as good as the statement was.
LEMMA WithLastIs ==
  ASSUME StatementOK(stmt), at \in Places, NEW c \in Columns, stmt.columns # <<>>
  PROVE  /\ StatementOK(WithLast(c))
         /\ \A place : Shape(place, stmt, FALSE) => Shape(place, WithLast(c), FALSE)
         /\ WithLast(c).type = stmt.type
<1> DEFINE cs == [stmt.columns EXCEPT ![LastColumn] = c]
<1>1. cs \in Seq(Columns) /\ Len(cs) = Len(stmt.columns) /\ cs # <<>>
  BY LastChanged, StatementFields, EmptySeq DEF LastColumn
<1> HIDE DEF cs
<1>2. WithLast(c) = [stmt EXCEPT !.columns = cs]
  BY DEF WithLast, cs
<1>3. StatementOK(WithLast(c))
  BY <1>1, <1>2 DEF StatementOK, Statements
<1>4. LET s == WithLast(c) IN
      /\ s.type = stmt.type /\ s.column_count = stmt.column_count
      /\ s.value_count = stmt.value_count /\ s.select_count = stmt.select_count
      /\ s.set_count = stmt.set_count /\ s.where_value = stmt.where_value
      /\ s.has_where = stmt.has_where /\ s.columns = cs
      /\ s.set_columns = stmt.set_columns /\ s.set_values = stmt.set_values
      /\ s.has_error = stmt.has_error
  BY <1>2 DEF StatementOK, Statements
<1>5. ASSUME NEW place, Shape(place, stmt, FALSE)
      PROVE  Shape(place, WithLast(c), FALSE)
  BY <1>1, <1>4, <1>5, ZenonT(60) DEF Shape, KindOK, CountOK, ListsOK
<1> QED BY <1>3, <1>4, <1>5

\* What an array has room for can be appended.
LEMMA RoomToAppend ==
  ASSUME NEW S, NEW s \in Seq(S), NEW e \in S, NEW n \in Nat, Len(s) <= n, Len(s) # n
  PROVE  /\ Append(s, e) \in Seq(S)
         /\ Len(Append(s, e)) = Len(s) + 1
         /\ Len(Append(s, e)) <= n
         /\ Append(s, e) # <<>>
<1>1. Append(s, e) \in Seq(S) /\ Len(Append(s, e)) = Len(s) + 1 /\ Len(s) \in Nat
  BY AppendProperties, LenProperties
<1> DEFINE t == Append(s, e)
<1> HIDE DEF t
<1>2. t \in Seq(S) /\ Len(t) = Len(s) + 1
  BY <1>1 DEF t
<1>3. Len(t) <= n /\ Len(t) # 0
  BY <1>1, <1>2
<1>4. t # <<>>
  BY <1>3, EmptySeq
<1> QED BY <1>2, <1>3, <1>4 DEF t

\* A column is entered in the array, if there is room for it.
LEMMA ColumnNameKeeps ==
  ASSUME ParserInv, ColumnName
  PROVE  ParserInv'
<1> DEFINE c == [name |-> AsColumn(Tok), type |-> "INT", length |-> 0, is_primary |-> FALSE, is_unique |-> FALSE]
           cs == Append(stmt.columns, c)
           longer == [stmt EXCEPT !.columns = cs]
           counted == [stmt EXCEPT !.column_count = LastColumn]
<1>1. StatementOK(stmt) /\ Shape("column", stmt, FALSE) /\ at = "column"
  BY Underway DEF ColumnName
<1>2. CASE ColumnsFull
  <2>1. StatementOK(counted)
    BY <1>1, StatementFields DEF StatementOK, Statements, LastColumn
  <2>2. Shape("end", counted, FALSE)
    BY <1>1 DEF StatementOK, Statements, Shape, KindOK, CountOK, ListsOK, Finished, CreatePlaces,
       InsertPlaces, SetPlaces, SelectPlaces, WherePlaces
  <2>3. Peek("end", counted)
    BY <1>2, Zenon DEF ColumnName
  <2>4. "end" \in Places \ {"ran", "done"}
    BY DEF Places
  <2> HIDE DEF counted
  <2> QED BY <1>1, <2>1, <2>2, <2>3, <2>4, PeekKeeps
<1>3. CASE ~ColumnsFull
  <2>1. Tok # NULL /\ Take("type", longer)
    BY <1>3, Zenon DEF ColumnName
  <2>2. c \in Columns
    BY <1>1, <2>1, Underway DEF Columns
  <2> HIDE DEF c
  <2>3. stmt.columns \in Seq(Columns) /\ Len(stmt.columns) <= MaxColumns /\ Len(stmt.columns) # MaxColumns
    BY <1>1, <1>3, StatementFields DEF StatementOK, ColumnsFull
  <2>4. cs \in Seq(Columns) /\ Len(cs) <= MaxColumns /\ cs # <<>>
    BY <2>2, <2>3, ParserAssumption, RoomToAppend
  <2>5. stmt.column_count = 0
    BY <1>1 DEF Shape, CountOK
  <2> HIDE DEF cs
  <2>6. StatementOK(longer)
    BY <1>1, <2>4, <2>5 DEF StatementOK, Statements
  <2>7. Shape("type", longer, FALSE)
    BY <1>1, <2>4 DEF StatementOK, Statements, Shape, KindOK, CountOK, ListsOK, Finished, CreatePlaces,
       InsertPlaces, SetPlaces, SelectPlaces, WherePlaces
  <2>8. "type" \in Places \ {"ran", "done"}
    BY DEF Places, CreatePlaces
  <2> HIDE DEF longer
  <2> QED BY <1>1, <2>1, <2>6, <2>7, <2>8, TakeKeeps
<1> QED BY <1>2, <1>3

\* Where the last column is still being described.
Described == {"type", "length", "length_number", "length_end", "constraint", "primary_key", "not_null"}

\* In between, the parser may go from any of these places to another, with the
\* column as it was or changed, or give up.
LEMMA DescribedKeeps ==
  ASSUME ParserInv, at \in Described,
         NEW place \in Described \cup {"done"}, NEW s,
         s = stmt \/ \E c \in Columns : s = WithLast(c),
         \/ Tok # NULL /\ Take(place, s)
         \/ place # "done" /\ Peek(place, s)
  PROVE  ParserInv'
<1>1. StatementOK(stmt) /\ Shape(at, stmt, FALSE) /\ at \in Places /\ at \notin {"where_or_end", "end", "done", "ran"}
  BY Underway DEF Described
<1>2. stmt.columns # <<>> /\ stmt.type = "CREATE"
  BY <1>1 DEF Described, Shape, KindOK, ListsOK, CreatePlaces
<1>3. Shape(place, stmt, FALSE)
  BY <1>1, GivingUp DEF Described, Shape, KindOK, CountOK, ListsOK, Finished, CreatePlaces,
     InsertPlaces, SetPlaces, SelectPlaces, WherePlaces
<1>4. StatementOK(s) /\ Shape(place, s, FALSE) /\ s.type = "CREATE"
  <2>1. CASE s = stmt
    BY <1>1, <1>2, <1>3, <2>1
  <2>2. ASSUME NEW c \in Columns, s = WithLast(c)
        PROVE  StatementOK(s) /\ Shape(place, s, FALSE) /\ s.type = "CREATE"
    BY <1>1, <1>2, <1>3, <2>2, WithLastIs
  <2> QED BY <2>1, <2>2
<1>5. place \in Places \ {"ran"}
  BY DEF Described, Places, CreatePlaces
<1>6. at \notin {"done", "ran"}
  BY <1>1
<1> QED BY <1>4, <1>5, <1>6, TakeKeeps, PeekKeeps

\* A column's type, and the length of a string.
LEMMA ColumnTypeKeeps ==
  ASSUME ParserInv, ColumnType \/ ColumnLength
  PROVE  ParserInv'
<1> DEFINE last == stmt.columns[LastColumn]
           typed == [last EXCEPT !.type = DataType(Tok)]
           long == [last EXCEPT !.length = MaxStringLen]
           short == [last EXCEPT !.length = Atoi(Tok)]
<1>1. StatementOK(stmt) /\ Shape(at, stmt, FALSE) /\ at \in Described /\ at \in {"type", "length", "length_number"}
  BY Underway DEF ColumnType, ColumnLength, Described
<1>2. stmt.columns # <<>>
  BY <1>1 DEF Shape, ListsOK, CreatePlaces
<1>3. last \in Columns
  BY <1>1, <1>2, StatementFields, LastIs DEF LastColumn
<1>4. long \in Columns
  BY <1>3, ParserAssumption DEF Columns
<1>5. Tok # NULL => typed \in Columns /\ short \in Columns
  <2>1. Tok # NULL => DataType(Tok) \in {"INT", "FLOAT", "STRING", "BOOL"} /\ Atoi(Tok) \in Int
    BY <1>1, Underway, TokenRead DEF Described
  <2> QED BY <1>3, <2>1 DEF Columns
<1>6. \/ Tok # NULL /\ Take("length", WithLast(typed))
      \/ Tok # NULL /\ Take("constraint", WithLast(typed))
      \/ Tok # NULL /\ Take("length_number", stmt)
      \/ Peek("constraint", WithLast(long))
      \/ Tok # NULL /\ Take("length_end", WithLast(short))
  <2>1. Tok = "(" => Tok # NULL
    BY DEF NULL
  <2> QED BY <2>1, Zenon DEF ColumnType, ColumnLength, WithLast
<1>7. {"length", "constraint", "length_number", "length_end"} \subseteq Described \ {"done"}
  BY DEF Described
<1> HIDE DEF typed, long, short
<1>8. CASE Peek("constraint", WithLast(long))
  <2>1. "constraint" \in Described \cup {"done"} /\ "constraint" # "done"
    BY DEF Described
  <2>2. \E c \in Columns : WithLast(long) = WithLast(c)
    BY <1>4
  <2> QED BY <1>1, <1>8, <2>1, <2>2, DescribedKeeps
<1>9. ASSUME NEW place \in Described, NEW s, s = stmt \/ \E c \in Columns : s = WithLast(c),
             Tok # NULL, Take(place, s)
      PROVE  ParserInv'
  BY <1>1, <1>9, DescribedKeeps
<1> QED BY <1>5, <1>6, <1>7, <1>8, <1>9

\* Between the words of its constraints a column may become unique, and the
\* list of columns may go on or end.
LEMMA ConstraintKeeps ==
  ASSUME ParserInv, Constraint
  PROVE  ParserInv'
<1> DEFINE unique == [stmt.columns[LastColumn] EXCEPT !.is_unique = TRUE]
           counted == [stmt EXCEPT !.column_count = LastColumn]
<1>1. /\ StatementOK(stmt) /\ Shape("constraint", stmt, FALSE) /\ at = "constraint" /\ Tok # NULL
  BY Underway DEF Constraint
<1>2. stmt.columns # <<>> /\ at \in Described
  BY <1>1 DEF Shape, ListsOK, CreatePlaces, Described
<1>3. unique \in Columns
  <2>1. stmt.columns[LastColumn] \in Columns
    BY <1>1, <1>2, StatementFields, LastIs DEF LastColumn
  <2> QED BY <2>1 DEF Columns
<1>4. StatementOK(counted)
  BY <1>1, StatementFields DEF StatementOK, Statements, LastColumn
<1>5. Shape("end", counted, FALSE)
  BY <1>1 DEF StatementOK, Statements, Shape, KindOK, CountOK, ListsOK, Finished, CreatePlaces,
     InsertPlaces, SetPlaces, SelectPlaces, WherePlaces
<1>6. Shape("column", stmt, FALSE)
  BY <1>1 DEF Shape, KindOK, CountOK, ListsOK, Finished, CreatePlaces,
     InsertPlaces, SetPlaces, SelectPlaces, WherePlaces
<1>7. \/ Take("column", stmt)
      \/ Take("end", counted)
      \/ Take("not_null", stmt) \/ Take("primary_key", stmt) \/ Take("constraint", stmt)
      \/ Take("constraint", WithLast(unique))
  BY Zenon DEF Constraint, WithLast
<1>8. {"column", "end"} \subseteq Places \ {"ran", "done"}
  BY DEF Places, CreatePlaces
<1>9. {"not_null", "primary_key", "constraint"} \subseteq Described
  BY DEF Described
<1> HIDE DEF unique, counted
<1>10. CASE Take("column", stmt) \/ Take("end", counted)
  BY <1>1, <1>4, <1>5, <1>6, <1>8, <1>10, TakeKeeps
<1>11. ASSUME NEW place \in Described, NEW s, s = stmt \/ \E c \in Columns : s = WithLast(c),
              Take(place, s)
       PROVE  ParserInv'
  BY <1>1, <1>2, <1>11, DescribedKeeps
<1> QED BY <1>3, <1>7, <1>9, <1>10, <1>11

\* PRIMARY KEY marks the column and keeps its place among the others.
LEMMA ConstraintWordKeeps ==
  ASSUME ParserInv, ConstraintWord
  PROVE  ParserInv'
<1> DEFINE key == [stmt.columns[LastColumn] EXCEPT !.is_primary = TRUE]
           keyed == [WithLast(key) EXCEPT !.primary_key_index = LastColumn - 1]
<1>1. /\ StatementOK(stmt) /\ Shape(at, stmt, FALSE) /\ at \in {"primary_key", "not_null"} /\ Tok # NULL
      /\ at \in Places
  BY Underway DEF ConstraintWord
<1>2. stmt.columns # <<>> /\ at \in Described
  BY <1>1 DEF Shape, ListsOK, CreatePlaces, Described
<1>3. key \in Columns
  <2>1. stmt.columns[LastColumn] \in Columns
    BY <1>1, <1>2, StatementFields, LastIs DEF LastColumn
  <2> QED BY <2>1 DEF Columns
<1> HIDE DEF key
<1>4. StatementOK(WithLast(key)) /\ Shape(at, WithLast(key), FALSE) /\ WithLast(key).type = stmt.type
  BY <1>1, <1>2, <1>3, WithLastIs
<1>5. LastColumn - 1 \in -1 .. MaxColumns - 1
  <2>1. Len(stmt.columns) \in Nat /\ Len(stmt.columns) <= MaxColumns /\ MaxColumns \in Nat
    BY <1>1, StatementFields, ParserAssumption DEF StatementOK
  <2> QED BY <2>1 DEF LastColumn
<1>6. StatementOK(keyed)
  BY <1>4, <1>5 DEF StatementOK, Statements
<1>7. Shape("constraint", keyed, FALSE)
  <2> DEFINE s == WithLast(key)
  <2>1. s \in Statements
    BY <1>4 DEF StatementOK
  <2> HIDE DEF s
  <2>2. Shape(at, s, FALSE)
    BY <1>4 DEF s
  <2> QED BY <1>1, <2>1, <2>2 DEF s, Statements, Shape, KindOK, CountOK, ListsOK, Finished, CreatePlaces,
     InsertPlaces, SetPlaces, SelectPlaces, WherePlaces
<1>8. \/ Take("done", stmt)
      \/ at = "primary_key" /\ Take("constraint", keyed)
      \/ at = "not_null" /\ Take("constraint", stmt)
  BY Zenon DEF ConstraintWord, keyed, key, WithLast
<1>9. "constraint" \in Places \ {"ran", "done"} /\ {"done", "constraint"} \subseteq Described \cup {"done"}
  BY DEF Places, CreatePlaces, Described
<1> HIDE DEF keyed
<1>10. CASE Take("constraint", keyed)
  BY <1>1, <1>6, <1>7, <1>9, <1>10, TakeKeeps
<1>11. ASSUME NEW place \in Described \cup {"done"}, Take(place, stmt)
       PROVE  ParserInv'
  BY <1>1, <1>2, <1>11, DescribedKeeps
<1> QED BY <1>8, <1>9, <1>10, <1>11

-----------------------------------------------------------------------------
(* parse_select and parse_join_clause.                                     *)

\* SELECT * has one column.
LEMMA SelectStarKeeps ==
  ASSUME ParserInv, SelectStar
  PROVE  ParserInv'
<1> DEFINE star == <<Tok>>
           selected == [stmt EXCEPT !.select = star, !.select_count = 1]
<1>1. StatementOK(stmt) /\ Shape("select_first", stmt, FALSE) /\ at = "select_first" /\ Tok # NULL /\ Tok \in Names
  BY Underway DEF SelectStar, NULL
<1>2. star \in Seq(Names) /\ Len(star) = 1
  BY <1>1
<1>3. 1 <= MaxColumns
  BY ParserAssumption
<1>4. Take("from", selected)
  BY Zenon DEF SelectStar
<1> HIDE DEF star
<1>5. StatementOK(selected)
  BY <1>1, <1>2, <1>3 DEF StatementOK, Statements
<1>6. Shape("from", selected, FALSE)
  BY <1>1 DEF StatementOK, Statements, Shape, KindOK, CountOK, ListsOK, Finished, CreatePlaces,
     InsertPlaces, SetPlaces, SelectPlaces, WherePlaces
<1>7. "from" \in Places \ {"ran", "done"}
  BY DEF Places, SelectPlaces
<1> HIDE DEF selected
<1> QED BY <1>1, <1>4, <1>5, <1>6, <1>7, TakeKeeps

\* A column is entered in the array, if there is room for it; the list is
\* counted when FROM or the end of the text is met.
LEMMA SelectColumnsKeeps ==
  ASSUME ParserInv, SelectColumns
  PROVE  ParserInv'
<1> DEFINE list == Append(stmt.select, AsColumn(Tok))
           longer == [stmt EXCEPT !.select = list]
           counted == [stmt EXCEPT !.select_count = Len(stmt.select)]
<1>1. /\ StatementOK(stmt) /\ Shape(at, stmt, FALSE) /\ at \in {"select_first", "select_columns"}
      /\ Tok # NULL => AsColumn(Tok) \in Names
  BY Underway DEF SelectColumns
<1>2. /\ stmt.select \in Seq(Names) /\ Len(stmt.select) \in Nat /\ Len(stmt.select) <= MaxColumns
      /\ stmt.select_count = 0 /\ stmt.type = "SELECT"
  BY <1>1, StatementFields DEF StatementOK, Shape, KindOK, CountOK, SelectPlaces
<1>3. \/ Tok = NULL /\ Peek("done", counted)
      \/ Tok # NULL /\ Take("name", counted)
      \/ Tok # NULL /\ Take("select_columns", stmt)
      \/ Tok # NULL /\ Take("done", stmt)
      \/ Tok # NULL /\ ~(Len(stmt.select) >= MaxColumns) /\ Take("select_columns", longer)
  <2>1. "FROM" # NULL /\ "," # NULL /\ "FROM" # ","
    BY DEF NULL
  <2>2. CASE Tok = NULL
    BY <2>1, <2>2, Zenon DEF SelectColumns
  <2>3. CASE Tok = "FROM"
    BY <2>1, <2>3, Zenon DEF SelectColumns
  <2>4. CASE Tok = ","
    BY <2>1, <2>2, <2>3, <2>4, Zenon DEF SelectColumns
  <2>5. CASE Tok \notin {NULL, "FROM", ","}
    BY <2>5, Zenon DEF SelectColumns
  <2> QED BY <2>2, <2>3, <2>4, <2>5
<1>4. StatementOK(counted)
  BY <1>1, <1>2 DEF StatementOK, Statements
<1>5. Shape("done", counted, FALSE) /\ Shape("name", counted, FALSE) /\ counted.type = "SELECT"
  BY <1>1, <1>2 DEF StatementOK, Statements, Commands, Shape, KindOK, CountOK, ListsOK, Finished, CreatePlaces,
     InsertPlaces, SetPlaces, SelectPlaces, WherePlaces
<1>6. Shape("select_columns", stmt, FALSE) /\ Shape("done", stmt, FALSE)
  BY <1>1, <1>2 DEF Shape, KindOK, CountOK, ListsOK, Finished, CreatePlaces,
     InsertPlaces, SetPlaces, SelectPlaces, WherePlaces
<1>7. {"name", "select_columns", "done"} \subseteq Places \ {"ran"}
  BY DEF Places, SelectPlaces
<1>8. CASE Tok # NULL /\ ~(Len(stmt.select) >= MaxColumns) /\ Take("select_columns", longer)
  <2>1. list \in Seq(Names) /\ Len(list) <= MaxColumns
    <3>1. Len(stmt.select) # MaxColumns /\ MaxColumns \in Nat
      BY <1>2, <1>8, ParserAssumption
    <3> QED BY <1>1, <1>2, <1>8, <3>1, RoomToAppend
  <2> HIDE DEF list
  <2>2. StatementOK(longer)
    BY <1>1, <1>2, <2>1 DEF StatementOK, Statements
  <2>3. Shape("select_columns", longer, FALSE)
    BY <1>1, <1>2 DEF StatementOK, Statements, Shape, KindOK, CountOK, ListsOK, Finished, CreatePlaces,
     InsertPlaces, SetPlaces, SelectPlaces, WherePlaces
  <2> HIDE DEF longer
  <2> QED BY <1>1, <1>7, <1>8, <2>2, <2>3, TakeKeeps
<1> HIDE DEF counted
<1>9. CASE Tok = NULL /\ Peek("done", counted)
  BY <1>1, <1>4, <1>5, <1>7, <1>9, PeekKeeps
<1>10. CASE Tok # NULL /\ Take("name", counted)
  BY <1>1, <1>4, <1>5, <1>7, <1>10, TakeKeeps
<1>11. CASE Tok # NULL /\ (Take("select_columns", stmt) \/ Take("done", stmt))
  BY <1>1, <1>2, <1>6, <1>7, <1>11, TakeKeeps
<1> QED BY <1>3, <1>8, <1>9, <1>10, <1>11

\* After the star comes FROM.
LEMMA FromAfterStarKeeps ==
  ASSUME ParserInv, FromAfterStar
  PROVE  ParserInv'
<1>1. StatementOK(stmt) /\ Shape("from", stmt, FALSE) /\ at = "from" /\ Tok # NULL
  BY Underway DEF FromAfterStar
<1>2. Shape("name", stmt, FALSE) /\ Shape("done", stmt, FALSE) /\ stmt.type = "SELECT"
  BY <1>1 DEF Commands, Shape, KindOK, CountOK, ListsOK, Finished, CreatePlaces,
     InsertPlaces, SetPlaces, SelectPlaces, WherePlaces
<1>3. {"name", "done"} \subseteq Places \ {"ran"}
  BY DEF Places
<1>4. Take("name", stmt) \/ Take("done", stmt)
  BY DEF FromAfterStar
<1> QED BY <1>1, <1>2, <1>3, <1>4, TakeKeeps

\* A step that only changes the join of a statement.
LEMMA JoinedIs ==
  ASSUME StatementOK(stmt), NEW j \in Seq(JoinParts), NEW b \in BOOLEAN
  PROVE  LET s == [stmt EXCEPT !.has_join = b, !.join = j] IN
         /\ StatementOK(s)
         /\ \A place : Shape(place, stmt, FALSE) => Shape(place, s, FALSE)
<1> DEFINE s == [stmt EXCEPT !.has_join = b, !.join = j]
<1>1. StatementOK(s)
  BY DEF StatementOK, Statements
<1>2. Alike(stmt, s)
  BY DEF StatementOK, Statements, Alike
<1> HIDE DEF s
<1>3. StatementOK(s) /\ \A place : Shape(place, stmt, FALSE) => Shape(place, s, FALSE)
  BY <1>1, <1>2, AlikeShape
<1> QED BY <1>3 DEF s

\* A join begins with the table that was named, and goes on or there is none.
LEMMA JoinOrWhereKeeps ==
  ASSUME ParserInv, JoinOrWhere
  PROVE  ParserInv'
<1> DEFINE begun(type) == <<[type |-> type, left |-> stmt.table]>>
           joined(type) == [stmt EXCEPT !.has_join = TRUE, !.join = begun(type)]
<1>1. StatementOK(stmt) /\ Shape("join_or_where", stmt, FALSE) /\ at = "join_or_where"
  BY Underway DEF JoinOrWhere
<1>2. Shape("join", stmt, FALSE) /\ Shape("where_or_end", stmt, FALSE)
  BY <1>1 DEF Shape, KindOK, CountOK, ListsOK, Finished, CreatePlaces,
     InsertPlaces, SetPlaces, SelectPlaces, WherePlaces
<1>3. ASSUME NEW type \in JoinWords
      PROVE  StatementOK(joined(type)) /\ Shape("join", joined(type), FALSE)
  <2> DEFINE part == [type |-> type, left |-> stmt.table]
  <2>1. stmt.table \in Names
    BY <1>1 DEF StatementOK, Statements
  <2>2. part \in JoinParts
    BY <2>1 DEF JoinParts
  <2> HIDE DEF part
  <2>3. <<part>> \in Seq(JoinParts)
    BY <2>2
  <2>4. begun(type) \in Seq(JoinParts)
    BY <2>3 DEF part
  <2> HIDE DEF begun
  <2> QED BY <1>1, <1>2, <2>4, JoinedIs
<1>4. \/ \E type \in JoinWords : Tok # NULL /\ Take("join", joined(type))
      \/ Peek("join", joined("INNER"))
      \/ Peek("where_or_end", stmt)
  <2>1. \A type \in JoinWords : type # NULL
    BY DEF JoinWords, NULL
  <2> QED BY <2>1, Zenon DEF JoinOrWhere
<1>5. {"join", "where_or_end"} \subseteq Places \ {"ran", "done"} /\ "INNER" \in JoinWords
  BY DEF Places, SelectPlaces, WherePlaces, JoinWords
<1> HIDE DEF joined
<1> QED BY <1>1, <1>2, <1>3, <1>4, <1>5, TakeKeeps, PeekKeeps

\* The second table and the columns are noted.
LEMMA JoinNameKeeps ==
  ASSUME ParserInv, JoinName
  PROVE  ParserInv'
<1> DEFINE name == IF at = "join_table" THEN AsTable(Tok) ELSE AsJoinColumn(Tok)
           part == [type |-> at, left |-> name]
           parts == Append(stmt.join, part)
           joined == [stmt EXCEPT !.has_join = stmt.has_join, !.join = parts]
           place == [join_table |-> "join_on", join_left |-> "join_equals", join_right |-> "where_or_end"][at]
<1>1. /\ StatementOK(stmt) /\ Shape(at, stmt, FALSE) /\ at \in {"join_table", "join_left", "join_right"}
      /\ Tok # NULL /\ name \in Names
  BY Underway DEF JoinName
<1>2. \/ at = "join_table" /\ place = "join_on"
      \/ at = "join_left" /\ place = "join_equals"
      \/ at = "join_right" /\ place = "where_or_end"
  BY <1>1
<1>3. Take(place, [stmt EXCEPT !.join = parts])
  BY DEF JoinName
<1> HIDE DEF place
<1>4. Shape(place, stmt, FALSE)
  BY <1>1, <1>2 DEF Shape, KindOK, CountOK, ListsOK, Finished, CreatePlaces,
     InsertPlaces, SetPlaces, SelectPlaces, WherePlaces
<1>5. place \in Places \ {"ran", "done"}
  BY <1>2 DEF Places, SelectPlaces, WherePlaces
<1>6. parts \in Seq(JoinParts)
  <2>1. part \in JoinParts
    BY <1>1 DEF JoinParts
  <2> HIDE DEF part
  <2> QED BY <1>1, <2>1, StatementFields, AppendProperties
<1> HIDE DEF parts
<1>7. stmt.has_join \in BOOLEAN /\ [stmt EXCEPT !.join = parts] = joined
  BY <1>1 DEF StatementOK, Statements
<1>8. StatementOK(joined) /\ Shape(place, joined, FALSE)
  BY <1>1, <1>4, <1>6, <1>7, JoinedIs
<1> HIDE DEF joined
<1> QED BY <1>1, <1>3, <1>5, <1>7, <1>8, TakeKeeps

-----------------------------------------------------------------------------
(* parse_insert and parse_value_list; parse_update.                        *)

\* A list of columns is skipped.
LEMMA InsertColumnsKeeps ==
  ASSUME ParserInv, InsertColumns
  PROVE  ParserInv'
<1>1. /\ StatementOK(stmt) /\ Shape(at, stmt, FALSE) /\ at \in {"insert_columns", "skip"}
  BY Underway DEF InsertColumns
<1>2. Shape("values", stmt, FALSE) /\ Shape("skip", stmt, FALSE)
  BY <1>1 DEF Shape, KindOK, CountOK, ListsOK, Finished, CreatePlaces,
     InsertPlaces, SetPlaces, SelectPlaces, WherePlaces
<1>3. {"values", "skip"} \subseteq Places \ {"ran", "done"}
  BY DEF Places, InsertPlaces
<1>4. \/ Tok # NULL /\ (Take("skip", stmt) \/ Take("values", stmt))
      \/ Peek("values", stmt)
  <2>1. "(" # NULL
    BY DEF NULL
  <2> QED BY <2>1, Zenon DEF InsertColumns
<1> QED BY <1>1, <1>2, <1>3, <1>4, TakeKeeps, PeekKeeps

\* A value is entered in the array, if there is room for it.
LEMMA InsertValueKeeps ==
  ASSUME ParserInv, InsertValue
  PROVE  ParserInv'
<1> DEFINE list == Append(stmt.values, Value(Tok))
           longer == [stmt EXCEPT !.values = list]
           counted == [stmt EXCEPT !.value_count = MaxColumns]
<1>1. StatementOK(stmt) /\ Shape("value", stmt, FALSE) /\ at = "value" /\ MaxColumns \in Nat
  BY Underway, ParserAssumption DEF InsertValue
<1>2. /\ stmt.values \in Seq(Literals) /\ Len(stmt.values) \in Nat /\ Len(stmt.values) <= MaxColumns
      /\ stmt.value_count = 0
  BY <1>1, StatementFields DEF StatementOK, Shape, CountOK, Finished
<1>3. CASE ValuesFull
  <2>1. Len(stmt.values) = MaxColumns
    BY <1>3 DEF ValuesFull
  <2>2. StatementOK(counted)
    <3>1. counted \in Statements
      BY <1>1 DEF StatementOK, Statements
    <3>2. counted.value_count = Len(counted.values)
      BY <1>1, <2>1 DEF StatementOK, Statements
    <3> QED BY <1>1, <3>1, <3>2 DEF StatementOK, Statements
  <2>3. Shape("end", counted, FALSE)
    BY <1>1 DEF StatementOK, Statements, Shape, KindOK, CountOK, ListsOK, Finished, CreatePlaces,
     InsertPlaces, SetPlaces, SelectPlaces, WherePlaces
  <2>4. Peek("end", counted)
    BY <1>3, Zenon DEF InsertValue
  <2>5. "end" \in Places \ {"ran", "done"}
    BY DEF Places
  <2> HIDE DEF counted
  <2> QED BY <1>1, <2>2, <2>3, <2>4, <2>5, PeekKeeps
<1>4. CASE ~ValuesFull
  <2>1. Tok # NULL /\ Take("value_next", longer)
    BY <1>4, Zenon DEF InsertValue
  <2>2. Value(Tok) \in Literals
    BY <1>1, <2>1, Underway, TokenRead
  <2>3. Len(stmt.values) # MaxColumns
    BY <1>1, <1>4 DEF ValuesFull
  <2>4. list \in Seq(Literals) /\ Len(list) <= MaxColumns
    BY <1>1, <1>2, <2>2, <2>3, RoomToAppend
  <2> HIDE DEF list
  <2>5. StatementOK(longer)
    BY <1>1, <1>2, <2>4 DEF StatementOK, Statements
  <2>6. Shape("value_next", longer, FALSE)
    BY <1>1 DEF StatementOK, Statements, Shape, KindOK, CountOK, ListsOK, Finished, CreatePlaces,
     InsertPlaces, SetPlaces, SelectPlaces, WherePlaces
  <2>7. "value_next" \in Places \ {"ran", "done"}
    BY DEF Places, InsertPlaces
  <2> HIDE DEF longer
  <2> QED BY <1>1, <2>1, <2>5, <2>6, <2>7, TakeKeeps
<1> QED BY <1>3, <1>4

\* The values are counted when the list ends.
LEMMA InsertNextKeeps ==
  ASSUME ParserInv, InsertNext
  PROVE  ParserInv'
<1> DEFINE counted == [stmt EXCEPT !.value_count = Len(stmt.values)]
<1>1. StatementOK(stmt) /\ Shape("value_next", stmt, FALSE) /\ at = "value_next" /\ Tok # NULL
  BY Underway DEF InsertNext
<1>2. Take("value", stmt) \/ Take("end", counted) \/ Peek("value", stmt)
  <2>1. "," # ")"
    OBVIOUS
  <2>2. CASE Tok = ","
    BY <2>1, <2>2, Zenon DEF InsertNext
  <2>3. CASE Tok = ")"
    BY <2>1, <2>3, Zenon DEF InsertNext
  <2>4. CASE Tok \notin {",", ")"}
    BY <2>4, Zenon DEF InsertNext
  <2> QED BY <2>2, <2>3, <2>4
<1>3. StatementOK(counted)
  BY <1>1, StatementFields DEF StatementOK, Statements
<1>4. Shape("value", stmt, FALSE)
  BY <1>1 DEF Shape, KindOK, CountOK, ListsOK, Finished, CreatePlaces,
     InsertPlaces, SetPlaces, SelectPlaces, WherePlaces
<1>5. Shape("end", counted, FALSE)
  BY <1>1 DEF StatementOK, Statements, Shape, KindOK, CountOK, ListsOK, Finished, CreatePlaces,
     InsertPlaces, SetPlaces, SelectPlaces, WherePlaces
<1>6. {"value", "end"} \subseteq Places \ {"ran", "done"}
  BY DEF Places, InsertPlaces
<1> HIDE DEF counted
<1> QED BY <1>1, <1>2, <1>3, <1>4, <1>5, <1>6, TakeKeeps, PeekKeeps

\* A column to set is entered in the array, if there is room for it; when the
\* array is full, each of its columns has its value.
LEMMA SetColumnKeeps ==
  ASSUME ParserInv, SetColumn
  PROVE  ParserInv'
<1> DEFINE list == Append(stmt.set_columns, AsColumn(Tok))
           longer == [stmt EXCEPT !.set_columns = list]
           counted == [stmt EXCEPT !.set_count = MaxColumns]
<1>1. StatementOK(stmt) /\ Shape("set_column", stmt, FALSE) /\ at = "set_column" /\ MaxColumns \in Nat
  BY Underway, ParserAssumption DEF SetColumn
<1>2. /\ stmt.set_columns \in Seq(Names) /\ Len(stmt.set_columns) \in Nat
      /\ Len(stmt.set_columns) <= MaxColumns /\ stmt.set_count = 0
      /\ Len(stmt.set_values) \in Nat /\ Len(stmt.set_columns) = Len(stmt.set_values)
  <2>1. /\ stmt.set_columns \in Seq(Names) /\ Len(stmt.set_columns) \in Nat
        /\ Len(stmt.set_columns) <= MaxColumns
        /\ Len(stmt.set_values) \in Nat
    BY <1>1, StatementFields DEF StatementOK
  <2>2. stmt.set_count = 0
    BY <1>1 DEF Shape, CountOK
  <2>3. Len(stmt.set_columns) = Len(stmt.set_values) + 0
    BY <1>1 DEF Shape, ListsOK
  <2> QED BY <2>1, <2>2, <2>3
<1>3. CASE SetFull
  <2>1. Len(stmt.set_values) = MaxColumns
    BY <1>2, <1>3 DEF SetFull
  <2>2. StatementOK(counted)
    <3>1. counted \in Statements
      BY <1>1 DEF StatementOK, Statements
    <3>2. counted.set_count = Len(counted.set_values)
      BY <1>1, <2>1 DEF StatementOK, Statements
    <3> QED BY <1>1, <3>1, <3>2 DEF StatementOK, Statements
  <2>3. Shape("where_or_end", counted, FALSE)
    BY <1>1, <1>2 DEF StatementOK, Statements, Shape, KindOK, CountOK, ListsOK, Finished, CreatePlaces,
     InsertPlaces, SetPlaces, SelectPlaces, WherePlaces
  <2>4. Peek("where_or_end", counted)
    BY <1>3, Zenon DEF SetColumn
  <2>5. "where_or_end" \in Places \ {"ran", "done"}
    BY DEF Places, WherePlaces
  <2> HIDE DEF counted
  <2> QED BY <1>1, <2>2, <2>3, <2>4, <2>5, PeekKeeps
<1>4. CASE ~SetFull
  <2>1. Tok # NULL /\ Take("set_equals", longer)
    BY <1>4, Zenon DEF SetColumn
  <2>2. AsColumn(Tok) \in Names
    BY <1>1, <2>1, Underway
  <2>3. Len(stmt.set_columns) # MaxColumns
    BY <1>1, <1>4 DEF SetFull
  <2>4. list \in Seq(Names) /\ Len(list) <= MaxColumns /\ Len(list) = Len(stmt.set_columns) + 1
    BY <1>1, <1>2, <2>2, <2>3, RoomToAppend
  <2> HIDE DEF list
  <2>5. StatementOK(longer)
    BY <1>1, <1>2, <2>4 DEF StatementOK, Statements
  <2>6. Shape("set_equals", longer, FALSE)
    BY <1>1, <1>2, <2>4 DEF StatementOK, Statements, Shape, KindOK, CountOK, ListsOK, Finished, CreatePlaces,
     InsertPlaces, SetPlaces, SelectPlaces, WherePlaces
  <2>7. "set_equals" \in Places \ {"ran", "done"}
    BY DEF Places, SetPlaces
  <2> HIDE DEF longer
  <2> QED BY <1>1, <2>1, <2>5, <2>6, <2>7, TakeKeeps
<1> QED BY <1>3, <1>4

\* Its value is entered beside it.
LEMMA SetValueKeeps ==
  ASSUME ParserInv, SetValue
  PROVE  ParserInv'
<1> DEFINE list == Append(stmt.set_values, Value(Tok))
           longer == [stmt EXCEPT !.set_values = list]
<1>1. StatementOK(stmt) /\ Shape("set_value", stmt, FALSE) /\ at = "set_value" /\ Tok # NULL
  BY Underway DEF SetValue
<1>2. stmt.set_count = 0 /\ stmt.set_values \in Seq(Literals) /\ Len(stmt.set_values) \in Nat
      /\ Len(stmt.set_columns) = Len(stmt.set_values) + 1
  BY <1>1, StatementFields DEF Shape, CountOK, ListsOK
<1>3. Value(Tok) \in Literals
  BY <1>1, Underway, TokenRead
<1>4. list \in Seq(Literals) /\ Len(list) = Len(stmt.set_values) + 1
  BY <1>2, <1>3, AppendProperties
<1>5. Take("set_next", longer)
  BY DEF SetValue
<1> HIDE DEF list
<1>6. StatementOK(longer)
  BY <1>1, <1>2, <1>4 DEF StatementOK, Statements
<1>7. Shape("set_next", longer, FALSE)
  <2>1. Len(list) \in Nat /\ Len(stmt.set_columns) = Len(list) + 0
    BY <1>2, <1>4
  <2>2. ListsOK("set_next", longer)
    <3>1. longer.set_columns = stmt.set_columns /\ longer.set_values = list
      BY <1>1 DEF StatementOK, Statements
    <3> QED BY <2>1, <3>1 DEF ListsOK, CreatePlaces
  <2> QED BY <1>1, <1>2, <2>2 DEF StatementOK, Statements, Shape, KindOK, CountOK, Finished, CreatePlaces,
     InsertPlaces, SetPlaces, SelectPlaces, WherePlaces
<1>8. "set_next" \in Places \ {"ran", "done"}
  BY DEF Places, SetPlaces
<1> HIDE DEF longer
<1> QED BY <1>1, <1>5, <1>6, <1>7, <1>8, TakeKeeps

\* The columns to set are counted when WHERE is met, and only then.
LEMMA SetNextKeeps ==
  ASSUME ParserInv, SetNext
  PROVE  ParserInv'
<1> DEFINE counted == [stmt EXCEPT !.set_count = Len(stmt.set_values)]
<1>1. StatementOK(stmt) /\ Shape("set_next", stmt, FALSE) /\ at = "set_next" /\ Tok # NULL
  BY Underway DEF SetNext
<1>2. Take("set_column", stmt) \/ Take("where_or_end", counted) \/ Peek("set_column", stmt)
  <2>1. "," # "WHERE"
    OBVIOUS
  <2>2. CASE Tok = ","
    BY <2>1, <2>2, Zenon DEF SetNext
  <2>3. CASE Tok = "WHERE"
    BY <2>1, <2>3, Zenon DEF SetNext
  <2>4. CASE Tok \notin {",", "WHERE"}
    BY <2>4, Zenon DEF SetNext
  <2> QED BY <2>2, <2>3, <2>4
<1>3. StatementOK(counted)
  BY <1>1, StatementFields DEF StatementOK, Statements
<1>4. Shape("set_column", stmt, FALSE)
  BY <1>1 DEF Shape, KindOK, CountOK, ListsOK, Finished, CreatePlaces,
     InsertPlaces, SetPlaces, SelectPlaces, WherePlaces
<1>5. Shape("where_or_end", counted, FALSE)
  BY <1>1 DEF StatementOK, Statements, Shape, KindOK, CountOK, ListsOK, Finished, CreatePlaces,
     InsertPlaces, SetPlaces, SelectPlaces, WherePlaces
<1>6. {"set_column", "where_or_end"} \subseteq Places \ {"ran", "done"}
  BY DEF Places, SetPlaces, WherePlaces
<1> HIDE DEF counted
<1> QED BY <1>1, <1>2, <1>3, <1>4, <1>5, <1>6, TakeKeeps, PeekKeeps

-----------------------------------------------------------------------------
(* What is executed.                                                       *)

\* What a front end does with a statement is an effect.
LEMMA EffectIs ==
  ASSUME StatementOK(stmt), NEW front
  PROVE  EffectOn(front) \in Effects
<1>1. NoEffect \in Effects
  <2>1. "" \in Names /\ <<>> \in Seq([column : Names, value : Int])
    BY EmptySeq DEF Names
  <2> QED BY <2>1 DEF NoEffect, Effects
<1>2. Filter \in Seq([column : Names, value : Int])
  <2>1. CASE stmt.where_value # <<>>
    <3> DEFINE r == [column |-> stmt.where_column, value |-> stmt.where_value[1]]
    <3>1. stmt.where_value \in Seq(Int) /\ 1 \in 1 .. Len(stmt.where_value)
      <4>1. stmt.where_value \in Seq(Int)
        BY StatementFields
      <4>2. Len(stmt.where_value) \in Nat \ {0}
        BY <2>1, <4>1, EmptySeq
      <4>3. \A n \in Nat \ {0} : 1 \in 1 .. n
        OBVIOUS
      <4> QED BY <4>1, <4>2, <4>3, Zenon
    <3>2. stmt.where_value[1] \in Int /\ stmt.where_column \in Names
      BY <3>1, ElementOfSeq DEF StatementOK, Statements
    <3>3. r \in [column : Names, value : Int]
      BY <3>2
    <3> HIDE DEF r
    <3>4. <<r>> \in Seq([column : Names, value : Int])
      BY <3>3
    <3>5. Filter = <<r>> \/ Filter = <<>>
      BY Zenon DEF Filter, r
    <3> QED BY <3>4, <3>5, EmptySeq
  <2>2. CASE stmt.where_value = <<>>
    BY <2>2, EmptySeq, Zenon DEF Filter
  <2> QED BY <2>1, <2>2
<1>3. \A kind \in {"create", "show", "select", "insert", "delete", "update"},
         filter \in Seq([column : Names, value : Int]) : Effect(kind, filter) \in Effects
  <2>1. stmt.table \in Names
    BY DEF StatementOK, Statements
  <2> QED BY <2>1 DEF Effect, Effects
<1>4. <<>> \in Seq([column : Names, value : Int])
  BY EmptySeq
<1> QED BY <1>1, <1>2, <1>3, <1>4 DEF EffectOn

\* What can be executed of which statement.
LEMMA EffectCases ==
  ASSUME StatementOK(stmt), NEW front, EffectOn(front) # NoEffect
  PROVE  /\ ~stmt.has_error
         /\ LET e == EffectOn(front) IN
            /\ e.table = stmt.table
            /\ \/ stmt.type = "CREATE" /\ e.kind = "create"
               \/ stmt.type = "SHOW TABLES" /\ e.kind = "show"
               \/ stmt.type = "SELECT" /\ e.kind = "select"
               \/ stmt.type = "INSERT" /\ e.kind = "insert" /\ Known /\ stmt.value_count = Len(Schemas[stmt.table])
               \/ stmt.type = "DELETE" /\ e.kind = "delete" /\ stmt.where_value # <<>>
               \/ stmt.type = "UPDATE" /\ e.kind = "update" /\ stmt.set_count > 0
<1>1. stmt.has_error \in BOOLEAN
  BY DEF StatementOK, Statements
<1>2. \A kind, filter : Effect(kind, filter).kind = kind /\ Effect(kind, filter).table = stmt.table
  BY DEF Effect
<1>3. ~stmt.has_error
  BY <1>1 DEF EffectOn
<1> DEFINE Executes(kind) ==
             \/ stmt.type = "CREATE" /\ kind = "create"
             \/ stmt.type = "SHOW TABLES" /\ kind = "show"
             \/ stmt.type = "SELECT" /\ kind = "select"
             \/ stmt.type = "INSERT" /\ kind = "insert" /\ Known /\ stmt.value_count = Len(Schemas[stmt.table])
             \/ stmt.type = "DELETE" /\ kind = "delete" /\ stmt.where_value # <<>>
             \/ stmt.type = "UPDATE" /\ kind = "update" /\ stmt.set_count > 0
<1>4. \E kind, filter : EffectOn(front) = Effect(kind, filter) /\ Executes(kind)
  BY <1>3 DEF EffectOn
<1> HIDE DEF Executes
<1>5. PICK kind, filter : EffectOn(front) = Effect(kind, filter) /\ Executes(kind)
  BY <1>4
<1>6. EffectOn(front).kind = kind /\ EffectOn(front).table = stmt.table
  BY <1>2, <1>5
<1> QED BY <1>3, <1>5, <1>6 DEF Executes

\* It is read off the statement alone.
LEMMA EffectStays ==
  ASSUME stmt' = stmt
  PROVE  \A front : EffectOn(front)' = EffectOn(front)
<1>1. Filter' = Filter /\ Known' = Known
  BY DEF Filter, Known
<1>2. \A table : ColumnNames(table)' = ColumnNames(table)
  BY DEF ColumnNames
<1>3. \A kind, filter : Effect(kind, filter)' = Effect(kind, filter)
  BY DEF Effect
<1>4. \A front : EffectOn(front)' = EffectOn(front)
  BY <1>1, <1>2, <1>3 DEF EffectOn, Effect, ColumnNames
<1> QED BY <1>4

\* A statement is executed as it was left.
LEMMA ExecuteKeeps ==
  ASSUME ParserInv, Execute
  PROVE  ParserInv'
<1>1. /\ at = "done" /\ at' = "ran" /\ text' = text /\ pos' = pos /\ stmt' = stmt
      /\ parse_success' = parse_success
      /\ \E front \in FrontEnds : effect' = EffectOn(front)
  BY DEF Execute
<1>2. StatementOK(stmt)
  BY DEF ParserInv, TypeOK, StatementOK
<1>3. effect' \in Effects
  BY <1>1, <1>2, EffectIs
<1>4. TypeOK'
  <2>1. "ran" \in Places
    BY DEF Places
  <2> QED BY <1>1, <1>3, <2>1 DEF ParserInv, TypeOK
<1>5. Shape(at, stmt, parse_success)'
  <2>1. Shape("ran", stmt, parse_success)
    BY <1>1 DEF ParserInv, Shape, KindOK, CountOK, ListsOK, Finished, CreatePlaces,
     InsertPlaces, SetPlaces, SelectPlaces, WherePlaces
  <2> QED BY <1>1, <2>1
<1>6. ReadInv'
  BY <1>1 DEF ParserInv, ReadInv, Tok
<1>7. EffectInv'
  <2>1. FrontEnds' = FrontEnds
    BY <1>1 DEF FrontEnds
  <2>2. \A front : EffectOn(front)' = EffectOn(front)
    BY <1>1, EffectStays
  <2> QED BY <1>1, <2>1, <2>2 DEF EffectInv
<1> QED BY <1>4, <1>5, <1>6, <1>7 DEF ParserInv

\* A blank statement is of its type.
LEMMA BlankIs ==
  StatementOK(BlankStatement) /\ Shape("start", BlankStatement, FALSE)
<1> DEFINE nothing == <<>>
           blank ==
             [type |-> "SELECT", table |-> "", has_error |-> FALSE,
              columns |-> nothing, column_count |-> 0, primary_key_index |-> 0,
              select |-> nothing, select_count |-> 0,
              has_join |-> FALSE, join |-> nothing,
              values |-> nothing, value_count |-> 0,
              set_columns |-> nothing, set_values |-> nothing, set_count |-> 0,
              has_where |-> FALSE, where_column |-> "", where_operator |-> "=", where_value |-> nothing]
<1>1. \A S : nothing \in Seq(S)
  BY EmptySeq
<1>2. Len(nothing) = 0
  BY EmptySeq
<1>3. BlankStatement = blank
  BY DEF BlankStatement
<1> HIDE DEF nothing
<1>4. "" \in Names /\ "=" \in Operators /\ 0 \in -1 .. MaxColumns - 1 /\ 0 <= MaxColumns /\ 0 <= 1
  BY ParserAssumption DEF Names, Operators
<1>5. blank \in Statements
  BY <1>1, <1>4 DEF Statements, Commands
<1>6. StatementOK(blank)
  BY <1>2, <1>4, <1>5 DEF StatementOK
<1>7. Shape("start", blank, FALSE)
  BY <1>2 DEF nothing, Shape, KindOK, CountOK, ListsOK, Finished, CreatePlaces,
     InsertPlaces, SetPlaces, SelectPlaces, WherePlaces
<1> QED BY <1>3, <1>6, <1>7

\* Every step of the parser and of the executor keeps the invariant.
LEMMA StepKeeps ==
  ASSUME ParserInv, [Next]_vars
  PROVE  ParserInv'
<1>1. CASE UNCHANGED vars
  <2>1. /\ text' = text /\ pos' = pos /\ at' = at /\ stmt' = stmt
        /\ parse_success' = parse_success /\ effect' = effect
    BY <1>1 DEF vars
  <2>2. TypeOK' /\ Shape(at, stmt, parse_success)' /\ ReadInv'
    BY <2>1 DEF ParserInv, TypeOK, ReadInv, Tok
  <2>3. EffectInv'
    <3>1. FrontEnds' = FrontEnds
      BY <2>1 DEF FrontEnds
    <3>2. \A front : EffectOn(front)' = EffectOn(front)
      BY <2>1, EffectStays
    <3> QED BY <2>1, <3>1, <3>2 DEF ParserInv, EffectInv
  <2> QED BY <2>2, <2>3 DEF ParserInv
<1>2. CASE Begin \/ Show \/ Expect \/ EndOfText \/ TableName \/ Finish
  BY <1>2, BeginKeeps, ShowKeeps, ExpectKeeps, EndOfTextKeeps, TableNameKeeps, FinishKeeps
<1>3. CASE WhereOrEnd \/ WhereColumn \/ WhereOperator \/ WhereValue
  BY <1>3, WhereOrEndKeeps, WhereKeeps
<1>4. CASE ColumnName \/ ColumnType \/ ColumnLength \/ Constraint \/ ConstraintWord
  BY <1>4, ColumnNameKeeps, ColumnTypeKeeps, ConstraintKeeps, ConstraintWordKeeps
<1>5. CASE SelectStar \/ SelectColumns \/ FromAfterStar \/ JoinOrWhere \/ JoinName
  BY <1>5, SelectStarKeeps, SelectColumnsKeeps, FromAfterStarKeeps, JoinOrWhereKeeps, JoinNameKeeps
<1>6. CASE InsertColumns \/ InsertValue \/ InsertNext
  BY <1>6, InsertColumnsKeeps, InsertValueKeeps, InsertNextKeeps
<1>7. CASE SetColumn \/ SetValue \/ SetNext
  BY <1>7, SetColumnKeeps, SetValueKeeps, SetNextKeeps
<1>8. CASE Execute
  BY <1>8, ExecuteKeeps
<1> QED BY <1>1, <1>2, <1>3, <1>4, <1>5, <1>6, <1>7, <1>8, Zenon DEF Next

-----------------------------------------------------------------------------
(* UPDATE and its WHERE.                                                   *)

\* WHERE is said twice in a row.
SaysWhereTwice ==
  \E k \in 1 .. Len(text.tokens) - 1 : text.tokens[k] = "WHERE" /\ text.tokens[k + 1] = "WHERE"

\* WHERE is the last word.
EndsAtWhere ==
  LET n == Len(text.tokens)
  IN \/ n > 0 /\ text.tokens[n] = "WHERE"
     \/ n > 1 /\ text.tokens[n - 1] = "WHERE" /\ text.tokens[n] = ";"

\* Where control is when the list of SET may have been counted.
Behind == {"where_or_end", "where_column", "where_operator", "where_value", "end", "done", "ran"}

\* A SET list that ended before its array was full ended at a WHERE, and what
\* follows is a condition only behind another one.
SetWhereInv ==
  /\ stmt.has_where => at \in Behind
  /\ stmt.type = "UPDATE" /\ stmt.set_count \notin {0, MaxColumns} =>
       /\ stmt.has_where => SaysWhereTwice
       /\ ~stmt.has_where => stmt.where_value = <<>>
       /\ ~stmt.has_where /\ at \in {"where_or_end", "end"} => pos > 1 /\ text.tokens[pos - 1] = "WHERE"
       /\ ~stmt.has_where /\ at \in {"done", "ran"} /\ ~stmt.has_error => EndsAtWhere

\* What says how much of SET was read, and whether WHERE was.
SetCountIn(s) == s.set_count = stmt.set_count /\ s.has_where = stmt.has_where

\* The other fields may change.
LEMMA OtherFields ==
  ASSUME StatementOK(stmt)
  PROVE  /\ SetCountIn(Error) /\ SetCountIn([Error EXCEPT !.type = "UNKNOWN"])
         /\ \A v : /\ SetCountIn([stmt EXCEPT !.type = v]) /\ SetCountIn([stmt EXCEPT !.table = v])
                  /\ SetCountIn([stmt EXCEPT !.where_column = v]) /\ SetCountIn([stmt EXCEPT !.where_operator = v])
                  /\ SetCountIn([stmt EXCEPT !.where_value = v]) /\ SetCountIn([stmt EXCEPT !.set_values = v])
                  /\ SetCountIn([stmt EXCEPT !.columns = v]) /\ SetCountIn([stmt EXCEPT !.column_count = v])
                  /\ SetCountIn([stmt EXCEPT !.values = v]) /\ SetCountIn([stmt EXCEPT !.value_count = v])
                  /\ SetCountIn([stmt EXCEPT !.select = v]) /\ SetCountIn([stmt EXCEPT !.select_count = v])
                  /\ SetCountIn([stmt EXCEPT !.join = v])
BY Zenon DEF StatementOK, Statements, Error, SetCountIn

\* Only parse_update counts the columns of SET, and has_where is set in one
\* place.
LEMMA SetCountStays ==
  ASSUME ParserInv,
         \/ Begin \/ Show \/ Expect \/ EndOfText \/ TableName \/ Finish
         \/ WhereColumn \/ WhereOperator \/ WhereValue
         \/ ColumnName \/ ColumnType \/ ColumnLength \/ Constraint \/ ConstraintWord
         \/ SelectStar \/ SelectColumns \/ FromAfterStar \/ JoinOrWhere \/ JoinName
         \/ InsertColumns \/ InsertValue \/ InsertNext \/ SetValue \/ Execute
  PROVE  stmt'.set_count = stmt.set_count /\ stmt'.has_where = stmt.has_where
<1> SUFFICES SetCountIn(stmt')
  BY DEF SetCountIn
<1>1. StatementOK(stmt)
  BY DEF ParserInv, TypeOK, StatementOK
<1>2. SetCountIn(stmt)
  BY DEF SetCountIn
<1> USE DEF Take, Peek, Go
<1>5. CASE Begin
  <2>1. \/ stmt' = stmt
        \/ \E t : stmt' = [stmt EXCEPT !.type = t]
        \/ stmt' = [stmt EXCEPT !.type = "CREATE", !.primary_key_index = -1]
        \/ stmt' = [Error EXCEPT !.type = "UNKNOWN"]
    BY <1>5, Zenon DEF Begin
  <2> QED BY <1>1, <1>2, <2>1, Zenon DEF StatementOK, Statements, SetCountIn, Error
<1>6. CASE Show \/ Expect \/ TableName \/ Finish
  BY <1>2, <1>1, OtherFields, <1>6, Zenon DEF Show, Expect, TableName, Finish
<1>7. CASE EndOfText
  BY <1>2, <1>1, OtherFields, <1>7, Zenon DEF EndOfText
<1>8. CASE WhereColumn \/ WhereOperator \/ WhereValue
  BY <1>1, OtherFields, <1>8, Zenon DEF WhereColumn, WhereOperator, WhereValue
<1>9. CASE ColumnName \/ ColumnType \/ ColumnLength
  BY <1>2, <1>1, OtherFields, <1>9, Zenon DEF ColumnName, ColumnType, ColumnLength
<1>10. CASE Constraint \/ ConstraintWord
  <2>1. \/ stmt' = stmt
        \/ \E c : stmt' = [stmt EXCEPT !.column_count = c]
        \/ \E c : stmt' = [stmt EXCEPT !.columns = c]
        \/ \E c : stmt' = [stmt EXCEPT !.columns = c, !.primary_key_index = LastColumn - 1]
    BY <1>10, Zenon DEF Constraint, ConstraintWord
  <2> QED BY <1>1, <1>2, <2>1, Zenon DEF StatementOK, Statements, SetCountIn, Error
<1>11. CASE SelectStar \/ FromAfterStar \/ JoinName
  <2>1. \/ stmt' = stmt
        \/ stmt' = [stmt EXCEPT !.select = <<Tok>>, !.select_count = 1]
        \/ \E j : stmt' = [stmt EXCEPT !.join = j]
    BY <1>11, Zenon DEF SelectStar, FromAfterStar, JoinName
  <2> QED BY <1>1, <1>2, <2>1, Zenon DEF StatementOK, Statements, SetCountIn, Error
<1>12. CASE JoinOrWhere
  <2>1. \/ stmt' = stmt
        \/ \E j : stmt' = [stmt EXCEPT !.has_join = TRUE, !.join = j]
    BY <1>12, Zenon DEF JoinOrWhere
  <2> QED BY <1>1, <1>2, <2>1, Zenon DEF StatementOK, Statements, SetCountIn, Error
<1>13. CASE SelectColumns
  BY <1>2, <1>1, OtherFields, <1>13, Zenon DEF SelectColumns
<1>14. CASE InsertColumns \/ InsertValue \/ SetValue \/ Execute
  BY <1>2, <1>1, OtherFields, <1>14, Zenon DEF InsertColumns, InsertValue, SetValue, Execute
<1>15. CASE InsertNext
  BY <1>2, <1>1, OtherFields, <1>15, Zenon DEF InsertNext
<1> QED BY <1>5, <1>6, <1>7, <1>8, <1>9, <1>10, <1>11, <1>12, <1>13, <1>14, <1>15

\* Where control is behind the list of SET, few actions go on.
LEMMA StepsBehind ==
  ASSUME Next, at \in Behind
  PROVE  WhereOrEnd \/ WhereColumn \/ WhereOperator \/ WhereValue \/ EndOfText \/ Finish \/ Execute
<1> USE DEF Behind
<1>1. ~Expect
  BY DEF Expect, Expected
<1>2. ~(Begin \/ Show \/ TableName)
  BY Zenon DEF Begin, Show, TableName
<1>3. ~(ColumnName \/ ColumnType \/ ColumnLength \/ Constraint \/ ConstraintWord)
  BY Zenon DEF ColumnName, ColumnType, ColumnLength, Constraint, ConstraintWord
<1>4. ~(SelectStar \/ SelectColumns \/ FromAfterStar \/ JoinOrWhere \/ JoinName)
  BY Zenon DEF SelectStar, SelectColumns, FromAfterStar, JoinOrWhere, JoinName
<1>5. ~(InsertColumns \/ InsertValue \/ InsertNext \/ SetColumn \/ SetValue \/ SetNext)
  BY Zenon DEF InsertColumns, InsertValue, InsertNext, SetColumn, SetValue, SetNext
<1> QED BY <1>1, <1>2, <1>3, <1>4, <1>5, Zenon DEF Next

\* parse_update, while it reads its list.
LEMMA SetKeepsWhere ==
  ASSUME ParserInv, SetWhereInv, SetColumn \/ SetNext
  PROVE  SetWhereInv'
<1>1. /\ StatementOK(stmt) /\ Shape(at, stmt, FALSE) /\ at \in {"set_column", "set_next"}
      /\ at \notin Behind \cup {"done", "ran"}
  <2>1. at \in {"set_column", "set_next"}
    BY Zenon DEF SetColumn, SetNext
  <2> QED BY <2>1, Underway DEF Behind
<1>2. stmt.set_count = 0 /\ ~stmt.has_where /\ stmt.where_value = <<>>
  BY <1>1, Zenon DEF Shape, CountOK, Finished, SetWhereInv, Behind
<1>3. SetCountIn(stmt') => SetWhereInv'
  BY <1>2 DEF SetCountIn, SetWhereInv
<1>4. CASE SetColumn
  <2>1. \/ stmt' = [stmt EXCEPT !.set_count = MaxColumns]
        \/ stmt' = [stmt EXCEPT !.set_columns = Append(stmt.set_columns, AsColumn(Tok))]
    BY <1>4, Zenon DEF SetColumn, Take, Peek, Go
  <2>2. stmt'.set_count \in {0, MaxColumns} /\ ~stmt'.has_where
    BY <1>1, <1>2, <2>1, Zenon DEF StatementOK, Statements
  <2> QED BY <2>2 DEF SetWhereInv
<1>5. CASE SetNext
  <2> DEFINE counted == [stmt EXCEPT !.set_count = Len(stmt.set_values)]
  <2>1. \/ stmt' = stmt
        \/ Tok = "WHERE" /\ Take("where_or_end", counted)
    <3>1. CASE Tok = ","
      BY <1>5, <3>1, Zenon DEF SetNext, Take, Peek, Go
    <3>2. CASE Tok = "WHERE"
      BY <1>5, <3>1, <3>2, Zenon DEF SetNext, Take, Peek, Go
    <3>3. CASE Tok \notin {",", "WHERE"}
      BY <1>5, <3>3, Zenon DEF SetNext, Take, Peek, Go
    <3> QED BY <3>1, <3>2, <3>3, Zenon
  <2>2. CASE stmt' = stmt
    BY <1>3, <2>2 DEF SetCountIn
  <2>3. CASE Tok = "WHERE" /\ Take("where_or_end", counted)
    <3>1. ~stmt'.has_where /\ stmt'.where_value = <<>>
      BY <1>1, <1>2, <2>3, Zenon DEF StatementOK, Statements, Take, Go
    <3>2. at' = "where_or_end" /\ pos' = pos + 1 /\ text' = text
      BY <2>3 DEF Take, Go
    <3>3. pos \in Nat \ {0} /\ text.tokens[pos] = "WHERE"
      <4>1. pos \in 1 .. Len(text.tokens) + 1 /\ text.tokens \in Seq(Vocabulary)
        BY DEF ParserInv, TypeOK
      <4>2. text.tokens[pos] = "WHERE"
        BY <2>3, Zenon DEF Tok, NULL
      <4> QED BY <4>1, <4>2, LenProperties
    <3>4. pos' > 1 /\ text'.tokens[pos' - 1] = "WHERE"
      BY <3>2, <3>3
    <3> QED BY <3>1, <3>2, <3>4 DEF SetWhereInv
  <2> QED BY <2>1, <2>2, <2>3
<1> QED BY <1>4, <1>5

\* The text alone says how often WHERE is said.
LEMMA TextAlone ==
  ASSUME text' = text
  PROVE  SaysWhereTwice' = SaysWhereTwice /\ EndsAtWhere' = EndsAtWhere
<1>1. SaysWhereTwice' = SaysWhereTwice
  BY DEF SaysWhereTwice
<1>2. EndsAtWhere' = EndsAtWhere
  BY Zenon DEF EndsAtWhere
<1> QED BY <1>1, <1>2

\* What follows the list of SET.
LEMMA BehindKeepsWhere ==
  ASSUME ParserInv, SetWhereInv, Next, at \in Behind
  PROVE  SetWhereInv'
<1>1. StatementOK(stmt) /\ Shape(at, stmt, parse_success)
  BY DEF ParserInv, TypeOK, StatementOK
<1>2. /\ text.tokens \in Seq(Vocabulary) /\ Len(text.tokens) \in Nat
      /\ pos \in 1 .. Len(text.tokens) + 1
  BY LenProperties DEF ParserInv, TypeOK
<1>3. CASE WhereOrEnd
  <2> DEFINE where == [stmt EXCEPT !.has_where = TRUE]
  <2>1. at = "where_or_end" /\ ((Tok = "WHERE" /\ Take("where_column", where)) \/ Peek("end", stmt))
    BY <1>3, Zenon DEF WhereOrEnd
  <2>2. CASE Tok = "WHERE" /\ Take("where_column", where)
    <3>1. /\ stmt'.type = stmt.type /\ stmt'.set_count = stmt.set_count /\ stmt'.has_where
          /\ at' = "where_column" /\ text' = text
      BY <1>1, <2>2, Zenon DEF StatementOK, Statements, Take, Go
    <3>2. ASSUME stmt.type = "UPDATE", stmt.set_count \notin {0, MaxColumns}
          PROVE  SaysWhereTwice
      <4>1. CASE stmt.has_where
        BY <3>2, <4>1 DEF SetWhereInv
      <4>2. CASE ~stmt.has_where
        <5>1. pos > 1 /\ text.tokens[pos - 1] = "WHERE"
          BY <2>1, <3>2, <4>2 DEF SetWhereInv
        <5>2. pos <= Len(text.tokens) /\ text.tokens[pos] = "WHERE"
          BY <2>2, Zenon DEF Tok, NULL
        <5>3. pos - 1 \in 1 .. Len(text.tokens) - 1 /\ (pos - 1) + 1 = pos
          BY <1>2, <5>1, <5>2
        <5> QED BY <5>1, <5>2, <5>3 DEF SaysWhereTwice
      <4> QED BY <4>1, <4>2
    <3>3. SaysWhereTwice' = SaysWhereTwice
      BY <3>1, TextAlone
    <3> QED BY <3>1, <3>2, <3>3 DEF SetWhereInv, Behind
  <2>3. CASE Peek("end", stmt)
    <3>1. stmt' = stmt /\ text' = text /\ pos' = pos /\ at' = "end"
      BY <1>2, <2>3 DEF Peek, Go
    <3>2. SaysWhereTwice' = SaysWhereTwice
      BY <3>1, TextAlone
    <3> QED BY <2>1, <3>1, <3>2 DEF SetWhereInv, Behind
  <2> QED BY <2>1, <2>2, <2>3
<1>4. CASE WhereColumn \/ WhereOperator \/ WhereValue \/ EndOfText
  <2>1. at \in {"where_column", "where_operator", "where_value"}
    BY <1>4, Zenon DEF WhereColumn, WhereOperator, WhereValue, EndOfText, Peeks, Behind
  <2>2. stmt.set_count # 0 => stmt.has_where
    BY <1>1, <2>1, Zenon DEF Shape, KindOK, CountOK, Finished
  <2>3. /\ stmt'.type = stmt.type /\ stmt'.set_count = stmt.set_count /\ stmt'.has_where = stmt.has_where
        /\ text' = text /\ at' \in Behind
    <3>1. stmt'.set_count = stmt.set_count /\ stmt'.has_where = stmt.has_where
      BY <1>4, SetCountStays
    <3>2. CASE WhereColumn \/ WhereOperator \/ WhereValue
      BY <1>1, <3>1, <3>2, Zenon DEF WhereColumn, WhereOperator, WhereValue, Take, Go, StatementOK, Statements, Behind
    <3>3. CASE EndOfText
      <4>1. Peek("done", stmt) \/ Peek("done", Error)
        BY <2>1, <3>3, Zenon DEF EndOfText
      <4> QED BY <1>1, <3>1, <4>1, Zenon DEF Peek, Go, Error, StatementOK, Statements, Behind
    <3> QED BY <1>4, <3>2, <3>3
  <2>4. SaysWhereTwice' = SaysWhereTwice
    BY <2>3, TextAlone
  <2> QED BY <2>2, <2>3, <2>4 DEF SetWhereInv
<1>5. CASE Finish
  <2> DEFINE rest == IF Tok = ";" THEN pos + 1 ELSE pos
             extra == rest <= Len(text.tokens)
  <2>1. /\ at = "end" /\ at' = "done" /\ text' = text
        /\ stmt' = (IF extra THEN Error ELSE stmt)
    BY <1>5, Zenon DEF Finish
  <2>2. Error.has_error /\ Error.type = stmt.type
    BY <1>1, ErrorIs
  <2>3. SetCountIn(Error) /\ Error.where_value = stmt.where_value
    BY <1>1, OtherFields, Zenon DEF StatementOK, Statements, Error
  <2>4. ASSUME ~extra, pos > 1, text.tokens[pos - 1] = "WHERE"
        PROVE  EndsAtWhere
    <3>1. rest \in Nat /\ ~(rest <= Len(text.tokens))
      <4>1. pos \in Nat /\ pos + 1 \in Nat
        BY <1>2
      <4> QED BY <2>4, <4>1, Zenon
    <3>2. /\ rest = pos + 1 /\ pos <= Len(text.tokens) => pos = Len(text.tokens)
          /\ rest = pos => pos - 1 = Len(text.tokens) /\ Len(text.tokens) > 0
      <4> HIDE DEF rest
      <4> QED BY <1>2, <2>4, <3>1
    <3>3. CASE Tok = ";"
      <4>1. pos <= Len(text.tokens) /\ text.tokens[pos] = ";" /\ rest = pos + 1
        BY <3>3, Zenon DEF Tok, NULL
      <4> QED BY <2>4, <3>2, <4>1, Zenon DEF EndsAtWhere
    <3>4. CASE Tok # ";"
      <4>1. rest = pos
        BY <3>4, Zenon
      <4> QED BY <2>4, <3>2, <4>1, Zenon DEF EndsAtWhere
    <3> QED BY <3>3, <3>4, Zenon
  <2>5. SaysWhereTwice' = SaysWhereTwice /\ EndsAtWhere' = EndsAtWhere
    BY <2>1, TextAlone, Zenon
  <2> HIDE DEF extra
  <2>6. CASE extra
    BY <2>1, <2>2, <2>3, <2>5, <2>6 DEF SetWhereInv, SetCountIn, Behind
  <2>7. CASE ~extra
    BY <2>1, <2>4, <2>5, <2>7 DEF SetWhereInv, Behind
  <2> QED BY <2>6, <2>7
<1>6. CASE Execute
  <2>1. at = "done" /\ at' = "ran" /\ text' = text /\ stmt' = stmt
    BY <1>6 DEF Execute
  <2>2. SaysWhereTwice' = SaysWhereTwice /\ EndsAtWhere' = EndsAtWhere
    BY <2>1, TextAlone, Zenon
  <2> QED BY <2>1, <2>2 DEF SetWhereInv, Behind
<1> QED BY <1>3, <1>4, <1>5, <1>6, StepsBehind

\* Every step keeps it.
LEMMA StepKeepsWhere ==
  ASSUME ParserInv, SetWhereInv, [Next]_vars
  PROVE  SetWhereInv'
<1>1. CASE UNCHANGED vars
  <2>1. text' = text /\ pos' = pos /\ at' = at /\ stmt' = stmt
    BY <1>1 DEF vars
  <2> QED BY <2>1, TextAlone DEF SetWhereInv
<1>2. CASE Next /\ at \in Behind
  BY <1>2, BehindKeepsWhere
<1>3. CASE SetColumn \/ SetNext
  BY <1>3, SetKeepsWhere
<1>4. CASE Next /\ ~(SetColumn \/ SetNext) /\ at \notin Behind
  <2>1. stmt.set_count = 0 /\ ~stmt.has_where
    BY <1>4, Zenon DEF ParserInv, Shape, CountOK, SetWhereInv, Behind
  <2>2. ~WhereOrEnd
    BY <1>4, Zenon DEF WhereOrEnd, Behind
  <2>3. stmt'.set_count = stmt.set_count /\ stmt'.has_where = stmt.has_where
    BY <1>4, <2>2, SetCountStays, Zenon DEF Next
  <2> QED BY <2>1, <2>3 DEF SetWhereInv
<1> QED BY <1>1, <1>2, <1>3, <1>4

-----------------------------------------------------------------------------
(* A filter at the end of the text.                                        *)

\* Statements that have no filter.
Unfiltered == {"CREATE", "INSERT", "DROP", "SHOW TABLES", "UNKNOWN"}

\* Nothing comes of the statement: it is in error, has no filter or no table.
NothingComes(k, place, p, s) ==
  \/ s.type \in Unfiltered
  \/ place \in {"done", "ran"} /\ (s.has_error \/ (s.type = "SELECT" /\ s.table = ""))
  \/ place = "select_columns" /\ p > k /\ s.table = ""

\* WHERE was taken for something else; what is left will be an error.
Astray(k, place, p) ==
  \/ p = k + 1 /\ place \in {"join_or_where", "where_or_end", "join_on", "join_equals",
                            "where_operator", "where_value", "set", "set_equals", "end"}
  \/ p = k + 2 /\ place \in {"where_value", "end"}
  \/ p = k + 3 /\ place = "end"

\* It begins a filter, which is read as far as p.
FilterRead(k, place, p, s) ==
  \/ place = "where_column" /\ p = k + 1
  \/ place = "where_operator" /\ p = k + 2 /\ s.where_column = AsColumn(text.tokens[k + 1])
  \/ place = "where_value" /\ p = k + 3 /\ s.where_column = AsColumn(text.tokens[k + 1])
  \/ /\ place \in {"end", "done", "ran"} /\ p >= k + 4
     /\ s.where_column = AsColumn(text.tokens[k + 1]) /\ s.where_value = <<Atoi(text.tokens[k + 3])>>

\* What becomes of a filter that begins at k.
OnTheWay(k, place, p, s) ==
  \/ p <= k /\ place \notin {"done", "ran"}
  \/ NothingComes(k, place, p, s)
  \/ Astray(k, place, p)
  \/ FilterRead(k, place, p, s)

\* A value of SET stands behind an equals sign, and a table is named behind
\* FROM.
Preceded(place, p) == place = "set_value" => p > 1 /\ text.tokens[p - 1] = "="
Unnamed(place, s) ==
  place \in {"start", "show", "select_first", "select_columns", "from"} => s.table = ""

FilterInv ==
  /\ Preceded(at, pos)
  /\ Unnamed(at, stmt)
  /\ \A k \in 1 .. Len(text.tokens) - 3 : EndsWithFilter(k) => OnTheWay(k, at, pos, stmt)

\* The tokens of the filter, as they come.
LEMMA FilterAhead ==
  ASSUME TypeOK, NEW k \in 1 .. Len(text.tokens) - 3, EndsWithFilter(k)
  PROVE  /\ k \in Nat /\ pos \in Nat /\ pos >= 1
         /\ Tok = NULL => pos > k + 3
         /\ Tok # NULL => Tok = text.tokens[pos]
         /\ pos = k => Tok = "WHERE"
         /\ k < pos /\ pos <= k + 3 => Tok \notin Grammar
         /\ pos = k + 1 => Tok # "="
         /\ pos > k => Tok # "FROM"
<1>1. /\ text.tokens \in Seq(Vocabulary) /\ Len(text.tokens) \in Nat
      /\ pos \in 1 .. Len(text.tokens) + 1
  BY LenProperties DEF TypeOK
<1> DEFINE n == Len(text.tokens)
           x == text.tokens
<1>2. k \in Nat /\ n \in Nat /\ pos \in Nat /\ k >= 1 /\ k + 3 <= n /\ pos >= 1 /\ pos <= n + 1
  BY <1>1
<1>3. pos <= n => Tok = x[pos] /\ Tok \in Vocabulary
  <2>1. pos <= n => pos \in 1 .. n
    BY <1>2
  <2> QED BY <1>1, <2>1, ElementOfSeq DEF Tok
<1>4. ~(pos <= n) => Tok = NULL
  BY Zenon DEF Tok
<1>5. NULL \notin Vocabulary
  <2>1. ASSUME NEW t \in Texts PROVE NULL \notin ToSet(t.tokens)
    <3>1. t.tokens \in Seq(STRING \ {NULL})
      BY ParserAssumption
    <3> QED BY <3>1, InSequence
  <2> QED BY <2>1 DEF Vocabulary
<1>6. /\ x[k] = "WHERE" /\ x[k + 1] # "="
      /\ \A i \in k + 1 .. k + 3 : x[i] \notin Grammar
  BY Zenon DEF EndsWithFilter
<1>7. "FROM" \in Grammar
  BY Zenon DEF Grammar
<1>8. ASSUME pos > k + 3, pos <= n PROVE x[pos] # "FROM"
  <2> DEFINE tail == SubSeq(x, k + 4, n)
  <2>1. tail = <<>> \/ tail = <<";">>
    BY Zenon DEF EndsWithFilter
  <2>2. /\ Len(tail) = n - (k + 4) + 1
        /\ \A i \in 1 .. n - (k + 4) + 1 : tail[i] = x[k + 4 + i - 1]
    BY <1>1, <1>2, <1>8, SubSeqProperties
  <2>3. pos - (k + 3) \in 1 .. n - (k + 4) + 1 /\ k + 4 + (pos - (k + 3)) - 1 = pos
    BY <1>2, <1>8
  <2>4. Len(tail) # 0 /\ Len(tail) \in Nat
    BY <2>2, <2>3
  <2> HIDE DEF tail
  <2>5. Len(<<>>) = 0
    OBVIOUS
  <2>6. tail = <<";">>
    BY <2>1, <2>4, <2>5, Zenon
  <2> DEFINE semicolon == ";"
  <2>7. tail = <<semicolon>> /\ semicolon # "FROM"
    BY <2>6, Zenon
  <2> HIDE DEF semicolon
  <2>8. Len(tail) = 1 /\ tail[1] = semicolon
    BY <2>7
  <2>9. pos - (k + 3) = 1
    <3>1. n - (k + 4) + 1 = 1
      BY <2>2, <2>8, Zenon
    <3> QED BY <1>2, <2>3, <3>1
  <2> QED BY <2>2, <2>3, <2>7, <2>8, <2>9
<1> HIDE DEF n, x
<1>9. Tok = NULL => pos > k + 3
  BY <1>2, <1>3, <1>5
<1>10. Tok # NULL => Tok = x[pos] /\ pos <= n
  BY <1>3, <1>4
<1>11. pos = k => Tok = "WHERE"
  BY <1>2, <1>3, <1>6
<1>12. k < pos /\ pos <= k + 3 => Tok \notin Grammar
  <2> SUFFICES ASSUME k < pos, pos <= k + 3 PROVE Tok \notin Grammar
    OBVIOUS
  <2>1. pos \in k + 1 .. k + 3 /\ pos <= n
    BY <1>2
  <2> QED BY <1>3, <1>6, <2>1, Zenon
<1>13. pos = k + 1 => Tok # "="
  <2> SUFFICES ASSUME pos = k + 1 PROVE Tok # "="
    OBVIOUS
  <2>1. pos <= n
    BY <1>2
  <2> QED BY <1>3, <1>6, <2>1, Zenon
<1>14. pos > k => Tok # "FROM"
  <2>1. pos <= k + 3 \/ (pos > k + 3 /\ pos <= n) \/ ~(pos <= n)
    BY <1>2
  <2>2. NULL # "FROM"
    BY DEF NULL
  <2> QED BY <1>2, <1>3, <1>4, <1>7, <1>8, <1>12, <2>1, <2>2
<1> QED BY <1>2, <1>9, <1>10, <1>11, <1>12, <1>13, <1>14 DEF x

\* What a step may leave alone in a statement.
TypeIn(s) == s.type = stmt.type
TableIn(s) == s.type = stmt.type /\ s.table = stmt.table
FilterIn(s) == s.where_column = stmt.where_column /\ s.where_value = stmt.where_value

\* Each step changes fields of its own.
LEMMA FieldsAlone ==
  ASSUME StatementOK(stmt)
  PROVE  /\ TableIn(Error) /\ FilterIn(Error) /\ Error.has_error
         /\ \A v : /\ TableIn([stmt EXCEPT !.has_where = v]) /\ FilterIn([stmt EXCEPT !.has_where = v])
                  /\ TableIn([stmt EXCEPT !.where_column = v]) /\ TableIn([stmt EXCEPT !.where_operator = v])
                  /\ FilterIn([stmt EXCEPT !.where_operator = v]) /\ TableIn([stmt EXCEPT !.where_value = v])
                  /\ TableIn([stmt EXCEPT !.columns = v]) /\ TableIn([stmt EXCEPT !.column_count = v])
                  /\ TableIn([stmt EXCEPT !.values = v]) /\ TableIn([stmt EXCEPT !.value_count = v])
                  /\ TableIn([stmt EXCEPT !.select = v]) /\ TableIn([stmt EXCEPT !.select_count = v])
                  /\ TableIn([stmt EXCEPT !.join = v]) /\ TableIn([stmt EXCEPT !.set_columns = v])
                  /\ TableIn([stmt EXCEPT !.set_values = v]) /\ TableIn([stmt EXCEPT !.set_count = v])
                  /\ TypeIn([stmt EXCEPT !.table = v]) /\ [stmt EXCEPT !.table = v].table = v
BY Zenon DEF StatementOK, Statements, Error, TypeIn, TableIn, FilterIn

\* Only parse_sql and SHOW TABLES set the type of a statement, and its table is
\* set in one place.
LEMMA TableStays ==
  ASSUME ParserInv, Next, at \notin {"start", "show"}
  PROVE  stmt'.type = stmt.type /\ (~TableName => stmt'.table = stmt.table)
<1>1. StatementOK(stmt)
  BY DEF ParserInv, TypeOK, StatementOK
<1>2. TableIn(stmt)
  BY DEF TableIn
<1>0. ~Begin /\ ~Show
  BY Zenon DEF Begin, Show
<1> USE DEF Take, Peek, Go
<1>3. CASE TableName
  BY <1>1, <1>3, FieldsAlone, Zenon DEF TableName, TypeIn
<1>4. CASE ~TableName
  <2> SUFFICES TableIn(stmt')
    BY <1>4 DEF TableIn
  <2>1. CASE Expect \/ Finish \/ Execute
    BY <1>1, <1>2, <2>1, FieldsAlone, Zenon DEF Expect, Finish, Execute
  <2>2. CASE EndOfText
    <3>1. stmt' = stmt \/ stmt' = Error
      BY <2>2, Zenon DEF EndOfText
    <3> QED BY <1>1, <1>2, <3>1, FieldsAlone, Zenon
  <2>3. CASE WhereOrEnd \/ WhereColumn \/ WhereOperator \/ WhereValue
    BY <1>1, <1>2, <2>3, FieldsAlone, ZenonT(60) DEF WhereOrEnd, WhereColumn, WhereOperator, WhereValue
  <2>4. CASE ColumnName \/ ColumnType \/ ColumnLength
    BY <1>1, <1>2, <2>4, FieldsAlone, Zenon DEF ColumnName, ColumnType, ColumnLength
  <2>5. CASE Constraint \/ ConstraintWord
    <3>1. \/ stmt' = stmt
          \/ \E c : stmt' = [stmt EXCEPT !.column_count = c]
          \/ \E c : stmt' = [stmt EXCEPT !.columns = c]
          \/ \E c : stmt' = [stmt EXCEPT !.columns = c, !.primary_key_index = LastColumn - 1]
      BY <2>5, Zenon DEF Constraint, ConstraintWord
    <3> QED BY <1>1, <1>2, <3>1, Zenon DEF StatementOK, Statements, TableIn
  <2>6. CASE SelectStar \/ FromAfterStar \/ JoinName
    <3>1. \/ stmt' = stmt
          \/ stmt' = [stmt EXCEPT !.select = <<Tok>>, !.select_count = 1]
          \/ \E j : stmt' = [stmt EXCEPT !.join = j]
      BY <2>6, Zenon DEF SelectStar, FromAfterStar, JoinName
    <3> QED BY <1>1, <1>2, <3>1, Zenon DEF StatementOK, Statements, TableIn
  <2>7. CASE JoinOrWhere
    <3>1. \/ stmt' = stmt
          \/ \E j : stmt' = [stmt EXCEPT !.has_join = TRUE, !.join = j]
      BY <2>7, Zenon DEF JoinOrWhere
    <3> QED BY <1>1, <1>2, <3>1, Zenon DEF StatementOK, Statements, TableIn
  <2>8. CASE SelectColumns
    BY <1>1, <1>2, <2>8, FieldsAlone, Zenon DEF SelectColumns
  <2>9. CASE InsertColumns \/ InsertValue \/ SetColumn \/ SetValue
    BY <1>1, <1>2, <2>9, FieldsAlone, Zenon DEF InsertColumns, InsertValue, SetColumn, SetValue
  <2>10. CASE InsertNext
    BY <1>1, <1>2, <2>10, FieldsAlone, Zenon DEF InsertNext
  <2>11. CASE SetNext
    BY <1>1, <1>2, <2>11, FieldsAlone, Zenon DEF SetNext
  <2> QED BY <1>0, <1>4, <2>1, <2>2, <2>3, <2>4, <2>5, <2>6, <2>7, <2>8, <2>9, <2>10, <2>11, Zenon DEF Next
<1> QED BY <1>3, <1>4

\* The filter that begins at k, and where the parser is with it.
Coming(k) ==
  /\ k \in Nat /\ pos \in Nat /\ pos >= 1
  /\ Tok = NULL => pos > k + 3
  /\ Tok # NULL => Tok = text.tokens[pos]
  /\ pos = k => Tok = "WHERE"
  /\ k < pos /\ pos <= k + 3 => Tok \notin Grammar
  /\ pos = k + 1 => Tok # "="
  /\ pos > k => Tok # "FROM"
  /\ OnTheWay(k, at, pos, stmt)
  /\ Preceded(at, pos) /\ Unnamed(at, stmt)
  /\ k > 1 => text.tokens[k - 1] # "="
  /\ stmt.type \notin Unfiltered

\* What every step begins with.
LEMMA IsComing ==
  ASSUME ParserInv, FilterInv, NEW k \in 1 .. Len(text.tokens) - 3, EndsWithFilter(k),
         stmt.type \notin Unfiltered
  PROVE  Coming(k)
<1>1. k > 1 => text.tokens[k - 1] # "="
  BY Zenon DEF EndsWithFilter
<1>2. OnTheWay(k, at, pos, stmt) /\ Preceded(at, pos) /\ Unnamed(at, stmt)
  BY Zenon DEF FilterInv
<1>3. TypeOK
  BY DEF ParserInv
<1>4. /\ k \in Nat /\ pos \in Nat /\ pos >= 1
      /\ Tok = NULL => pos > k + 3
      /\ Tok # NULL => Tok = text.tokens[pos]
      /\ pos = k => Tok = "WHERE"
      /\ k < pos /\ pos <= k + 3 => Tok \notin Grammar
      /\ pos = k + 1 => Tok # "="
      /\ pos > k => Tok # "FROM"
  BY <1>3, FilterAhead
<1> QED BY <1>1, <1>2, <1>4, Zenon DEF Coming

\* WHERE and the words behind it.
LEMMA GrammarIs ==
  /\ {"FROM", "WHERE", "SET", "ON", "JOIN"} \subseteq Grammar
  /\ JoinWords \subseteq Grammar
  /\ "WHERE" \notin JoinWords \cup {"JOIN"}
BY Zenon DEF Grammar, JoinWords

\* Where the parser may be.
LEMMA PlaceComing ==
  ASSUME NEW k, Coming(k), at \notin {"done", "ran"}
  PROVE  \/ pos <= k
         \/ at = "select_columns" /\ pos > k
         \/ Astray(k, at, pos)
         \/ FilterRead(k, at, pos, stmt)
BY DEF Coming, OnTheWay, NothingComes

\* parse_where_clause.
LEMMA WhereOnTheWay ==
  ASSUME ParserInv, NEW k, Coming(k), WhereOrEnd \/ WhereColumn \/ WhereOperator \/ WhereValue
  PROVE  OnTheWay(k, at', pos', stmt')
<1>1. /\ k \in Nat /\ pos \in Nat
      /\ Tok = NULL => pos > k + 3
      /\ Tok # NULL => Tok = text.tokens[pos]
      /\ pos = k => Tok = "WHERE"
      /\ k < pos /\ pos <= k + 3 => Tok # "WHERE"
  BY GrammarIs, Zenon DEF Coming
<1>2. StatementOK(stmt)
  BY DEF ParserInv, TypeOK, StatementOK
<1> USE DEF Take, Peek, Go
<1>3. CASE WhereOrEnd
  <2>1. at = "where_or_end" /\ (pos <= k \/ pos = k + 1)
    <3>1. at = "where_or_end"
      BY <1>3, Zenon DEF WhereOrEnd
    <3> QED BY <3>1, PlaceComing DEF Astray, FilterRead
  <2>2. \/ Tok = "WHERE" /\ at' = "where_column" /\ pos' = pos + 1
        \/ Tok # "WHERE" /\ at' = "end" /\ pos' = pos
    <3>1. pos + 0 = pos
      BY <1>1
    <3> QED BY <1>3, <3>1, Zenon DEF WhereOrEnd
  <2> QED BY <1>1, <2>1, <2>2 DEF OnTheWay, Astray, FilterRead
<1>4. CASE WhereColumn
  <2>1. at = "where_column" /\ (pos <= k \/ pos = k + 1) /\ Tok # NULL
    <3>1. at = "where_column" /\ Tok # NULL
      BY <1>4, Zenon DEF WhereColumn
    <3> QED BY <3>1, PlaceComing DEF Astray, FilterRead
  <2>2. at' = "where_operator" /\ pos' = pos + 1 /\ stmt'.where_column = AsColumn(Tok)
    BY <1>2, <1>4, Zenon DEF WhereColumn, StatementOK, Statements
  <2> QED BY <1>1, <2>1, <2>2 DEF OnTheWay, Astray, FilterRead
<1>5. CASE WhereOperator
  <2>1. at = "where_operator" /\ (pos <= k + 1 \/ (pos = k + 2 /\ stmt.where_column = AsColumn(text.tokens[k + 1])))
    <3>1. at = "where_operator"
      BY <1>5, Zenon DEF WhereOperator
    <3> QED BY <1>1, <3>1, PlaceComing DEF Astray, FilterRead
  <2>2. at' = "where_value" /\ pos' = pos + 1 /\ stmt'.where_column = stmt.where_column
    BY <1>2, <1>5, FieldsAlone, Zenon DEF WhereOperator, FilterIn
  <2> QED BY <1>1, <2>1, <2>2 DEF OnTheWay, Astray, FilterRead
<1>6. CASE WhereValue
  <2>1. at = "where_value" /\ Tok # NULL
    BY <1>6, Zenon DEF WhereValue
  <2>2. pos <= k + 2 \/ (pos = k + 3 /\ stmt.where_column = AsColumn(text.tokens[k + 1]))
    BY <1>1, <2>1, PlaceComing DEF Astray, FilterRead
  <2>3. at' = "end" /\ pos' = pos + 1 /\ stmt'.where_column = stmt.where_column /\ stmt'.where_value = <<Atoi(Tok)>>
    BY <1>2, <1>6, Zenon DEF WhereValue, StatementOK, Statements
  <2> QED BY <1>1, <2>1, <2>2, <2>3 DEF OnTheWay, Astray, FilterRead
<1> QED BY <1>3, <1>4, <1>5, <1>6

\* A statement that ends before its filter is in error.
LEMMA FinishOnTheWay ==
  ASSUME ParserInv, NEW k \in 1 .. Len(text.tokens) - 3, Coming(k), Finish
  PROVE  OnTheWay(k, at', pos', stmt')
<1>1. /\ pos \in Nat /\ Len(text.tokens) \in Nat
      /\ k < pos /\ pos <= k + 3 => Tok \notin Grammar
      /\ pos = k => Tok = "WHERE"
  BY LenProperties DEF Coming, ParserInv, TypeOK
<1>2. StatementOK(stmt)
  BY DEF ParserInv, TypeOK, StatementOK
<1> DEFINE ends == Tok = ";"
           rest == IF ends THEN pos + 1 ELSE pos
           extra == rest <= Len(text.tokens)
<1>3. /\ at = "end" /\ at' = "done"
      /\ pos' = (IF extra THEN rest + 1 ELSE rest)
      /\ stmt' = (IF extra THEN Error ELSE stmt)
  BY Zenon DEF Finish
<1>4. ends => Tok \in Grammar /\ Tok # "WHERE"
  BY Zenon DEF Grammar
<1> HIDE DEF ends
<1>5. rest \in {pos, pos + 1} /\ (~ends => rest = pos)
  BY <1>1
<1>6. extra => rest <= Len(text.tokens)
  OBVIOUS
<1>7. ~extra => ~(rest <= Len(text.tokens))
  OBVIOUS
<1> HIDE DEF rest, extra
<1>8. Error.has_error /\ Error.type = stmt.type
  BY <1>2, ErrorIs
<1>9. CASE extra
  BY <1>3, <1>8, <1>9 DEF OnTheWay, NothingComes
<1>10. CASE ~extra
  <2>1. pos >= k + 4
    <3>1. ends /\ pos >= k => pos > k + 3
      BY <1>1, <1>4, <1>5
    <3> QED BY <1>1, <1>5, <1>7, <1>10, <3>1
  <2>2. FilterRead(k, at, pos, stmt)
    BY <1>1, <1>3, <2>1, PlaceComing DEF Astray
  <2>3. at' = "done" /\ pos' >= k + 4 /\ stmt' = stmt
    BY <1>1, <1>3, <1>5, <1>10, <2>1
  <2> QED BY <1>3, <2>2, <2>3 DEF FilterRead, OnTheWay
<1> QED BY <1>9, <1>10

\* parse_sql begins no statement at a WHERE.
LEMMA BeginOnTheWay ==
  ASSUME ParserInv, NEW k, Coming(k), Begin \/ Show
  PROVE  OnTheWay(k, at', pos', stmt')
<1>1. /\ k \in Nat /\ pos \in Nat /\ Unnamed(at, stmt)
      /\ pos = k => Tok = "WHERE"
  BY DEF Coming
<1>2. StatementOK(stmt) /\ Shape(at, stmt, parse_success)
  BY DEF ParserInv, TypeOK, StatementOK
<1> USE DEF Take, Peek, Go
<1>3. CASE Begin
  <2>1. at = "start"
    BY <1>3, Zenon DEF Begin
  <2>2. pos <= k
    BY <1>1, <2>1, PlaceComing DEF Astray, FilterRead
  <2>3. \/ Tok # "WHERE" /\ at' # "done" /\ at' # "ran" /\ pos' = pos + 1
        \/ at' = "done" /\ stmt' = [Error EXCEPT !.type = "UNKNOWN"]
    BY <1>3, Zenon DEF Begin, Commands
  <2>4. CASE at' = "done" /\ stmt' = [Error EXCEPT !.type = "UNKNOWN"]
    <3>1. stmt'.type = "UNKNOWN"
      BY <1>2, <2>4, Zenon DEF StatementOK, Statements, Error
    <3> QED BY <3>1 DEF OnTheWay, NothingComes, Unfiltered
  <2> QED BY <1>1, <2>2, <2>3, <2>4 DEF OnTheWay
<1>4. CASE Show
  <2>1. at = "show"
    BY <1>4, Zenon DEF Show
  <2>2. stmt.type = "SELECT" /\ stmt.table = ""
    BY <1>1, <1>2, <2>1, Zenon DEF Shape, KindOK, SelectPlaces, Unnamed
  <2>3. \/ stmt' = [stmt EXCEPT !.type = "SHOW TABLES"]
        \/ at' = "done" /\ stmt' = stmt
    BY <1>4, Zenon DEF Show
  <2>4. CASE stmt' = [stmt EXCEPT !.type = "SHOW TABLES"]
    <3>1. stmt'.type = "SHOW TABLES"
      BY <1>2, <2>4, Zenon DEF StatementOK, Statements
    <3> QED BY <3>1 DEF OnTheWay, NothingComes, Unfiltered
  <2>5. CASE at' = "done" /\ stmt' = stmt
    BY <2>2, <2>5 DEF OnTheWay, NothingComes
  <2> QED BY <2>3, <2>4, <2>5
<1> QED BY <1>3, <1>4

\* The tokens that are expected.
LEMMA ExpectedTokens ==
  /\ \A place \in DOMAIN Expected : Expected[place][1] # "WHERE"
  /\ Expected["join_on"][1] = "ON" /\ Expected["join_equals"][1] = "="
  /\ Expected["set"][1] = "SET" /\ Expected["set_equals"][1] = "="
<1>1. \A a, b : <<a, b>>[1] = a
  OBVIOUS
<1>2. /\ Expected["create"] = <<"TABLE", "name">> /\ Expected["insert"] = <<"INTO", "name">>
      /\ Expected["delete"] = <<"FROM", "name">> /\ Expected["columns"] = <<"(", "column">>
      /\ Expected["length_end"] = <<")", "constraint">> /\ Expected["values"] = <<"VALUES", "values_open">>
      /\ Expected["values_open"] = <<"(", "value">> /\ Expected["set"] = <<"SET", "set_column">>
      /\ Expected["set_equals"] = <<"=", "set_value">> /\ Expected["join"] = <<"JOIN", "join_table">>
      /\ Expected["join_on"] = <<"ON", "join_left">> /\ Expected["join_equals"] = <<"=", "join_right">>
  BY Zenon DEF Expected
<1>3. /\ Expected["join_on"][1] = "ON" /\ Expected["join_equals"][1] = "="
      /\ Expected["set"][1] = "SET" /\ Expected["set_equals"][1] = "="
  BY <1>1, <1>2, ZenonT(60)
<1>4. /\ Expected["create"][1] = "TABLE" /\ Expected["insert"][1] = "INTO"
      /\ Expected["delete"][1] = "FROM" /\ Expected["join"][1] = "JOIN"
  BY <1>1, <1>2, ZenonT(60)
<1>5. /\ Expected["columns"][1] = "(" /\ Expected["length_end"][1] = ")"
      /\ Expected["values"][1] = "VALUES" /\ Expected["values_open"][1] = "("
  BY <1>1, <1>2, ZenonT(60)
<1>6. ASSUME NEW place \in DOMAIN Expected PROVE Expected[place][1] # "WHERE"
  <2>1. place \in {"create", "insert", "delete", "columns", "length_end", "values", "values_open",
                  "set", "set_equals", "join", "join_on", "join_equals"}
    BY DEF Expected
  <2>2. CASE place \in {"create", "insert", "delete", "join"}
    BY <1>4, <2>2, Zenon
  <2>3. CASE place \in {"columns", "length_end", "values", "values_open"}
    BY <1>5, <2>3, Zenon
  <2>4. CASE place \in {"set", "set_equals", "join_on", "join_equals"}
    BY <1>3, <2>4, Zenon
  <2> QED BY <2>1, <2>2, <2>3, <2>4, Zenon
<1> QED BY <1>3, <1>6, Zenon

\* No expect_token takes WHERE, or a word of a filter.
LEMMA ExpectOnTheWay ==
  ASSUME ParserInv, NEW k, Coming(k), Expect \/ EndOfText
  PROVE  OnTheWay(k, at', pos', stmt')
<1>1. /\ k \in Nat /\ pos \in Nat
      /\ pos = k => Tok = "WHERE"
      /\ Tok = NULL => pos > k + 3
      /\ k < pos /\ pos <= k + 3 => Tok \notin Grammar
      /\ pos = k + 1 => Tok # "="
      /\ stmt.type \notin Unfiltered
  BY DEF Coming
<1>2. StatementOK(stmt) /\ Shape(at, stmt, parse_success)
  BY DEF ParserInv, TypeOK, StatementOK
<1>3. Error.has_error
  BY <1>2, ErrorIs
<1> USE DEF Take, Peek, Go
<1>4. CASE Expect
  <2>1. at \in DOMAIN Expected /\ at \notin {"done", "ran"}
    BY <1>4 DEF Expect, Expected
  <2>2. \/ Tok = Expected[at][1] /\ at' = Expected[at][2] /\ pos' = pos + 1
        \/ at' = "done" /\ stmt' = Error
    BY <1>4, Zenon DEF Expect
  <2>3. Expected[at][2] \notin {"done", "ran"}
    BY <2>1 DEF Expected
  <2>4. Expected[at][1] # "WHERE"
    BY <2>1, ExpectedTokens, Zenon
  <2>5. \/ pos <= k
        \/ pos = k + 1 /\ at \in {"join_on", "join_equals", "set", "set_equals"}
    BY <1>1, <2>1, PlaceComing DEF Astray, FilterRead, Expected
  <2>6. at \in {"join_on", "join_equals", "set", "set_equals"} => Expected[at][1] \in {"ON", "=", "SET"}
    BY ExpectedTokens, Zenon
  <2>7. {"ON", "SET"} \subseteq Grammar
    BY GrammarIs
  <2>8. Tok = Expected[at][1] => pos < k
    <3>1. pos = k + 1 => Tok \notin Grammar /\ Tok # "="
      BY <1>1
    <3>2. pos = k + 1 => Tok # Expected[at][1]
      <4>1. pos = k + 1 => ~(pos <= k)
        BY <1>1
      <4> QED BY <2>5, <2>6, <2>7, <3>1, <4>1, Zenon
    <3> QED BY <1>1, <2>4, <2>5, <3>2
  <2>9. CASE Tok = Expected[at][1] /\ at' = Expected[at][2] /\ pos' = pos + 1
    <3>1. pos' <= k /\ at' \notin {"done", "ran"}
      BY <1>1, <2>3, <2>8, <2>9
    <3> QED BY <3>1 DEF OnTheWay
  <2>10. CASE at' = "done" /\ stmt' = Error
    BY <1>3, <2>10, Zenon DEF OnTheWay, NothingComes
  <2> QED BY <2>2, <2>9, <2>10
<1>5. CASE EndOfText
  <2>1. Tok = NULL /\ at \notin Peeks
    BY <1>5, Zenon DEF EndOfText
  <2>2. at \notin {"select_columns", "end", "done", "ran"}
    BY <2>1 DEF Peeks
  <2> QED BY <1>1, <2>1, <2>2, PlaceComing DEF Astray, FilterRead
<1> QED BY <1>4, <1>5

\* A table of the name WHERE: what follows is an error.
LEMMA TableNameOnTheWay ==
  ASSUME ParserInv, NEW k, Coming(k), TableName
  PROVE  OnTheWay(k, at', pos', stmt')
<1>1. k \in Nat /\ pos \in Nat /\ stmt.type \notin Unfiltered
  BY DEF Coming
<1>2. StatementOK(stmt) /\ Shape(at, stmt, parse_success) /\ at = "name"
  BY DEF ParserInv, TypeOK, StatementOK, TableName
<1>3. pos <= k
  BY <1>1, <1>2, PlaceComing DEF Astray, FilterRead
<1>4. stmt.type \in {"SELECT", "DELETE", "UPDATE"}
  BY <1>1, <1>2 DEF Shape, KindOK, Commands, Unfiltered
<1>5. at' = AfterName[stmt.type] /\ pos' = pos + 1
  BY DEF TableName, Take, Go
<1>6. at' \in {"join_or_where", "where_or_end", "set"}
  BY <1>4, <1>5 DEF AfterName
<1> QED BY <1>1, <1>3, <1>5, <1>6 DEF OnTheWay, Astray

\* parse_select: a WHERE among the columns leaves the statement without a table.
LEMMA SelectOnTheWay ==
  ASSUME ParserInv, NEW k, Coming(k), SelectStar \/ SelectColumns \/ FromAfterStar
  PROVE  OnTheWay(k, at', pos', stmt')
<1>1. /\ k \in Nat /\ pos \in Nat /\ Unnamed(at, stmt)
      /\ pos = k => Tok = "WHERE"
      /\ pos > k => Tok # "FROM"
  BY DEF Coming
<1>2. StatementOK(stmt) /\ Shape(at, stmt, parse_success)
  BY DEF ParserInv, TypeOK, StatementOK
<1>3. at \in {"select_first", "select_columns", "from"}
  BY Zenon DEF SelectStar, SelectColumns, FromAfterStar
<1>4. stmt.type = "SELECT" /\ stmt.table = ""
  BY <1>1, <1>2, <1>3, Zenon DEF Shape, KindOK, SelectPlaces, Unnamed
<1>5. stmt'.type = "SELECT" /\ stmt'.table = ""
  <2>1. at \notin {"start", "show"}
    BY <1>3
  <2>2. ~TableName
    BY <1>3, Zenon DEF TableName
  <2> QED BY <1>4, <2>1, <2>2, TableStays DEF Next
<1>6. pos <= k \/ (at = "select_columns" /\ pos > k)
  BY <1>1, <1>3, PlaceComing DEF Astray, FilterRead
<1> USE DEF Take, Peek, Go
<1>7. \/ at' = "done"
      \/ at' = "select_columns" /\ pos' = pos + 1
      \/ at' = "name" /\ pos' = pos + 1 /\ Tok = "FROM"
      \/ at = "select_first" /\ at' = "from" /\ pos' = pos + 1 /\ Tok # "WHERE"
  <2>1. CASE SelectStar
    BY <2>1, Zenon DEF SelectStar
  <2>2. CASE SelectColumns
    BY <2>2, Zenon DEF SelectColumns
  <2>3. CASE FromAfterStar
    BY <2>3, Zenon DEF FromAfterStar
  <2> QED BY <2>1, <2>2, <2>3, Zenon
<1>8. CASE at' = "done"
  BY <1>5, <1>8 DEF OnTheWay, NothingComes
<1>9. CASE at' = "select_columns" /\ pos' = pos + 1
  <2>1. pos' <= k \/ pos' > k
    BY <1>1, <1>9
  <2> QED BY <1>5, <1>9, <2>1 DEF OnTheWay, NothingComes
<1>10. CASE at' = "name" /\ pos' = pos + 1 /\ Tok = "FROM"
  BY <1>1, <1>10 DEF OnTheWay
<1>11. CASE at = "select_first" /\ at' = "from" /\ pos' = pos + 1 /\ Tok # "WHERE"
  BY <1>1, <1>6, <1>11 DEF OnTheWay
<1> QED BY <1>7, <1>8, <1>9, <1>10, <1>11

\* Where a statement may be while WHERE is still to come.
LEMMA BeforeFilter ==
  ASSUME NEW k, Coming(k),
         at \in {"join_table", "join_left", "join_right", "set_column", "set_value", "set_next"}
  PROVE  pos <= k
BY PlaceComing DEF Astray, FilterRead

\* parse_join_clause takes WHERE only for a name, and stops behind it.
LEMMA JoinOnTheWay ==
  ASSUME NEW k, Coming(k), JoinOrWhere \/ JoinName
  PROVE  OnTheWay(k, at', pos', stmt')
<1>1. /\ k \in Nat /\ pos \in Nat
      /\ pos = k => Tok = "WHERE"
      /\ k < pos /\ pos <= k + 3 => Tok \notin Grammar
  BY DEF Coming
<1> USE DEF Take, Peek, Go
<1>2. CASE JoinOrWhere
  <2>1. at = "join_or_where" /\ (pos <= k \/ pos = k + 1)
    <3>1. at = "join_or_where"
      BY <1>2, Zenon DEF JoinOrWhere
    <3> QED BY <3>1, PlaceComing DEF Astray, FilterRead
  <2>2. \/ Tok \in JoinWords \cup {"JOIN"} /\ at' = "join" /\ pos' \in {pos, pos + 1}
        \/ at' = "where_or_end" /\ pos' = pos
    <3>1. pos + 0 = pos
      BY <1>1
    <3> QED BY <1>2, <3>1, Zenon DEF JoinOrWhere
  <2>3. Tok \in JoinWords \cup {"JOIN"} => Tok \in Grammar /\ Tok # "WHERE"
    BY GrammarIs
  <2>4. Tok \in JoinWords \cup {"JOIN"} => pos < k
    BY <1>1, <2>1, <2>3
  <2>5. \/ at' = "join" /\ pos' <= k
        \/ at' = "where_or_end" /\ (pos' <= k \/ pos' = k + 1)
    BY <1>1, <2>1, <2>2, <2>4
  <2> QED BY <2>5 DEF OnTheWay, Astray
<1>3. CASE JoinName
  <2>1. at \in {"join_table", "join_left", "join_right"}
    BY <1>3, Zenon DEF JoinName
  <2>2. at' \in {"join_on", "join_equals", "where_or_end"} /\ pos' = pos + 1
    BY <1>3 DEF JoinName
  <2>3. pos' <= k \/ pos' = k + 1
    BY <1>1, <2>1, <2>2, BeforeFilter
  <2> QED BY <2>2, <2>3 DEF OnTheWay, Astray
<1> QED BY <1>2, <1>3

\* parse_update takes WHERE for a column, for the end of its list or, behind an
\* equals sign alone, for a value.
LEMMA SetOnTheWay ==
  ASSUME NEW k, Coming(k), SetColumn \/ SetValue \/ SetNext
  PROVE  OnTheWay(k, at', pos', stmt')
<1>1. /\ k \in Nat /\ pos \in Nat
      /\ pos = k => Tok = "WHERE"
      /\ k > 1 => text.tokens[k - 1] # "="
      /\ Preceded(at, pos)
  BY DEF Coming
<1>2. at \in {"set_column", "set_value", "set_next"}
  BY Zenon DEF SetColumn, SetValue, SetNext
<1>3. pos <= k
  BY <1>2, BeforeFilter
<1> USE DEF Take, Peek, Go
<1>4. pos + 0 = pos
  BY <1>1
<1>5. CASE SetColumn
  <2>1. \/ at' = "where_or_end" /\ pos' = pos
        \/ at' = "set_equals" /\ pos' = pos + 1
    BY <1>4, <1>5, Zenon DEF SetColumn
  <2>2. at' \in {"where_or_end", "set_equals"} /\ (pos' <= k \/ pos' = k + 1)
    BY <1>1, <1>3, <2>1
  <2> QED BY <2>2 DEF OnTheWay, Astray
<1>6. CASE SetValue
  <2>1. at = "set_value" /\ at' = "set_next" /\ pos' = pos + 1
    BY <1>6, Zenon DEF SetValue
  <2>2. pos # k
    BY <1>1, <2>1 DEF Preceded
  <2>3. pos' <= k
    BY <1>1, <1>3, <2>1, <2>2
  <2> QED BY <2>1, <2>3 DEF OnTheWay
<1>7. CASE SetNext
  <2>1. \/ Tok # "WHERE" /\ at' = "set_column" /\ pos' = pos + 1
        \/ at' = "where_or_end" /\ pos' = pos + 1
        \/ at' = "set_column" /\ pos' = pos
    BY <1>4, <1>7, Zenon DEF SetNext
  <2>2. \/ at' = "set_column" /\ pos' <= k
        \/ at' = "where_or_end" /\ (pos' <= k \/ pos' = k + 1)
    BY <1>1, <1>3, <2>1
  <2> QED BY <2>2 DEF OnTheWay, Astray
<1> QED BY <1>5, <1>6, <1>7

\* What was parsed is what is run.
LEMMA ExecuteOnTheWay ==
  ASSUME NEW k, Coming(k), Execute
  PROVE  OnTheWay(k, at', pos', stmt')
<1>1. at = "done" /\ at' = "ran" /\ pos' = pos /\ stmt' = stmt
  BY Zenon DEF Execute
<1>2. OnTheWay(k, at, pos, stmt)
  BY DEF Coming
<1>3. NothingComes(k, at, pos, stmt) \/ FilterRead(k, at, pos, stmt)
  BY <1>1, <1>2 DEF OnTheWay, Astray
<1>4. NothingComes(k, at, pos, stmt) => NothingComes(k, at', pos', stmt')
  BY <1>1 DEF NothingComes
<1>5. FilterRead(k, at, pos, stmt) => FilterRead(k, at', pos', stmt')
  BY <1>1 DEF FilterRead
<1> QED BY <1>3, <1>4, <1>5 DEF OnTheWay

\* The lists of CREATE TABLE and INSERT belong to statements without a filter.
LEMMA ListsUnfiltered ==
  ASSUME ParserInv,
         \/ ColumnName \/ ColumnType \/ ColumnLength \/ Constraint \/ ConstraintWord
         \/ InsertColumns \/ InsertValue \/ InsertNext
  PROVE  stmt.type \in Unfiltered
<1>1. at \in CreatePlaces \cup InsertPlaces
  <2>1. CASE ColumnName \/ ColumnType \/ ColumnLength \/ Constraint \/ ConstraintWord
    BY <2>1, Zenon DEF ColumnName, ColumnType, ColumnLength, Constraint, ConstraintWord, CreatePlaces
  <2>2. CASE InsertColumns \/ InsertValue \/ InsertNext
    BY <2>2, Zenon DEF InsertColumns, InsertValue, InsertNext, InsertPlaces
  <2> QED BY <2>1, <2>2
<1> QED BY <1>1 DEF ParserInv, Shape, KindOK, Unfiltered

\* Whatever the step, a filter is on its way, read, or nothing comes of the
\* statement.
LEMMA StepOnTheWay ==
  ASSUME ParserInv, FilterInv, Next, NEW k \in 1 .. Len(text.tokens) - 3, EndsWithFilter(k)
  PROVE  OnTheWay(k, at', pos', stmt')
<1>1. CASE stmt.type \in Unfiltered
  <2>1. at \notin {"start", "show"}
    BY <1>1 DEF ParserInv, Shape, KindOK, SelectPlaces, Unfiltered
  <2> QED BY <1>1, <2>1, TableStays DEF OnTheWay, NothingComes
<1>2. CASE stmt.type \notin Unfiltered
  <2>1. Coming(k)
    BY <1>2, IsComing
  <2>2. CASE Begin \/ Show
    BY <2>1, <2>2, BeginOnTheWay
  <2>3. CASE Expect \/ EndOfText
    BY <2>1, <2>3, ExpectOnTheWay
  <2>4. CASE TableName
    BY <2>1, <2>4, TableNameOnTheWay
  <2>5. CASE Finish
    BY <2>1, <2>5, FinishOnTheWay
  <2>6. CASE WhereOrEnd \/ WhereColumn \/ WhereOperator \/ WhereValue
    BY <2>1, <2>6, WhereOnTheWay
  <2>7. CASE \/ ColumnName \/ ColumnType \/ ColumnLength \/ Constraint \/ ConstraintWord
             \/ InsertColumns \/ InsertValue \/ InsertNext
    BY <1>2, <2>7, ListsUnfiltered
  <2>8. CASE SelectStar \/ SelectColumns \/ FromAfterStar
    BY <2>1, <2>8, SelectOnTheWay
  <2>9. CASE JoinOrWhere \/ JoinName
    BY <2>1, <2>9, JoinOnTheWay
  <2>10. CASE SetColumn \/ SetValue \/ SetNext
    BY <2>1, <2>10, SetOnTheWay
  <2>11. CASE Execute
    BY <2>1, <2>11, ExecuteOnTheWay
  <2> QED BY <2>2, <2>3, <2>4, <2>5, <2>6, <2>7, <2>8, <2>9, <2>10, <2>11, Zenon DEF Next
<1> QED BY <1>1, <1>2

\* Only an equals sign leads to a value of SET.
LEMMA StepPreceded ==
  ASSUME ParserInv, Next
  PROVE  Preceded(at', pos')
<1> SUFFICES ASSUME at' = "set_value" PROVE pos' > 1 /\ text.tokens[pos' - 1] = "="
  BY DEF Preceded
<1>1. pos \in Nat /\ pos >= 1
  BY LenProperties DEF ParserInv, TypeOK
<1> USE DEF Take, Peek, Go
<1>2. Expect
  <2>1. ~Begin /\ ~Show /\ ~EndOfText
    BY Zenon DEF Begin, Show, EndOfText
  <2>2. ~TableName
    <3>1. ASSUME TableName PROVE AfterName[stmt.type] # "set_value"
      <4>1. stmt.type \in Commands
        BY <3>1, Zenon DEF ParserInv, Shape, KindOK, TableName
      <4> QED BY <4>1 DEF Commands, AfterName
    <3> QED BY <3>1, Zenon DEF TableName
  <2>3. ~WhereOrEnd /\ ~WhereColumn /\ ~WhereOperator /\ ~WhereValue
    BY Zenon DEF WhereOrEnd, WhereColumn, WhereOperator, WhereValue
  <2>4. ~ColumnName /\ ~ColumnType /\ ~ColumnLength /\ ~Constraint /\ ~ConstraintWord
    BY Zenon DEF ColumnName, ColumnType, ColumnLength, Constraint, ConstraintWord
  <2>5. ~SelectStar /\ ~SelectColumns /\ ~FromAfterStar /\ ~JoinOrWhere
    BY Zenon DEF SelectStar, SelectColumns, FromAfterStar, JoinOrWhere
  <2>6. ~JoinName
    BY DEF JoinName
  <2>7. ~InsertColumns /\ ~InsertValue /\ ~InsertNext
    BY Zenon DEF InsertColumns, InsertValue, InsertNext
  <2>8. ~SetColumn /\ ~SetValue /\ ~SetNext
    BY Zenon DEF SetColumn, SetValue, SetNext
  <2>9. ~Finish /\ ~Execute
    BY Zenon DEF Finish, Execute
  <2> QED BY <2>1, <2>2, <2>3, <2>4, <2>5, <2>6, <2>7, <2>8, <2>9, Zenon DEF Next
<1>3. /\ at \in DOMAIN Expected /\ Expected[at][2] = "set_value"
      /\ Tok = Expected[at][1] /\ pos' = pos + 1
  BY <1>2, Zenon DEF Expect
<1>4. at = "set_equals"
  BY <1>3 DEF Expected
<1>5. Tok = "="
  BY <1>3, <1>4, ExpectedTokens, Zenon
<1>6. Tok = text.tokens[pos]
  BY <1>5, Zenon DEF Tok, NULL
<1>7. pos' > 1 /\ pos' - 1 = pos
  BY <1>1, <1>3
<1> QED BY <1>5, <1>6, <1>7

\* Before FROM a statement has no table.
LEMMA StepUnnamed ==
  ASSUME ParserInv, FilterInv, Next
  PROVE  Unnamed(at', stmt')
<1> DEFINE Before == {"start", "show", "select_first", "select_columns", "from"}
<1> SUFFICES ASSUME at' \in Before PROVE stmt'.table = ""
  BY DEF Unnamed
<1>1. StatementOK(stmt)
  BY DEF ParserInv, TypeOK, StatementOK
<1> USE DEF Take, Peek, Go
<1>2. CASE Begin
  <2>1. stmt' = stmt /\ stmt.table = ""
    <3>1. at = "start" /\ stmt' = stmt
      BY <1>2, Zenon DEF Begin
    <3> QED BY <3>1, Zenon DEF FilterInv, Unnamed
  <2> QED BY <2>1
<1>3. CASE SelectStar \/ SelectColumns \/ FromAfterStar
  <2>1. at \in {"select_first", "select_columns", "from"}
    BY <1>3, Zenon DEF SelectStar, SelectColumns, FromAfterStar
  <2>2. stmt.table = ""
    BY <2>1, Zenon DEF FilterInv, Unnamed
  <2>3. at \notin {"start", "show"} /\ ~TableName
    BY <2>1, Zenon DEF TableName
  <2> QED BY <2>2, <2>3, TableStays
<1>4. Begin \/ SelectStar \/ SelectColumns \/ FromAfterStar
  <2>1. ~Show /\ ~EndOfText
    BY Zenon DEF Show, EndOfText
  <2>2. ~TableName
    <3>1. ASSUME TableName PROVE AfterName[stmt.type] \notin Before
      <4>1. stmt.type \in Commands
        BY <3>1, Zenon DEF ParserInv, Shape, KindOK, TableName
      <4> QED BY <4>1 DEF Commands, AfterName
    <3> QED BY <3>1, Zenon DEF TableName
  <2>3. ~WhereOrEnd /\ ~WhereColumn /\ ~WhereOperator /\ ~WhereValue
    BY Zenon DEF WhereOrEnd, WhereColumn, WhereOperator, WhereValue
  <2>4. ~ColumnName /\ ~ColumnType /\ ~ColumnLength /\ ~Constraint /\ ~ConstraintWord
    BY Zenon DEF ColumnName, ColumnType, ColumnLength, Constraint, ConstraintWord
  <2>5. ~Expect
    <3>1. \A place \in DOMAIN Expected : Expected[place][2] \notin Before
      BY DEF Expected
    <3> QED BY <3>1, Zenon DEF Expect
  <2>6. ~JoinName
    BY DEF JoinName
  <2>7. ~InsertColumns /\ ~InsertValue /\ ~InsertNext
    BY Zenon DEF InsertColumns, InsertValue, InsertNext
  <2>8. ~SetColumn /\ ~SetValue /\ ~SetNext
    BY Zenon DEF SetColumn, SetValue, SetNext
  <2>9. ~Finish /\ ~Execute /\ ~JoinOrWhere
    BY Zenon DEF Finish, Execute, JoinOrWhere
  <2> QED BY <2>1, <2>2, <2>3, <2>4, <2>5, <2>6, <2>7, <2>8, <2>9, Zenon DEF Next
<1> QED BY <1>2, <1>3, <1>4

\* The text is read, never written.
LEMMA TextStays ==
  ASSUME Next
  PROVE  text' = text
<1> USE DEF Take, Peek, Go
<1>1. CASE Begin \/ Show \/ Expect \/ EndOfText \/ TableName \/ Finish \/ Execute
  BY <1>1, Zenon DEF Begin, Show, Expect, EndOfText, TableName, Finish, Execute
<1>2. CASE WhereOrEnd \/ WhereColumn \/ WhereOperator \/ WhereValue
  BY <1>2, Zenon DEF WhereOrEnd, WhereColumn, WhereOperator, WhereValue
<1>3. CASE ColumnName \/ ColumnType \/ ColumnLength \/ Constraint \/ ConstraintWord
  BY <1>3, Zenon DEF ColumnName, ColumnType, ColumnLength, Constraint, ConstraintWord
<1>4. CASE SelectStar \/ SelectColumns \/ FromAfterStar \/ JoinOrWhere \/ JoinName
  BY <1>4, Zenon DEF SelectStar, SelectColumns, FromAfterStar, JoinOrWhere, JoinName
<1>5. CASE InsertColumns \/ InsertValue \/ InsertNext \/ SetColumn \/ SetValue \/ SetNext
  BY <1>5, Zenon DEF InsertColumns, InsertValue, InsertNext, SetColumn, SetValue, SetNext
<1> QED BY <1>1, <1>2, <1>3, <1>4, <1>5, Zenon DEF Next

\* Where a filter begins is a matter of the text.
LEMMA FilterOfText ==
  ASSUME text' = text, Preceded(at', pos'), Unnamed(at', stmt'),
         \A k \in 1 .. Len(text.tokens) - 3 : EndsWithFilter(k) => OnTheWay(k, at', pos', stmt')
  PROVE  FilterInv'
<1>1. Preceded(at, pos)'
  BY DEF Preceded
<1>2. Unnamed(at, stmt)'
  BY DEF Unnamed
<1>3. ASSUME NEW k \in 1 .. Len(text.tokens) - 3, EndsWithFilter(k)'
      PROVE  OnTheWay(k, at, pos, stmt)'
  <2>1. EndsWithFilter(k)
    BY <1>3, Zenon DEF EndsWithFilter
  <2>2. OnTheWay(k, at', pos', stmt')
    BY <2>1
  <2> QED BY <2>2 DEF OnTheWay, NothingComes, Astray, FilterRead
<1>4. Len(text.tokens)' = Len(text.tokens)
  OBVIOUS
<1> QED BY <1>1, <1>2, <1>3, <1>4, Zenon DEF FilterInv

LEMMA StepKeepsFilter ==
  ASSUME ParserInv, FilterInv, [Next]_vars
  PROVE  FilterInv'
<1>1. CASE UNCHANGED vars
  <2>1. text' = text /\ pos' = pos /\ at' = at /\ stmt' = stmt
    BY <1>1, Zenon DEF vars
  <2>2. Preceded(at', pos') /\ Unnamed(at', stmt')
    BY <2>1, Zenon DEF FilterInv
  <2>3. ASSUME NEW k \in 1 .. Len(text.tokens) - 3, EndsWithFilter(k)
        PROVE  OnTheWay(k, at', pos', stmt')
    <3>1. OnTheWay(k, at, pos, stmt)
      BY <2>3, Zenon DEF FilterInv
    <3> QED BY <2>1, <3>1
  <2> QED BY <2>1, <2>2, <2>3, FilterOfText
<1>2. CASE Next
  <2>1. \A k \in 1 .. Len(text.tokens) - 3 : EndsWithFilter(k) => OnTheWay(k, at', pos', stmt')
    BY <1>2, StepOnTheWay
  <2> QED BY <1>2, <2>1, TextStays, StepPreceded, StepUnnamed, FilterOfText
<1> QED BY <1>1, <1>2

\* What is executed with a filter has the filter of its statement.
LEMMA FilterOfEffect ==
  ASSUME StatementOK(stmt), NEW front, EffectOn(front).kind \in {"select", "delete", "update"}
  PROVE  /\ Known /\ EffectOn(front).filter = Filter /\ EffectOn(front).table = stmt.table
         /\ ~stmt.has_error /\ stmt.type \notin Unfiltered
<1>1. NoEffect.kind = "none"
  BY DEF NoEffect
<1>2. EffectOn(front) # NoEffect
  BY <1>1
<1>3. /\ ~stmt.has_error /\ EffectOn(front).table = stmt.table
      /\ stmt.type \in {"SELECT", "DELETE", "UPDATE"}
  BY <1>2, EffectCases
<1>4. Known
  BY <1>2, <1>3 DEF EffectOn
<1>5. \E kind : EffectOn(front) = Effect(kind, Filter)
  BY <1>2, <1>3 DEF EffectOn
<1>6. \A kind : Effect(kind, Filter).filter = Filter
  BY DEF Effect
<1> QED BY <1>3, <1>4, <1>5, <1>6 DEF Unfiltered

-----------------------------------------------------------------------------
(* The theorems.                                                           *)

\* parse_sql and execution: the invariant holds in every state.
THEOREM ParserInvariant == Spec => []ParserInv
<1>1. Init => ParserInv
  <2> SUFFICES ASSUME Init
               PROVE  ParserInv
    OBVIOUS
  <2>1. StatementOK(stmt) /\ Shape(at, stmt, parse_success)
    BY BlankIs DEF Init
  <2>2. text \in [tokens : Seq(Vocabulary), open : BOOLEAN]
    <3>1. text \in Texts /\ text.open \in BOOLEAN /\ text.tokens \in Seq(STRING \ {NULL})
          /\ text = [tokens |-> text.tokens, open |-> text.open]
      BY ParserAssumption DEF Init
    <3>2. ToSet(text.tokens) \subseteq Vocabulary
      BY <3>1 DEF Vocabulary
    <3>3. text.tokens \in Seq(Vocabulary)
      <4>1. \A i \in 1 .. Len(text.tokens) : text.tokens[i] \in Vocabulary
        BY <3>1, <3>2, InSequence
      <4> QED BY <3>1, <4>1, LenProperties, IsASeq
    <3> QED BY <3>1, <3>3
  <2>3. pos \in 1 .. Len(text.tokens) + 1
    BY <2>2, LenProperties DEF Init
  <2>4. effect \in Effects
    <3>1. "" \in Names /\ <<>> \in Seq([column : Names, value : Int])
      BY EmptySeq DEF Names
    <3> QED BY <3>1 DEF Init, NoEffect, Effects
  <2>5. at = "start" /\ at \in Places /\ parse_success \in BOOLEAN
    BY DEF Init, Places, SelectPlaces
  <2>6. TypeOK
    BY <2>1, <2>2, <2>3, <2>4, <2>5 DEF TypeOK, StatementOK
  <2>7. ReadInv /\ EffectInv
    BY DEF Init, ReadInv, EffectInv
  <2> QED BY <2>1, <2>6, <2>7 DEF ParserInv
<1>2. ParserInv /\ [Next]_vars => ParserInv'
  BY StepKeeps
<1> QED BY <1>1, <1>2, PTL DEF Spec

\* No index passes the end of an array of SQLStatement, and no count what was
\* stored (parser.c:133, 301, 432, 610).
THEOREM ParserTypeCorrect == Spec => []TypeOK
<1>1. ParserInv => TypeOK
  BY DEF ParserInv
<1> QED BY <1>1, ParserInvariant, PTL

\* An executed statement that was not parsed, and is no error, changes no row
\* but in the two cases that HalfParsedChangesNoRow names (repl.c:309).
THEOREM HalfParsedIsHarmless == Spec => []HalfParsedChangesNoRow
<1>1. ParserInv => HalfParsedChangesNoRow
  <2> SUFFICES ASSUME ParserInv, at = "ran", ~parse_success, ~stmt.has_error
               PROVE  \/ effect.kind \in {"none", "select", "create"}
                      \/ effect.kind = "update" /\ stmt.has_where /\ stmt.where_value = <<>>
                      \/ effect.kind = "insert" /\ Schemas[effect.table] = <<>>
    BY DEF HalfParsedChangesNoRow
  <2>1. PICK front \in FrontEnds : effect = EffectOn(front)
    BY DEF ParserInv, EffectInv
  <2>2. /\ StatementOK(stmt) /\ stmt.value_count = 0 /\ stmt.where_value = <<>>
        /\ stmt.set_count # 0 => stmt.has_where
        /\ stmt.type # "SHOW TABLES"
    BY DEF ParserInv, TypeOK, StatementOK, Shape, KindOK, CountOK, Finished
  <2>3. stmt.set_count > 0 => stmt.has_where
    <3>1. stmt.set_count \in Nat
      BY <2>2 DEF StatementOK, Statements
    <3>2. \A n \in Nat : n > 0 => n # 0
      OBVIOUS
    <3> QED BY <2>2, <3>1, <3>2, Zenon
  <2>4. NoEffect.kind = "none"
    BY DEF NoEffect
  <2>5. Known /\ stmt.value_count = Len(Schemas[stmt.table]) => Schemas[stmt.table] = <<>>
    BY <2>2, ParserAssumption, EmptySeq DEF Known
  <2>6. CASE effect = NoEffect
    BY <2>4, <2>6
  <2>7. CASE effect # NoEffect
    BY <2>1, <2>2, <2>3, <2>5, <2>7, EffectCases
  <2> QED BY <2>6, <2>7
<1> QED BY <1>1, ParserInvariant, PTL

\* A text whose statement changes rows was read to its end (parser.c:83).
THEOREM ChangesReadEverything == Spec => []NothingLeftUnread
<1>1. ParserInv => NothingLeftUnread
  <2> SUFFICES ASSUME ParserInv, effect.kind \in {"insert", "delete", "update"}
               PROVE  Tok = NULL
    BY DEF NothingLeftUnread
  <2>1. NoEffect.kind = "none"
    BY DEF NoEffect
  <2>2. at = "ran" /\ \E front \in FrontEnds : effect = EffectOn(front)
    BY <2>1 DEF ParserInv, EffectInv
  <2>3. PICK front \in FrontEnds : effect = EffectOn(front)
    BY <2>2
  <2>4. StatementOK(stmt)
    BY DEF ParserInv, TypeOK, StatementOK
  <2>5. ~stmt.has_error /\ stmt.type \in {"INSERT", "DELETE", "UPDATE"}
    BY <2>1, <2>3, <2>4, EffectCases
  <2> QED BY <2>2, <2>5 DEF ParserInv, ReadInv
<1> QED BY <1>1, ParserInvariant, PTL

\* An UPDATE that is executed found its SET list at the end of the array, or
\* WHERE twice in a row, or the end of the text at WHERE, and then no filter is
\* left (parser.c:408, 498-524).
UpdatesStopAtWhere ==
  effect.kind = "update" =>
    \/ stmt.set_count = MaxColumns
    \/ SaysWhereTwice
    \/ EndsAtWhere /\ effect.filter = <<>>

\* No UPDATE of fewer columns than the array holds is executed with its filter,
\* as README.md:48 has it, for WHERE is consumed twice: the finding of run
\* update_refused, for every text.
THEOREM UpdatesNeedWhereTwice == Spec => []UpdatesStopAtWhere
<1>1. Init => SetWhereInv
  <2>1. BlankStatement.has_where = FALSE /\ BlankStatement.set_count = 0
    BY DEF BlankStatement
  <2> QED BY <2>1, Zenon DEF Init, SetWhereInv
<1>2. ParserInv /\ SetWhereInv /\ [Next]_vars => SetWhereInv'
  BY StepKeepsWhere
<1>3. ParserInv /\ SetWhereInv => UpdatesStopAtWhere
  <2> SUFFICES ASSUME ParserInv, SetWhereInv, effect.kind = "update",
                      stmt.set_count # MaxColumns, ~SaysWhereTwice
               PROVE  EndsAtWhere /\ effect.filter = <<>>
    BY DEF UpdatesStopAtWhere
  <2>1. effect # NoEffect
    <3>1. NoEffect.kind = "none"
      BY DEF NoEffect
    <3> QED BY <3>1
  <2>2. at = "ran" /\ \E front \in FrontEnds : effect = EffectOn(front)
    BY <2>1 DEF ParserInv, EffectInv
  <2>3. PICK front \in FrontEnds : effect = EffectOn(front)
    BY <2>2
  <2>4. StatementOK(stmt) /\ stmt.set_count \in Nat
    <3>1. StatementOK(stmt)
      BY DEF ParserInv, TypeOK, StatementOK
    <3> QED BY <3>1, Zenon DEF StatementOK, Statements
  <2>5. ~stmt.has_error /\ stmt.type = "UPDATE" /\ stmt.set_count > 0
    <3>1. EffectOn(front).kind = "update" /\ EffectOn(front) # NoEffect
      BY <2>1, <2>3
    <3> QED BY <2>4, <3>1, EffectCases, Zenon
  <2>6. stmt.set_count \notin {0, MaxColumns}
    BY <2>4, <2>5
  <2>7. EndsAtWhere /\ stmt.where_value = <<>>
    BY <2>2, <2>5, <2>6 DEF SetWhereInv
  <2>8. Filter = <<>>
    BY <2>7, Zenon DEF Filter
  <2>9. EffectOn(front).filter = <<>>
    BY <2>8 DEF EffectOn, Effect, NoEffect
  <2> QED BY <2>3, <2>7, <2>9
<1> QED BY <1>1, <1>2, <1>3, ParserInvariant, PTL DEF Spec

\* No statement whose text ends with a filter is executed without it
\* (executor.c:143-162, 560-582, 671-690).
THEOREM FiltersAreApplied == Spec => []NoFilterDropped
<1>1. ASSUME Init PROVE FilterInv
  <2>1. at = "start" /\ pos = 1 /\ stmt.table = ""
    BY <1>1, Zenon DEF Init, BlankStatement
  <2>2. \A k \in 1 .. Len(text.tokens) - 3 : pos <= k
    <3> DEFINE n == Len(text.tokens)
    <3>1. text.tokens \in Seq(STRING \ {NULL})
      BY <1>1, ParserAssumption DEF Init
    <3>2. n \in Nat
      BY <3>1, LenProperties
    <3> HIDE DEF n
    <3>3. \A k \in 1 .. n - 3 : 1 <= k
      BY <3>2
    <3> QED BY <2>1, <3>3 DEF n
  <2> QED BY <2>1, <2>2 DEF FilterInv, Preceded, Unnamed, OnTheWay
<1>2. ParserInv /\ FilterInv /\ [Next]_vars => FilterInv'
  BY StepKeepsFilter
<1>3. ParserInv /\ FilterInv => NoFilterDropped
  <2> SUFFICES ASSUME ParserInv, FilterInv, at = "ran", effect.kind \in {"select", "delete", "update"},
                      NEW k \in 1 .. Len(text.tokens) - 3, EndsWithFilter(k),
                      ComparesWith(effect.table, AsColumn(text.tokens[k + 1]))
               PROVE  effect.filter = <<[column |-> AsColumn(text.tokens[k + 1]), value |-> Atoi(text.tokens[k + 3])]>>
    BY Zenon DEF NoFilterDropped
  <2>1. PICK front \in FrontEnds : effect = EffectOn(front)
    BY DEF ParserInv, EffectInv
  <2>2. StatementOK(stmt)
    BY DEF ParserInv, TypeOK, StatementOK
  <2>3. /\ Known /\ effect.filter = Filter /\ effect.table = stmt.table
        /\ ~stmt.has_error /\ stmt.type \notin Unfiltered
    <3>1. EffectOn(front).kind \in {"select", "delete", "update"}
      BY <2>1
    <3> QED BY <2>1, <2>2, <3>1, FilterOfEffect
  <2>4. stmt.table # ""
    BY <2>3, NamedAssumption DEF Known
  <2>5. OnTheWay(k, at, pos, stmt)
    BY Zenon DEF FilterInv
  <2>6. stmt.where_column = AsColumn(text.tokens[k + 1]) /\ stmt.where_value = <<Atoi(text.tokens[k + 3])>>
    BY <2>3, <2>4, <2>5 DEF OnTheWay, NothingComes, Astray, FilterRead
  <2> DEFINE value == Atoi(text.tokens[k + 3])
  <2>7. <<value>> # <<>> /\ <<value>>[1] = value
    OBVIOUS
  <2> HIDE DEF value
  <2>8. Filter = <<[column |-> AsColumn(text.tokens[k + 1]), value |-> value]>>
    BY <2>3, <2>6, <2>7, Zenon DEF Filter, value
  <2> QED BY <2>3, <2>8 DEF value
<1> QED BY <1>1, <1>2, <1>3, ParserInvariant, PTL DEF Spec

-----------------------------------------------------------------------------
(* Statements that are written as HELP and the README say (module          *)
(* WrittenStatements): the proof follows the text token by token.  A       *)
(* script lists where the parser can be in such a text, what is left of    *)
(* the text there, and what the statement is by then.                      *)

\* The tokens that statements are written with: any string, and the grammar's
\* words by name, for the provers do not know that a literal is a string.
Spelt ==
  STRING \cup JoinWords \cup Operators \cup
  {"(", ")", ",", ";", "*", "SELECT", "FROM", "WHERE", "JOIN", "ON", "INSERT", "INTO", "VALUES", "DELETE",
   "CREATE", "TABLE", "SHOW", "TABLES", "PRIMARY", "KEY", "NOT", "NULL", "UNIQUE",
   "INT", "FLOAT", "STRING", "BOOL", "UPDATE", "SET", "DROP"}

\* The words of the language are among them.
LEMMA SpeltWords ==
  /\ AnyToken \subseteq Spelt /\ JoinWords \subseteq Spelt /\ Operators \subseteq Spelt
  /\ "(" \in Spelt /\ ")" \in Spelt /\ "," \in Spelt /\ ";" \in Spelt /\ "*" \in Spelt /\ "=" \in Spelt
  /\ "SELECT" \in Spelt /\ "FROM" \in Spelt /\ "WHERE" \in Spelt /\ "JOIN" \in Spelt /\ "ON" \in Spelt
  /\ "INSERT" \in Spelt /\ "INTO" \in Spelt /\ "VALUES" \in Spelt /\ "DELETE" \in Spelt
  /\ "CREATE" \in Spelt /\ "TABLE" \in Spelt /\ "SHOW" \in Spelt /\ "TABLES" \in Spelt
  /\ "PRIMARY" \in Spelt /\ "KEY" \in Spelt /\ "NOT" \in Spelt /\ "NULL" \in Spelt /\ "UNIQUE" \in Spelt
  /\ "INT" \in Spelt /\ "FLOAT" \in Spelt /\ "STRING" \in Spelt /\ "BOOL" \in Spelt
  /\ "UPDATE" \in Spelt /\ "SET" \in Spelt /\ "DROP" \in Spelt
BY Zenon DEF Spelt, AnyToken, Operators

\* A token before a text.
LEMMA TokenFirst ==
  ASSUME NEW S, NEW a \in S, NEW r \in Seq(S)
  PROVE  /\ <<a>> \o r \in Seq(S) /\ Len(<<a>> \o r) = Len(r) + 1 /\ (<<a>> \o r)[1] = a
         /\ Len(r) \in Nat /\ <<a>> \in Seq(S)
<1>1. Len(r) \in Nat
  BY LenProperties
<1> QED BY <1>1, PrependShifts

\* A text whose first tokens are said one by one.
LEMMA TwoFirst ==
  ASSUME NEW S, NEW r \in Seq(S), NEW a \in S, NEW b \in S
  PROVE  <<a, b>> \o r = <<a>> \o (<<b>> \o r)
<1> DEFINE t == <<a>> \o <<b>>
<1>1. t = <<a, b>>
  <2>1. t \in Seq(S) /\ Len(t) = 2 /\ t[1] = a /\ t[2] = b
    OBVIOUS
  <2> HIDE DEF t
  <2>2. t = <<t[1], t[2]>>
    BY <2>1
  <2> QED BY <2>1, <2>2, Zenon
<1>2. <<a>> \in Seq(S) /\ <<b>> \in Seq(S)
  OBVIOUS
<1>3. (<<a>> \o <<b>>) \o r = <<a>> \o (<<b>> \o r)
  BY <1>2, ConcatAssociative, SMTT(60)
<1> QED BY <1>1, <1>3, Zenon DEF t

\* Three of them.
LEMMA ThreeFirst ==
  ASSUME NEW S, NEW r \in Seq(S), NEW a \in S, NEW b \in S, NEW c \in S
  PROVE  <<a, b, c>> \o r = <<a>> \o (<<b>> \o (<<c>> \o r))
<1>1. <<a, b, c>> = (<<a>> \o <<b>>) \o <<c>>
  <2>1. a \in S /\ b \in S /\ c \in S
    OBVIOUS
  <2> QED BY <2>1, OneByOne
<1>2. <<a>> \in Seq(S) /\ <<b>> \in Seq(S) /\ <<c>> \in Seq(S) /\ <<a>> \o <<b>> \in Seq(S)
  OBVIOUS
<1>3. ((<<a>> \o <<b>>) \o <<c>>) \o r = (<<a>> \o <<b>>) \o (<<c>> \o r)
  BY <1>2, ConcatAssociative, SMTT(60)
<1>4. <<c>> \o r \in Seq(S)
  BY TokenFirst
<1>5. (<<a>> \o <<b>>) \o (<<c>> \o r) = <<a>> \o (<<b>> \o (<<c>> \o r))
  BY <1>2, <1>4, ConcatAssociative, SMTT(60)
<1> QED BY <1>1, <1>3, <1>5, Zenon

\* What is still to be read, and where the parser is with it.
Rest == SubSeq(text.tokens, pos, Len(text.tokens))
Now == <<at, Rest, stmt, parse_success>>
Reading(place, r, s) == <<place, r, s, FALSE>>

\* The next token is the first of the rest.
LEMMA TokenAhead ==
  ASSUME TypeOK, NEW a \in Spelt, NEW r \in Seq(Spelt), Rest = <<a>> \o r
  PROVE  /\ Tok = a /\ pos \in 1 .. Len(text.tokens) /\ Len(text.tokens) \in Nat
         /\ SubSeq(text.tokens, pos + 1, Len(text.tokens)) = r
         /\ Len(text.tokens) = pos + Len(r)
<1> DEFINE n == Len(text.tokens)
           x == text.tokens
           S == Spelt \cup Vocabulary
           y == SubSeq(x, pos + 1, n)
<1>1. x \in Seq(S) /\ n \in Nat /\ pos \in 1 .. n + 1
  <2>1. x \in Seq(Vocabulary) /\ pos \in 1 .. n + 1
    BY DEF TypeOK
  <2> QED BY <2>1, LenProperties, SeqMonotonic
<1>2. a \in S /\ r \in Seq(S) /\ Len(r) \in Nat
  BY SeqMonotonic, LenProperties
<1>3. pos \in 1 .. n
  <2>1. Len(<<a>> \o r) = Len(r) + 1
    BY <1>2, TokenFirst
  <2>2. n < pos => Rest = <<>>
    BY <1>1, SubSeqEmpty DEF Rest
  <2>3. Len(<<>>) = 0
    OBVIOUS
  <2> QED BY <1>1, <1>2, <2>1, <2>2, <2>3
<1>4. Rest = <<x[pos]>> \o y
  <2>1. n \in pos .. n
    BY <1>1, <1>3
  <2> QED BY <1>1, <1>3, <2>1, SubSeqRecursiveFirst DEF Rest
<1>5. y \in Seq(S) /\ x[pos] \in S
  <2>1. \A i \in pos + 1 .. n : x[i] \in S
    BY <1>1, <1>3, ElementOfSeq
  <2> QED BY <1>1, <1>3, <2>1, SubSeqProperties, ElementOfSeq
<1> HIDE DEF x, y, n, S
<1>6. x[pos] = a /\ Len(y) = Len(r)
  BY <1>2, <1>4, <1>5, TokenFirst
<1>7. y = r
  <2>1. \A i \in 1 .. Len(r) : y[i] = (<<x[pos]>> \o y)[i + 1] /\ r[i] = (<<a>> \o r)[i + 1]
    BY <1>2, <1>5, <1>6, PrependShifts
  <2> QED BY <1>2, <1>4, <1>5, <1>6, <2>1, SeqEqual
<1>8. Tok = a
  BY <1>3, <1>6 DEF Tok, x, n
<1>9. n = pos + Len(r)
  <2>1. Len(Rest) = n - pos + 1
    <3>1. \A i \in pos .. n : x[i] \in S
      <4>1. \A i \in pos .. n : i \in 1 .. Len(x)
        BY <1>1, <1>3 DEF n, x
      <4> QED BY <1>1, <4>1, ElementOfSeq
    <3>2. pos \in Int /\ n \in Int /\ pos <= n
      BY <1>1, <1>3
    <3>3. Len(SubSeq(x, pos, n)) = IF pos <= n THEN n - pos + 1 ELSE 0
      BY <3>1, <3>2, SubSeqProperties
    <3> QED BY <3>2, <3>3 DEF Rest, x, n
  <2>2. Len(Rest) = Len(r) + 1
    BY <1>2, TokenFirst
  <2>3. \A i, j, k \in Int : j - i + 1 = k + 1 => j = i + k
    OBVIOUS
  <2>4. pos \in Int /\ n \in Int /\ Len(r) \in Int
    BY <1>1, <1>2
  <2> QED BY <2>1, <2>2, <2>3, <2>4
<1> QED BY <1>1, <1>3, <1>7, <1>8, <1>9 DEF x, y, n

\* A token is taken, or only looked at.
LEMMA Taking ==
  ASSUME TypeOK, NEW q, NEW a \in Spelt, NEW r \in Seq(Spelt), NEW s, Now = Reading(q, <<a>> \o r, s)
  PROVE  /\ at = q /\ Tok = a /\ stmt = s /\ ~parse_success
         /\ \A q2, s2 : Take(q2, s2) => Now' = Reading(q2, r, s2)
         /\ \A q2, s2 : Peek(q2, s2) => Now' = Reading(q2, <<a>> \o r, s2)
<1>1. at = q /\ Rest = <<a>> \o r /\ stmt = s /\ parse_success = FALSE
  BY DEF Now, Reading
<1>2. Tok = a /\ SubSeq(text.tokens, pos + 1, Len(text.tokens)) = r /\ pos \in Nat
  BY <1>1, TokenAhead
<1>3. ASSUME NEW q2, NEW s2, Take(q2, s2)
      PROVE  Now' = Reading(q2, r, s2)
  BY <1>1, <1>2, <1>3 DEF Take, Go, Now, Rest, Reading
<1>4. ASSUME NEW q2, NEW s2, Peek(q2, s2)
      PROVE  Now' = Reading(q2, <<a>> \o r, s2)
  BY <1>1, <1>2, <1>4 DEF Peek, Go, Now, Rest, Reading
<1> QED BY <1>1, <1>2, <1>3, <1>4

\* What can be done is said by the place.
LEMMA ByPlace ==
  ASSUME Next
  PROVE  /\ EndOfText => Tok = NULL
         /\ Tok # NULL =>
              /\ at = "start" => Begin
              /\ at = "show" => Show
              /\ at \in DOMAIN Expected => Expect
              /\ at = "name" => TableName
              /\ at = "select_first" => SelectStar \/ SelectColumns
              /\ at = "select_columns" => SelectColumns
              /\ at = "from" => FromAfterStar
              /\ at = "join_or_where" => JoinOrWhere
              /\ at \in {"join_table", "join_left", "join_right"} => JoinName
              /\ at = "where_or_end" => WhereOrEnd
              /\ at = "where_column" => WhereColumn
              /\ at = "where_operator" => WhereOperator
              /\ at = "where_value" => WhereValue
              /\ at \in {"insert_columns", "skip"} => InsertColumns
              /\ at = "value" => InsertValue
              /\ at = "value_next" => InsertNext
              /\ at = "set_column" => SetColumn
              /\ at = "set_value" => SetValue
              /\ at = "set_next" => SetNext
              /\ at = "column" => ColumnName
              /\ at = "type" => ColumnType
              /\ at \in {"length", "length_number"} => ColumnLength
              /\ at = "constraint" => Constraint
              /\ at \in {"primary_key", "not_null"} => ConstraintWord
         /\ at = "end" => Finish
         /\ at = "done" => Execute
         /\ at # "ran"
<1>0. DOMAIN Expected = {"create", "insert", "delete", "columns", "length_end", "values", "values_open",
                         "set", "set_equals", "join", "join_on", "join_equals"}
  BY DEF Expected
<1>1. EndOfText => Tok = NULL /\ at \notin {"end", "done", "ran"}
  BY Zenon DEF EndOfText, Peeks
<1>2. /\ Begin => at = "start"
      /\ Show => at = "show"
      /\ Expect => at \in DOMAIN Expected
      /\ TableName => at = "name"
      /\ Finish => at = "end"
      /\ Execute => at = "done"
  BY Zenon DEF Begin, Show, Expect, TableName, Finish, Execute
<1>3. /\ WhereOrEnd => at = "where_or_end"
      /\ WhereColumn => at = "where_column"
      /\ WhereOperator => at = "where_operator"
      /\ WhereValue => at = "where_value"
  BY Zenon DEF WhereOrEnd, WhereColumn, WhereOperator, WhereValue
<1>4. /\ ColumnName => at = "column"
      /\ ColumnType => at = "type"
      /\ ColumnLength => at \in {"length", "length_number"}
      /\ Constraint => at = "constraint"
      /\ ConstraintWord => at \in {"primary_key", "not_null"}
  BY Zenon DEF ColumnName, ColumnType, ColumnLength, Constraint, ConstraintWord
<1>5. /\ SelectStar => at = "select_first"
      /\ SelectColumns => at \in {"select_first", "select_columns"}
      /\ FromAfterStar => at = "from"
      /\ JoinOrWhere => at = "join_or_where"
      /\ JoinName => at \in {"join_table", "join_left", "join_right"}
  BY Zenon DEF SelectStar, SelectColumns, FromAfterStar, JoinOrWhere, JoinName
<1>6. /\ InsertColumns => at \in {"insert_columns", "skip"}
      /\ InsertValue => at = "value"
      /\ InsertNext => at = "value_next"
      /\ SetColumn => at = "set_column"
      /\ SetValue => at = "set_value"
      /\ SetNext => at = "set_next"
  BY Zenon DEF InsertColumns, InsertValue, InsertNext, SetColumn, SetValue, SetNext
<1>7. \/ Begin \/ Show \/ Expect \/ EndOfText \/ TableName \/ Finish
      \/ WhereOrEnd \/ WhereColumn \/ WhereOperator \/ WhereValue
      \/ ColumnName \/ ColumnType \/ ColumnLength \/ Constraint \/ ConstraintWord
      \/ SelectStar \/ SelectColumns \/ FromAfterStar \/ JoinOrWhere \/ JoinName
      \/ InsertColumns \/ InsertValue \/ InsertNext
      \/ SetColumn \/ SetValue \/ SetNext
      \/ Execute
  BY Zenon DEF Next
<1> QED BY <1>0, <1>1, <1>2, <1>3, <1>4, <1>5, <1>6, <1>7

\* No word of the grammar is the pointer NULL.
LEMMA NoNull ==
  /\ \A t \in AnyToken : t # NULL
  /\ NULL \notin {"(", ")", ",", ";", "*", "SELECT", "FROM", "WHERE", "JOIN", "ON", "INSERT", "INTO", "VALUES", "DELETE",
                  "CREATE", "TABLE", "SHOW", "TABLES", "PRIMARY", "KEY", "NOT", "NULL", "UNIQUE",
                  "INT", "FLOAT", "STRING", "BOOL", "=", "INNER", "LEFT", "RIGHT", "FULL", "UPDATE", "SET", "DROP"}
  /\ NULL \notin Operators /\ NULL \notin JoinWords
BY Zenon DEF AnyToken, NULL, Operators, JoinWords

\* The semicolon.
LEMMA EndIs ==
  /\ End \in Seq(Spelt) /\ Len(End) = 1 /\ <<>> \in Seq(Spelt)
  /\ End = <<";">> \o <<>> /\ ";" \in Spelt
<1> DEFINE semicolon == ";"
<1>1. semicolon \in Spelt /\ End = <<semicolon>>
  BY SpeltWords, Zenon DEF End
<1> HIDE DEF semicolon
<1>2. End \in Seq(Spelt) /\ Len(End) = 1 /\ <<>> \in Seq(Spelt)
  BY <1>1
<1>3. End = End \o <<>>
  BY <1>2, ConcatEmptySeq
<1> QED BY <1>1, <1>2, <1>3, Zenon DEF semicolon

\* The filter and the semicolon, token by token.
FilterText(w) == Clause(w) \o End

\* A filter's text, token by token.
LEMMA FilterTextIs ==
  ASSUME NEW w \in Filters
  PROVE  /\ FilterText(w) \in Seq(Spelt)
         /\ w = <<>> => FilterText(w) = End
         /\ w # <<>> =>
              /\ w[1] \in AnyToken /\ w[1] # "WHERE" /\ w[2] \in Operators /\ w[3] \in AnyToken
              /\ w[1] \in Spelt /\ w[2] \in Spelt /\ w[3] \in Spelt
              /\ <<w[3]>> \o End \in Seq(Spelt)
              /\ <<w[2]>> \o (<<w[3]>> \o End) \in Seq(Spelt)
              /\ <<w[1]>> \o (<<w[2]>> \o (<<w[3]>> \o End)) \in Seq(Spelt)
              /\ FilterText(w) = <<"WHERE">> \o (<<w[1]>> \o (<<w[2]>> \o (<<w[3]>> \o End)))
<1>1. CASE w = <<>>
  <2>1. FilterText(w) = <<>> \o End
    BY <1>1, Zenon DEF FilterText, Clause
  <2> QED BY <1>1, <2>1, EndIs, ConcatEmptySeq
<1>2. CASE w # <<>>
  <2>1. w \in AnyToken \X Operators \X AnyToken /\ w[1] # "WHERE"
    <3> DEFINE A == AnyToken \ {"WHERE"}
               O == Operators
               B == AnyToken
    <3>1. w \in A \X O \X B /\ A \subseteq B /\ \A a \in A : a # "WHERE"
      BY <1>2, WrittenAssumption, Zenon
    <3> HIDE DEF A, O, B
    <3>2. w \in B \X O \X B /\ w[1] \in A
      BY <3>1
    <3> QED BY <3>1, <3>2, Zenon DEF O, B
  <2>2. /\ w = <<w[1], w[2], w[3]>>
        /\ w[1] \in AnyToken /\ w[2] \in Operators /\ w[3] \in AnyToken
    BY <2>1
  <2>3. w[1] \in Spelt /\ w[2] \in Spelt /\ w[3] \in Spelt
    BY <2>2, SpeltWords, Zenon
  <2> DEFINE where == "WHERE"
             a == w[1]
             b == w[2]
             c == w[3]
  <2>4. where \in Spelt
    BY SpeltWords, Zenon
  <2>5. Clause(w) = <<where>> \o <<a, b, c>>
    BY <1>2, <2>2, Zenon DEF Clause
  <2>6. a \in Spelt /\ b \in Spelt /\ c \in Spelt
    BY <2>3
  <2> HIDE DEF where, a, b, c
  <2>7. <<a, b, c>> \in Seq(Spelt) /\ <<where>> \in Seq(Spelt) /\ End \in Seq(Spelt)
    <3>1. <<a, b, c>> \in Seq(Spelt) /\ <<where>> \in Seq(Spelt)
      BY <2>4, <2>6
    <3> QED BY <3>1, EndIs, Zenon
  <2>8. (<<where>> \o <<a, b, c>>) \o End = <<where>> \o (<<a, b, c>> \o End)
    BY <2>7, ConcatAssociative, SMTT(60)
  <2>9. <<a, b, c>> \o End = <<a>> \o (<<b>> \o (<<c>> \o End))
    BY <2>6, <2>7, ThreeFirst, SMTT(60)
  <2>10. /\ <<c>> \o End \in Seq(Spelt)
         /\ <<b>> \o (<<c>> \o End) \in Seq(Spelt)
         /\ <<a>> \o (<<b>> \o (<<c>> \o End)) \in Seq(Spelt)
         /\ <<where>> \o (<<a>> \o (<<b>> \o (<<c>> \o End))) \in Seq(Spelt)
    BY <2>4, <2>6, <2>7, TokenFirst
  <2>11. FilterText(w) = <<where>> \o (<<a>> \o (<<b>> \o (<<c>> \o End)))
    BY <2>5, <2>8, <2>9, Zenon DEF FilterText
  <2> QED BY <1>2, <2>1, <2>2, <2>3, <2>10, <2>11, Zenon DEF where, a, b, c
<1> QED BY <1>1, <1>2

-----------------------------------------------------------------------------
(* The end of a statement, and the filter before it.                       *)

\* expect_token finds what it looks for.
LEMMA ExpectTaken ==
  ASSUME TypeOK, Next, NEW q, NEW a \in Spelt, NEW q2, NEW r \in Seq(Spelt), NEW s,
         Expected[q] = <<a, q2>>, q \in DOMAIN Expected, a # NULL,
         Now = Reading(q, <<a>> \o r, s)
  PROVE  Now' = Reading(q2, r, s)
<1>0. a \in Spelt /\ r \in Seq(Spelt)
  OBVIOUS
<1>1. at = q /\ Tok = a /\ stmt = s /\ \A q3, s3 : Take(q3, s3) => Now' = Reading(q3, r, s3)
  BY <1>0, Taking
<1>2. Expect
  BY <1>1, ByPlace, Zenon
<1>3. Expected[q][1] = a /\ Expected[q][2] = q2
  OBVIOUS
<1>4. Take(q2, s)
  BY <1>1, <1>2, <1>3, Zenon DEF Expect
<1> QED BY <1>1, <1>4

\* The name of a table.
LEMMA NameTaken ==
  ASSUME TypeOK, Next, NEW t \in AnyToken, NEW r \in Seq(Spelt), NEW s,
         Now = Reading("name", <<t>> \o r, s)
  PROVE  Now' = Reading(AfterName[s.type], r, [s EXCEPT !.table = AsTable(t)])
<1>0. t \in Spelt /\ r \in Seq(Spelt) /\ t # NULL
  BY SpeltWords, NoNull, Zenon
<1>1. at = "name" /\ Tok = t /\ stmt = s /\ \A q3, s3 : Take(q3, s3) => Now' = Reading(q3, r, s3)
  BY <1>0, Taking
<1>2. TableName
  BY <1>0, <1>1, ByPlace, Zenon
<1>3. Take(AfterName[s.type], [s EXCEPT !.table = AsTable(t)])
  BY <1>1, <1>2, Zenon DEF TableName
<1> QED BY <1>1, <1>3

\* The end of a statement, and what it should be.
EndScript(s, now) ==
  \/ now = Reading("end", End, s)
  \/ now = <<"done", <<>>, s, TRUE>>
  \/ now = <<"ran", <<>>, s, TRUE>>

\* Once there, it stays as it should be.
LEMMA EndStep ==
  ASSUME TypeOK, Next, NEW s, EndScript(s, Now)
  PROVE  EndScript(s, Now')
<1>1. CASE Now = Reading("end", End, s)
  <2>1. at = "end" /\ Rest = End /\ stmt = s
    BY <1>1 DEF Now, Reading
  <2>2. Finish
    BY <2>1, ByPlace, Zenon
  <2>3. /\ Tok = ";" /\ pos \in 1 .. Len(text.tokens) /\ Len(text.tokens) \in Nat
        /\ SubSeq(text.tokens, pos + 1, Len(text.tokens)) = <<>>
        /\ Len(text.tokens) = pos + Len(<<>>)
    BY <2>1, EndIs, TokenAhead, Zenon
  <2> DEFINE semicolon == ";"
             rest == IF Tok = semicolon THEN pos + 1 ELSE pos
             extra == rest <= Len(text.tokens)
  <2>4. /\ pos' = IF extra THEN rest + 1 ELSE rest
        /\ stmt' = IF extra THEN Error ELSE stmt
        /\ at' = "done" /\ parse_success' = TRUE /\ text' = text
    BY <2>2, Zenon DEF Finish
  <2>5. Tok = semicolon
    BY <2>3, Zenon
  <2> HIDE DEF semicolon
  <2>6. rest = pos + 1
    BY <2>5
  <2>7. Len(text.tokens) = pos
    <3>1. Len(<<>>) = 0
      OBVIOUS
    <3>2. /\ pos \in 1 .. Len(text.tokens) /\ Len(text.tokens) \in Nat
          /\ Len(text.tokens) = pos + Len(<<>>)
      BY <2>3, Zenon
    <3> QED BY <3>1, <3>2
  <2>8. pos \in Nat
    BY <2>3, <2>7, Zenon
  <2> HIDE DEF rest
  <2>9. ~extra
    BY <2>6, <2>7, <2>8
  <2>10. pos' = pos + 1 /\ stmt' = s
    BY <2>1, <2>4, <2>6, <2>9, Zenon
  <2>11. SubSeq(text.tokens, pos + 1, Len(text.tokens)) = <<>>
    BY <2>3, Zenon
  <2>12. Rest' = <<>>
    BY <2>4, <2>10, <2>11 DEF Rest
  <2> HIDE DEF extra
  <2>13. Now' = <<"done", <<>>, s, TRUE>>
    BY <2>4, <2>10, <2>12, Zenon DEF Now
  <2> QED BY <2>13 DEF EndScript
<1>2. CASE Now = <<"done", <<>>, s, TRUE>>
  <2>1. at = "done" /\ Rest = <<>> /\ stmt = s /\ parse_success = TRUE
    BY <1>2 DEF Now
  <2>2. Execute
    BY <2>1, ByPlace, Zenon
  <2>3. at' = "ran" /\ pos' = pos /\ text' = text /\ stmt' = stmt /\ parse_success' = parse_success
    BY <2>2, Zenon DEF Execute
  <2>4. Now' = <<"ran", <<>>, s, TRUE>>
    BY <2>1, <2>3 DEF Now, Rest
  <2> QED BY <2>4 DEF EndScript
<1>3. CASE Now = <<"ran", <<>>, s, TRUE>>
  <2>1. at = "ran"
    BY <1>3 DEF Now
  <2> QED BY <2>1, ByPlace, Zenon
<1> QED BY <1>1, <1>2, <1>3, Zenon DEF EndScript

\* A filter, or none, and the end.
FilterScript(w, s, now) ==
  \/ now = Reading("where_or_end", FilterText(w), s)
  \/ /\ w # <<>>
     /\ \/ now = Reading("where_column", <<w[1]>> \o (<<w[2]>> \o (<<w[3]>> \o End)), [s EXCEPT !.has_where = TRUE])
        \/ now = Reading("where_operator", <<w[2]>> \o (<<w[3]>> \o End),
                         [s EXCEPT !.has_where = TRUE, !.where_column = AsColumn(w[1])])
        \/ now = Reading("where_value", <<w[3]>> \o End,
                         [s EXCEPT !.has_where = TRUE, !.where_column = AsColumn(w[1]), !.where_operator = w[2]])
  \/ EndScript(Filtered(w, s), now)

\* parse_where and what follows it.
LEMMA FilterStep ==
  ASSUME TypeOK, Next, NEW w \in Filters, NEW s, FilterScript(w, s, Now)
  PROVE  FilterScript(w, s, Now')
<1> DEFINE r3 == <<w[3]>> \o End
           r2 == <<w[2]>> \o r3
           r1 == <<w[1]>> \o r2
           s1 == [s EXCEPT !.has_where = TRUE]
           s2 == [s EXCEPT !.has_where = TRUE, !.where_column = AsColumn(w[1])]
           s3 == [s EXCEPT !.has_where = TRUE, !.where_column = AsColumn(w[1]), !.where_operator = w[2]]
<1>1. s2 = [s1 EXCEPT !.where_column = AsColumn(w[1])] /\ s3 = [s2 EXCEPT !.where_operator = w[2]]
  OBVIOUS
<1>2. /\ w # <<>> => Filtered(w, s) = [s3 EXCEPT !.where_value = <<Atoi(w[3])>>]
      /\ w = <<>> => Filtered(w, s) = s
  BY DEF Filtered
<1>3. w # <<>> =>
        /\ w[1] \in Spelt /\ w[2] \in Spelt /\ w[3] \in Spelt /\ w[2] \in Operators
        /\ w[1] # NULL /\ w[2] # NULL /\ w[3] # NULL
        /\ r1 \in Seq(Spelt) /\ r2 \in Seq(Spelt) /\ r3 \in Seq(Spelt)
        /\ FilterText(w) = <<"WHERE">> \o r1
  BY FilterTextIs, NoNull, Zenon
<1>4. FilterScript(w, s, Now') <=>
        \/ Now' = Reading("where_or_end", FilterText(w), s)
        \/ w # <<>> /\ (Now' = Reading("where_column", r1, s1) \/ Now' = Reading("where_operator", r2, s2)
                        \/ Now' = Reading("where_value", r3, s3))
        \/ EndScript(Filtered(w, s), Now')
  BY Zenon DEF FilterScript
<1>5. \/ Now = Reading("where_or_end", FilterText(w), s)
      \/ w # <<>> /\ Now = Reading("where_column", r1, s1)
      \/ w # <<>> /\ Now = Reading("where_operator", r2, s2)
      \/ w # <<>> /\ Now = Reading("where_value", r3, s3)
      \/ EndScript(Filtered(w, s), Now)
  BY Zenon DEF FilterScript
<1> HIDE DEF s1, s2, s3
<1>6. CASE w = <<>> /\ Now = Reading("where_or_end", FilterText(w), s)
  <2>1. Now = Reading("where_or_end", <<";">> \o <<>>, s) /\ ";" \in Spelt /\ <<>> \in Seq(Spelt)
    BY <1>6, FilterTextIs, EndIs, Zenon
  <2>2. /\ at = "where_or_end" /\ Tok = ";" /\ stmt = s
        /\ \A q3, s3a : Peek(q3, s3a) => Now' = Reading(q3, <<";">> \o <<>>, s3a)
    BY <2>1, Taking, Zenon
  <2>3. Tok # NULL /\ Tok # "WHERE"
    BY <2>2, NoNull, Zenon
  <2>4. WhereOrEnd
    BY <2>2, <2>3, ByPlace, Zenon
  <2>5. Peek("end", s)
    BY <2>2, <2>3, <2>4, Zenon DEF WhereOrEnd
  <2>6. Now' = Reading("end", End, s)
    BY <2>2, <2>5, EndIs, Zenon
  <2> QED BY <1>2, <1>4, <1>6, <2>6, Zenon DEF EndScript
<1>7. CASE w # <<>> /\ Now = Reading("where_or_end", FilterText(w), s)
  <2>1. Now = Reading("where_or_end", <<"WHERE">> \o r1, s) /\ "WHERE" \in Spelt /\ r1 \in Seq(Spelt)
    BY <1>3, <1>7, SpeltWords, Zenon
  <2> HIDE DEF r1
  <2>2. /\ at = "where_or_end" /\ Tok = "WHERE" /\ stmt = s
        /\ \A q3, s3a : Take(q3, s3a) => Now' = Reading(q3, r1, s3a)
    BY <2>1, Taking
  <2>3. WhereOrEnd
    BY <2>2, NoNull, ByPlace, Zenon
  <2>4. Take("where_column", s1)
    BY <2>2, <2>3, Zenon DEF WhereOrEnd, s1
  <2> QED BY <1>4, <1>7, <2>2, <2>4, Zenon
<1>8. CASE w # <<>> /\ Now = Reading("where_column", r1, s1)
  <2>1. w[1] \in Spelt /\ r2 \in Seq(Spelt) /\ Now = Reading("where_column", <<w[1]>> \o r2, s1)
    BY <1>3, <1>8, Zenon
  <2> HIDE DEF r2
  <2>2. /\ at = "where_column" /\ Tok = w[1] /\ stmt = s1
        /\ \A q3, s3a : Take(q3, s3a) => Now' = Reading(q3, r2, s3a)
    BY <2>1, Taking
  <2>3. WhereColumn
    BY <1>3, <1>8, <2>2, ByPlace, Zenon
  <2>4. Take("where_operator", s2)
    BY <1>1, <2>2, <2>3, Zenon DEF WhereColumn
  <2> QED BY <1>4, <1>8, <2>2, <2>4, Zenon
<1>9. CASE w # <<>> /\ Now = Reading("where_operator", r2, s2)
  <2>1. w[2] \in Spelt /\ r3 \in Seq(Spelt) /\ Now = Reading("where_operator", <<w[2]>> \o r3, s2)
    BY <1>3, <1>9, Zenon
  <2> HIDE DEF r3
  <2>2. /\ at = "where_operator" /\ Tok = w[2] /\ stmt = s2
        /\ \A q3, s3a : Take(q3, s3a) => Now' = Reading(q3, r3, s3a)
    BY <2>1, Taking
  <2>3. WhereOperator
    BY <1>3, <1>9, <2>2, ByPlace, Zenon
  <2>4. Operator(w[2]) = w[2]
    BY <1>3, <1>9, Zenon DEF Operator
  <2>5. Take("where_value", s3)
    BY <1>1, <2>2, <2>3, <2>4, Zenon DEF WhereOperator
  <2> QED BY <1>4, <1>9, <2>2, <2>5, Zenon
<1>10. CASE w # <<>> /\ Now = Reading("where_value", r3, s3)
  <2>1. w[3] \in Spelt /\ End \in Seq(Spelt) /\ Now = Reading("where_value", <<w[3]>> \o End, s3)
    BY <1>3, <1>10, EndIs, Zenon
  <2>2. /\ at = "where_value" /\ Tok = w[3] /\ stmt = s3
        /\ \A q3, s3a : Take(q3, s3a) => Now' = Reading(q3, End, s3a)
    BY <2>1, Taking
  <2>3. WhereValue
    BY <1>3, <1>10, <2>2, ByPlace, Zenon
  <2>4. Take("end", Filtered(w, s))
    BY <1>2, <1>10, <2>2, <2>3, Zenon DEF WhereValue
  <2> QED BY <1>4, <2>2, <2>4, Zenon DEF EndScript
<1>11. CASE EndScript(Filtered(w, s), Now)
  BY <1>4, <1>11, EndStep, Zenon
<1> QED BY <1>5, <1>6, <1>7, <1>8, <1>9, <1>10, <1>11, Zenon

-----------------------------------------------------------------------------
(* Lists: what is left of one after its first items.                       *)

\* What is left of a list of texts when i of them have been read.
Left(y, i) == FlattenSeq(SubSeq(y, i + 1, Len(y)))

\* It is one item shorter with each item read.
LEMMA LeftIs ==
  ASSUME NEW S, NEW y \in Seq(Seq(S))
  PROVE  /\ Len(y) \in Nat
         /\ \A i \in 0 .. Len(y) : Left(y, i) \in Seq(S)
         /\ FlattenSeq(y) = Left(y, 0)
         /\ Left(y, Len(y)) = <<>>
         /\ \A i \in 0 .. Len(y) - 1 : y[i + 1] \in Seq(S) /\ Left(y, i) = y[i + 1] \o Left(y, i + 1)
<1> DEFINE n == Len(y)
<1>1. n \in Nat /\ \A i \in 1 .. n : y[i] \in Seq(S)
  BY LenProperties, ElementOfSeq
<1>2. \A i \in 0 .. n : SubSeq(y, i + 1, n) \in Seq(Seq(S))
  BY <1>1, SubSeqProperties
<1>3. \A i \in 0 .. n : Left(y, i) \in Seq(S)
  <2>1. \A i \in 0 .. n : FlattenSeq(SubSeq(y, i + 1, n)) \in Seq(S)
    BY <1>2, FlattenAppend, EmptySeq
  <2> QED BY <2>1 DEF Left
<1>4. FlattenSeq(y) = Left(y, 0)
  <2>1. SubSeq(y, 1, n) = y /\ 0 + 1 = 1
    BY SubSeqFull
  <2> QED BY <2>1 DEF Left
<1>5. Left(y, n) = <<>>
  <2>1. SubSeq(y, n + 1, n) = <<>>
    BY <1>1, SubSeqEmpty
  <2> QED BY <2>1, FlattenNothing DEF Left
<1>6. \A i \in 0 .. n - 1 : y[i + 1] \in Seq(S) /\ Left(y, i) = y[i + 1] \o Left(y, i + 1)
  <2> SUFFICES ASSUME NEW i \in 0 .. n - 1
               PROVE  y[i + 1] \in Seq(S) /\ Left(y, i) = y[i + 1] \o Left(y, i + 1)
    OBVIOUS
  <2> DEFINE z == SubSeq(y, i + 2, n)
             e == y[i + 1]
  <2>1. i + 1 \in 1 .. n /\ i \in 0 .. n /\ i + 1 \in 0 .. n /\ (i + 1) + 1 = i + 2
    BY <1>1
  <2>2. SubSeq(y, i + 1, n) = <<e>> \o z
    <3>1. SubSeq(y, i + 1, n) = <<y[i + 1]>> \o SubSeq(y, (i + 1) + 1, n)
      <4>1. n \in (i + 1) .. n /\ i + 1 \in 1 .. Len(y) /\ n \in (i + 1) .. Len(y)
        BY <1>1, <2>1
      <4> QED BY <4>1, SubSeqRecursiveFirst
    <3> QED BY <2>1, <3>1
  <2>3. z \in Seq(Seq(S)) /\ Left(y, i + 1) = FlattenSeq(z) /\ Left(y, i) = FlattenSeq(<<e>> \o z) /\ e \in Seq(S)
    BY <1>1, <1>2, <2>1, <2>2 DEF Left
  <2> HIDE DEF z, e
  <2>4. <<e>> \in Seq(Seq(S)) /\ <<>> \in Seq(Seq(S)) /\ Append(<<>>, e) = <<e>>
    BY <2>3
  <2>5. FlattenSeq(<<e>> \o z) = FlattenSeq(<<e>>) \o FlattenSeq(z)
    BY <2>3, <2>4, FlattenConcat
  <2>6. FlattenSeq(<<e>>) = <<>> \o e
    BY <2>3, <2>4, FlattenAppend, FlattenNothing
  <2>7. FlattenSeq(<<e>>) = e
    BY <2>3, <2>6, ConcatEmptySeq
  <2> QED BY <2>3, <2>5, <2>7 DEF e
<1> QED BY <1>1, <1>3, <1>4, <1>5, <1>6

\* The same with commas between the items.
More(x, i) == Left(WithCommas(x), i)

\* The comma is a token.
LEMMA CommaIs == "," \in Spelt /\ <<",">> \in Seq(Spelt) /\ "," # NULL
<1> DEFINE comma == ","
<1>1. comma \in Spelt /\ comma # NULL
  BY SpeltWords, NoNull, Zenon
<1> HIDE DEF comma
<1>2. <<comma>> \in Seq(Spelt)
  BY <1>1
<1> QED BY <1>1, <1>2, Zenon DEF comma

\* What is left of a list begins with a comma and the next item.
LEMMA MoreIs ==
  ASSUME NEW x \in Seq(Seq(Spelt))
  PROVE  /\ Len(x) \in Nat
         /\ \A i \in 0 .. Len(x) : More(x, i) \in Seq(Spelt)
         /\ Commas(x) = More(x, 0)
         /\ More(x, Len(x)) = <<>>
         /\ x # <<>> => x[1] \in Seq(Spelt) /\ More(x, 0) = x[1] \o More(x, 1)
         /\ \A i \in 1 .. Len(x) - 1 :
              /\ x[i + 1] \in Seq(Spelt)
              /\ More(x, i) = <<",">> \o (x[i + 1] \o More(x, i + 1))
<1> DEFINE comma == ","
           n == Len(x)
           y == WithCommas(x)
<1>1. n \in Nat /\ DOMAIN x = 1 .. n /\ \A i \in 1 .. n : x[i] \in Seq(Spelt)
  BY LenProperties, ElementOfSeq
<1>2. <<comma>> \in Seq(Spelt)
  BY CommaIs, Zenon
<1>3. y = [i \in 1 .. n |-> IF i = 1 THEN x[i] ELSE <<comma>> \o x[i]]
  BY <1>1, Zenon DEF WithCommas
<1> HIDE DEF comma, n, y
<1>4. \A i \in 1 .. n : <<comma>> \o x[i] \in Seq(Spelt)
  BY <1>1, <1>2, ConcatProperties
<1>5. \A i \in 1 .. n : y[i] = (IF i = 1 THEN x[i] ELSE <<comma>> \o x[i]) /\ y[i] \in Seq(Spelt)
  BY <1>1, <1>3, <1>4
<1>6. y \in [1 .. n -> Seq(Spelt)]
  BY <1>3, <1>5
<1>7. y \in Seq(Seq(Spelt)) /\ Len(y) = n
  BY <1>1, <1>6, LenProperties
<1>8. /\ \A i \in 0 .. n : Left(y, i) \in Seq(Spelt)
      /\ FlattenSeq(y) = Left(y, 0) /\ Left(y, n) = <<>>
      /\ \A i \in 0 .. n - 1 : Left(y, i) = y[i + 1] \o Left(y, i + 1)
  <2>1. /\ \A i \in 0 .. Len(y) : Left(y, i) \in Seq(Spelt)
        /\ FlattenSeq(y) = Left(y, 0) /\ Left(y, Len(y)) = <<>>
        /\ \A i \in 0 .. Len(y) - 1 : Left(y, i) = y[i + 1] \o Left(y, i + 1)
    BY <1>7, LeftIs, Zenon
  <2> QED BY <1>7, <2>1
<1>9. \A i \in 0 .. n : More(x, i) \in Seq(Spelt)
  BY <1>8, Zenon DEF More, y
<1>11. Commas(x) = More(x, 0)
  BY <1>8, Zenon DEF Commas, More, y
<1>12. More(x, n) = <<>>
  BY <1>8, Zenon DEF More, y
<1>13. \A i \in 0 .. n - 1 : More(x, i) = y[i + 1] \o More(x, i + 1)
  BY <1>8, Zenon DEF More, y
<1>14. x # <<>> => x[1] \in Seq(Spelt) /\ More(x, 0) = x[1] \o More(x, 1)
  <2> SUFFICES ASSUME x # <<>> PROVE x[1] \in Seq(Spelt) /\ More(x, 0) = x[1] \o More(x, 1)
    OBVIOUS
  <2>1. n # 0
    BY EmptySeq DEF n
  <2>2. 1 \in 1 .. n /\ 0 \in 0 .. n - 1 /\ 0 + 1 = 1
    BY <1>1, <2>1
  <2> QED BY <1>1, <1>5, <1>13, <2>2
<1>15. \A i \in 1 .. n - 1 : x[i + 1] \in Seq(Spelt) /\ More(x, i) = <<comma>> \o (x[i + 1] \o More(x, i + 1))
  <2> SUFFICES ASSUME NEW i \in 1 .. n - 1
               PROVE  x[i + 1] \in Seq(Spelt) /\ More(x, i) = <<comma>> \o (x[i + 1] \o More(x, i + 1))
    OBVIOUS
  <2>1. i \in 0 .. n - 1 /\ i + 1 \in 1 .. n /\ i + 1 # 1 /\ i + 1 \in 0 .. n
    BY <1>1
  <2> DEFINE a == x[i + 1]
             b == More(x, i + 1)
  <2>2. a \in Seq(Spelt) /\ b \in Seq(Spelt) /\ More(x, i) = (<<comma>> \o a) \o b
    BY <1>1, <1>5, <1>9, <1>13, <2>1
  <2> HIDE DEF a, b
  <2>3. (<<comma>> \o a) \o b = <<comma>> \o (a \o b)
    BY <1>2, <2>2, ConcatAssociative, SMTT(60)
  <2> QED BY <2>2, <2>3 DEF a, b
<1>16. \A i \in 1 .. n - 1 : x[i + 1] \in Seq(Spelt) /\ More(x, i) = <<",">> \o (x[i + 1] \o More(x, i + 1))
  BY <1>15, Zenon DEF comma
<1> QED BY <1>1, <1>9, <1>11, <1>12, <1>14, <1>16, Zenon DEF n

\* A list of single tokens.
LEMMA ListedIs ==
  ASSUME NEW T, T \subseteq Spelt, NEW x \in Seq(T)
  PROVE  /\ Listed(x) \in Seq(Seq(Spelt)) /\ Len(Listed(x)) = Len(x) /\ Len(x) \in Nat
         /\ \A i \in 1 .. Len(x) : Listed(x)[i] = <<x[i]>> /\ x[i] \in T /\ x[i] \in Spelt
         /\ x # <<>> => Listed(x) # <<>> /\ 1 \in 1 .. Len(x)
<1>1. Len(x) \in Nat /\ DOMAIN x = 1 .. Len(x) /\ \A i \in 1 .. Len(x) : x[i] \in T /\ x[i] \in Spelt
  BY LenProperties, ElementOfSeq
<1>2. \A i \in 1 .. Len(x) : <<x[i]>> \in Seq(Spelt)
  <2>1. \A a \in Spelt : <<a>> \in Seq(Spelt)
    OBVIOUS
  <2> QED BY <1>1, <2>1
<1>3. Listed(x) = [i \in 1 .. Len(x) |-> <<x[i]>>]
  BY <1>1 DEF Listed
<1>4. Listed(x) \in [1 .. Len(x) -> Seq(Spelt)]
  BY <1>2, <1>3
<1>5. Listed(x) \in Seq(Seq(Spelt)) /\ Len(Listed(x)) = Len(x)
  BY <1>1, <1>4, LenProperties
<1>6. x # <<>> => Len(x) # 0
  BY EmptySeq
<1>7. x # <<>> => Listed(x) # <<>>
  BY <1>5, <1>6, EmptySeq
<1> QED BY <1>1, <1>3, <1>5, <1>6, <1>7

-----------------------------------------------------------------------------
(* SELECT: the join, and the list before it.                               *)

\* A text is the same however its parts are put together.
LEMMA SixParts ==
  ASSUME NEW S, NEW p
  PROVE  p \in [1 .. 6 -> Seq(S)] =>
           p[1] \o p[2] \o p[3] \o p[4] \o p[5] \o p[6]
           = p[1] \o (p[2] \o (p[3] \o (p[4] \o (p[5] \o p[6]))))
<1>a. SUFFICES ASSUME p \in [1 .. 6 -> Seq(S)]
               PROVE  p[1] \o p[2] \o p[3] \o p[4] \o p[5] \o p[6]
                      = p[1] \o (p[2] \o (p[3] \o (p[4] \o (p[5] \o p[6]))))
  OBVIOUS
<1> DEFINE a == p[1]
           b == p[2]
           c == p[3]
           d == p[4]
           e == p[5]
           f == p[6]
           x == a \o b
           y == x \o c
           z == y \o d
           r == e \o f
           q == d \o r
           h == c \o q
<1>0. /\ a \in Seq(S) /\ b \in Seq(S) /\ c \in Seq(S)
      /\ d \in Seq(S) /\ e \in Seq(S) /\ f \in Seq(S)
  BY <1>a
<1> HIDE DEF a, b, c, d, e, f
<1>1. x \in Seq(S) /\ r \in Seq(S)
  BY <1>0, ConcatProperties
<1> HIDE DEF x, r
<1>2. y \in Seq(S) /\ q \in Seq(S)
  BY <1>0, <1>1, ConcatProperties
<1> HIDE DEF y, q
<1>3. z \in Seq(S) /\ h \in Seq(S)
  BY <1>0, <1>2, ConcatProperties
<1> HIDE DEF z, h
<1>4. (z \o e) \o f = z \o (e \o f)
  <2>1. z \in Seq(S) /\ e \in Seq(S) /\ f \in Seq(S)
    BY <1>0, <1>3
  <2> QED BY <2>1, ConcatAssociative, SMTT(60)
<1>5. (y \o d) \o r = y \o (d \o r)
  <2>1. y \in Seq(S) /\ d \in Seq(S) /\ r \in Seq(S)
    BY <1>0, <1>1, <1>2
  <2> QED BY <2>1, ConcatAssociative, SMTT(60)
<1>6. (x \o c) \o q = x \o (c \o q)
  <2>1. x \in Seq(S) /\ c \in Seq(S) /\ q \in Seq(S)
    BY <1>0, <1>1, <1>2
  <2> QED BY <2>1, ConcatAssociative, SMTT(60)
<1>7. (a \o b) \o h = a \o (b \o h)
  <2>1. a \in Seq(S) /\ b \in Seq(S) /\ h \in Seq(S)
    BY <1>0, <1>3
  <2> QED BY <2>1, ConcatAssociative, SMTT(60)
<1>8. a \o b \o c \o d \o e \o f = a \o (b \o (c \o (d \o (e \o f))))
  BY <1>4, <1>5, <1>6, <1>7 DEF x, y, z, r, q, h
<1> QED BY <1>8 DEF a, b, c, d, e, f

\* What follows the name of the table in a SELECT, token by token.
FromRightOn(j, w) == <<j[4]>> \o FilterText(w)
FromLeftOn(j, w) == <<j[3]>> \o (<<"=">> \o FromRightOn(j, w))
FromJoinOn(j, w) == <<"JOIN">> \o (<<j[2]>> \o (<<"ON">> \o FromLeftOn(j, w)))
JoinRest(j, w) == JoinText(j) \o FilterText(w)

\* It is the filter when there is no join, and begins with the join when there is one.
LEMMA JoinRestIs ==
  ASSUME NEW j \in JoinClauses, NEW w \in Filters
  PROVE  /\ JoinRest(j, w) \in Seq(Spelt) /\ FilterText(w) \in Seq(Spelt)
         /\ j = <<>> => JoinRest(j, w) = FilterText(w)
         /\ j # <<>> =>
              /\ j[1] \in JoinWords \cup {"JOIN"} /\ j[1] \in Spelt
              /\ j[2] \in AnyToken /\ j[3] \in AnyToken /\ j[4] \in AnyToken
              /\ j[2] \in Spelt /\ j[3] \in Spelt /\ j[4] \in Spelt
              /\ FromRightOn(j, w) \in Seq(Spelt)
              /\ <<"=">> \o FromRightOn(j, w) \in Seq(Spelt)
              /\ FromLeftOn(j, w) \in Seq(Spelt)
              /\ <<"ON">> \o FromLeftOn(j, w) \in Seq(Spelt)
              /\ <<j[2]>> \o (<<"ON">> \o FromLeftOn(j, w)) \in Seq(Spelt)
              /\ FromJoinOn(j, w) \in Seq(Spelt)
              /\ JoinRest(j, w) = IF j[1] = "JOIN" THEN FromJoinOn(j, w) ELSE <<j[1]>> \o FromJoinOn(j, w)
<1> DEFINE f == FilterText(w)
<1>0. f \in Seq(Spelt)
  BY FilterTextIs
<1>1. CASE j = <<>>
  <2>1. JoinRest(j, w) = <<>> \o f
    BY <1>1, Zenon DEF JoinRest, JoinText
  <2> HIDE DEF f
  <2>2. JoinRest(j, w) = f
    BY <1>0, <2>1, ConcatEmptySeq
  <2> QED BY <1>0, <1>1, <2>2 DEF f
<1>2. CASE j # <<>>
  <2>1. j \in (JoinWords \cup {"JOIN"}) \X AnyToken \X AnyToken \X AnyToken
    BY <1>2, WrittenAssumption, Zenon
  <2>2. /\ j[1] \in JoinWords \cup {"JOIN"}
        /\ j[2] \in AnyToken /\ j[3] \in AnyToken /\ j[4] \in AnyToken
    BY <2>1
  <2>3. j[1] \in Spelt /\ j[2] \in Spelt /\ j[3] \in Spelt /\ j[4] \in Spelt
    BY <2>2, SpeltWords, Zenon
  <2> DEFINE join == "JOIN"
             on == "ON"
             equals == "="
             a == j[1]
             b == j[2]
             c == j[3]
             d == j[4]
             t == <<b, on, c, equals, d>>
             r == <<b>> \o (<<on>> \o (<<c>> \o (<<equals>> \o (<<d>> \o f))))
  <2>4. join \in Spelt /\ on \in Spelt /\ equals \in Spelt
    BY SpeltWords, Zenon
  <2>5. a \in Spelt /\ b \in Spelt /\ c \in Spelt /\ d \in Spelt
    BY <2>3
  <2>6. JoinRest(j, w) = ((IF a = join THEN <<join>> ELSE <<a, join>>) \o t) \o f
    BY <1>2, Zenon DEF JoinRest, JoinText
  <2>7. FromRightOn(j, w) = <<d>> \o f /\ FromLeftOn(j, w) = <<c>> \o (<<equals>> \o (<<d>> \o f))
        /\ FromJoinOn(j, w) = <<join>> \o r
    BY Zenon DEF FromRightOn, FromLeftOn, FromJoinOn
  <2> HIDE DEF f, join, on, equals, a, b, c, d
  <2>8. t \in Seq(Spelt) /\ <<b, on, c, equals>> \in Seq(Spelt) /\ t = Append(<<b, on, c, equals>>, d)
    BY <2>4, <2>5
  <2>9. t = <<b, on, c, equals>> \o <<d>> /\ <<d>> \in Seq(Spelt)
    BY <2>5, <2>8, AppendIsConcat
  <2>10. /\ <<d>> \o f \in Seq(Spelt)
         /\ <<equals>> \o (<<d>> \o f) \in Seq(Spelt)
         /\ <<c>> \o (<<equals>> \o (<<d>> \o f)) \in Seq(Spelt)
         /\ <<on>> \o (<<c>> \o (<<equals>> \o (<<d>> \o f))) \in Seq(Spelt)
         /\ r \in Seq(Spelt)
         /\ <<join>> \o r \in Seq(Spelt) /\ <<a>> \o (<<join>> \o r) \in Seq(Spelt)
    BY <1>0, <2>4, <2>5, TokenFirst
  <2>11. t \o f = r
    <3> DEFINE q == <<d>> \o f
               p == <<b, on, c, equals>>
    <3>1. q \in Seq(Spelt)
      BY <2>10
    <3>2. (p \o <<d>>) \o f = p \o q
      BY <1>0, <2>8, <2>9, ConcatAssociative, SMTT(60)
    <3> HIDE DEF q
    <3>3. p = <<b, on, c>> \o <<equals>> /\ <<b, on, c>> \in Seq(Spelt) /\ <<equals>> \in Seq(Spelt)
      <4>1. <<b, on, c>> \in Seq(Spelt) /\ p = Append(<<b, on, c>>, equals)
        BY <2>4, <2>5
      <4> QED BY <2>4, <4>1, AppendIsConcat
    <3>4. (<<b, on, c>> \o <<equals>>) \o q = <<b, on, c>> \o (<<equals>> \o q)
      BY <3>1, <3>3, ConcatAssociative, SMTT(60)
    <3>5. <<b, on, c>> \o (<<equals>> \o q) = <<b>> \o (<<on>> \o (<<c>> \o (<<equals>> \o q)))
      <4> DEFINE z == <<equals>> \o q
      <4>1. z \in Seq(Spelt)
        BY <2>10 DEF q
      <4>2. b \in Spelt /\ on \in Spelt /\ c \in Spelt
        BY <2>4, <2>5
      <4> HIDE DEF z
      <4>3. <<b, on, c>> \o z = <<b>> \o (<<on>> \o (<<c>> \o z))
        BY <4>1, <4>2, ThreeFirst, SMTT(60)
      <4> QED BY <4>3, Zenon DEF z
    <3> QED BY <2>9, <3>2, <3>3, <3>4, <3>5, Zenon DEF q
  <2> HIDE DEF t
  <2>12. (<<join>> \o t) \o f = <<join>> \o (t \o f)
    <3>1. <<join>> \in Seq(Spelt)
      BY <2>4
    <3> QED BY <1>0, <2>8, <3>1, ConcatAssociative, SMTT(60)
  <2>13. (<<a, join>> \o t) \o f = <<a>> \o (<<join>> \o (t \o f))
    <3>1. <<a, join>> \in Seq(Spelt)
      BY <2>4, <2>5
    <3>2. (<<a, join>> \o t) \o f = <<a, join>> \o (t \o f)
      BY <1>0, <2>8, <3>1, ConcatAssociative, SMTT(60)
    <3> DEFINE q == t \o f
    <3>3. q \in Seq(Spelt)
      BY <2>10, <2>11
    <3> HIDE DEF q
    <3>4. <<a, join>> \o q = <<a>> \o (<<join>> \o q)
      BY <2>4, <2>5, <3>3, TwoFirst
    <3> QED BY <3>2, <3>4, Zenon DEF q
  <2> HIDE DEF r
  <2>14. JoinRest(j, w) = IF a = join THEN <<join>> \o r ELSE <<a>> \o (<<join>> \o r)
    BY <2>6, <2>11, <2>12, <2>13, Zenon
  <2>15. JoinRest(j, w) \in Seq(Spelt)
    BY <2>10, <2>14, Zenon
  <2>16. j[1] \in JoinWords \cup {"JOIN"}
    BY <2>2
  <2>17. JoinRest(j, w) = IF j[1] = "JOIN" THEN FromJoinOn(j, w) ELSE <<j[1]>> \o FromJoinOn(j, w)
    BY <2>7, <2>14, Zenon DEF a, join
  <2>18. /\ FromRightOn(j, w) \in Seq(Spelt)
         /\ <<"=">> \o FromRightOn(j, w) \in Seq(Spelt)
         /\ FromLeftOn(j, w) \in Seq(Spelt)
         /\ <<"ON">> \o FromLeftOn(j, w) \in Seq(Spelt)
         /\ <<j[2]>> \o (<<"ON">> \o FromLeftOn(j, w)) \in Seq(Spelt)
         /\ FromJoinOn(j, w) \in Seq(Spelt)
    BY <2>7, <2>10, Zenon DEF r, b, on, equals
  <2> QED BY <1>0, <1>2, <2>2, <2>3, <2>15, <2>16, <2>17, <2>18, Zenon DEF f
<1> QED BY <1>1, <1>2, Zenon

\* What follows the table's name is no JOIN when there is none.
LEMMA FilterFirst ==
  ASSUME NEW w \in Filters
  PROVE  \E r \in Seq(Spelt) : \/ FilterText(w) = <<";">> \o r
                               \/ FilterText(w) = <<"WHERE">> \o r
<1>1. CASE w = <<>>
  BY <1>1, FilterTextIs, EndIs, Zenon
<1>2. CASE w # <<>>
  BY <1>2, FilterTextIs, Zenon
<1> QED BY <1>1, <1>2

\* The statement with a JOIN, as far as it has been read.
Joined(s, parts) == [s EXCEPT !.has_join = TRUE, !.join = parts]
JoinKind(j, s) == [type |-> IF j[1] = "JOIN" THEN "INNER" ELSE j[1], left |-> s.table]
JoinedTable(j) == [type |-> "join_table", left |-> AsTable(j[2])]
JoinedLeft(j) == [type |-> "join_left", left |-> AsJoinColumn(j[3])]
JoinedRight(j) == [type |-> "join_right", left |-> AsJoinColumn(j[4])]

\* A part of the join is added.
LEMMA JoinedMore ==
  ASSUME NEW s, "join" \in DOMAIN s, NEW parts, NEW e
  PROVE  [Joined(s, parts) EXCEPT !.join = Append(@, e)] = Joined(s, Append(parts, e))
BY DEF Joined

\* What is kept of a name in a join.
JoinKept(q, t) == IF q = "join_table" THEN AsTable(t) ELSE AsJoinColumn(t)

\* A name in a join is taken, whatever it is.
LEMMA JoinNameTaken ==
  ASSUME TypeOK, Next, NEW q \in {"join_table", "join_left", "join_right"}, NEW t \in AnyToken,
         NEW r \in Seq(Spelt), NEW s, Now = Reading(q, <<t>> \o r, s)
  PROVE  Now' = Reading([join_table |-> "join_on", join_left |-> "join_equals", join_right |-> "where_or_end"][q],
                        r, [s EXCEPT !.join = Append(@, [type |-> q, left |-> JoinKept(q, t)])])
<1>0. t \in Spelt /\ r \in Seq(Spelt) /\ t # NULL
  BY SpeltWords, NoNull, Zenon
<1>1. at = q /\ Tok = t /\ stmt = s /\ \A q3, s3 : Take(q3, s3) => Now' = Reading(q3, r, s3)
  BY <1>0, Taking
<1>2. JoinName
  BY <1>0, <1>1, ByPlace, Zenon
<1>3. Take([join_table |-> "join_on", join_left |-> "join_equals", join_right |-> "where_or_end"][q],
           [s EXCEPT !.join = Append(@, [type |-> q, left |-> JoinKept(q, t)])])
  BY <1>1, <1>2, Zenon DEF JoinName, JoinKept
<1> QED BY <1>1, <1>3

\* A join, or none, and what follows it.
JoinScript(j, w, s, now) ==
  \/ now = Reading("join_or_where", JoinRest(j, w), s)
  \/ /\ j # <<>>
     /\ \/ now = Reading("join", FromJoinOn(j, w), Joined(s, <<JoinKind(j, s)>>))
        \/ now = Reading("join_table", <<j[2]>> \o (<<"ON">> \o FromLeftOn(j, w)), Joined(s, <<JoinKind(j, s)>>))
        \/ now = Reading("join_on", <<"ON">> \o FromLeftOn(j, w), Joined(s, <<JoinKind(j, s), JoinedTable(j)>>))
        \/ now = Reading("join_left", FromLeftOn(j, w), Joined(s, <<JoinKind(j, s), JoinedTable(j)>>))
        \/ now = Reading("join_equals", <<"=">> \o FromRightOn(j, w),
                         Joined(s, <<JoinKind(j, s), JoinedTable(j), JoinedLeft(j)>>))
        \/ now = Reading("join_right", FromRightOn(j, w),
                         Joined(s, <<JoinKind(j, s), JoinedTable(j), JoinedLeft(j)>>))
  \/ FilterScript(w, Linked(j, s), now)

\* parse_join and what follows it.
LEMMA JoinStep ==
  ASSUME TypeOK, Next, NEW j \in JoinClauses, NEW w \in Filters, NEW s, "join" \in DOMAIN s,
         JoinScript(j, w, s, Now)
  PROVE  JoinScript(j, w, s, Now')
<1> DEFINE k1 == FromJoinOn(j, w)
           k3 == <<"ON">> \o FromLeftOn(j, w)
           k2 == <<j[2]>> \o k3
           k4 == FromLeftOn(j, w)
           k5 == <<"=">> \o FromRightOn(j, w)
           k6 == FromRightOn(j, w)
           f == FilterText(w)
           a == JoinKind(j, s)
           b == JoinedTable(j)
           c == JoinedLeft(j)
           d == JoinedRight(j)
           s1 == Joined(s, <<a>>)
           s2 == Joined(s, <<a, b>>)
           s3 == Joined(s, <<a, b, c>>)
           s4 == Joined(s, <<a, b, c, d>>)
<1>1. /\ s2 = [s1 EXCEPT !.join = Append(@, b)]
      /\ s3 = [s2 EXCEPT !.join = Append(@, c)]
      /\ s4 = [s3 EXCEPT !.join = Append(@, d)]
  <2> HIDE DEF a, b, c, d
  <2>1. \A parts, e : [Joined(s, parts) EXCEPT !.join = Append(@, e)] = Joined(s, Append(parts, e))
    BY JoinedMore
  <2> DEFINE S == {a, b, c, d}
  <2>2. a \in S /\ b \in S /\ c \in S /\ d \in S
    OBVIOUS
  <2> HIDE DEF S
  <2>3. <<a, b>> = Append(<<a>>, b) /\ <<a, b, c>> = Append(<<a, b>>, c) /\ <<a, b, c, d>> = Append(<<a, b, c>>, d)
    BY <2>2
  <2> DEFINE p1 == <<a>>
             p2 == <<a, b>>
             p3 == <<a, b, c>>
             p4 == <<a, b, c, d>>
  <2>4. p2 = Append(p1, b) /\ p3 = Append(p2, c) /\ p4 = Append(p3, d)
    BY <2>3
  <2> HIDE DEF p1, p2, p3, p4
  <2>5. /\ Joined(s, p2) = [Joined(s, p1) EXCEPT !.join = Append(@, b)]
        /\ Joined(s, p3) = [Joined(s, p2) EXCEPT !.join = Append(@, c)]
        /\ Joined(s, p4) = [Joined(s, p3) EXCEPT !.join = Append(@, d)]
    BY <2>1, <2>4
  <2> QED BY <2>5 DEF p1, p2, p3, p4
<1>2. j # <<>> => Linked(j, s) = s4
  BY Zenon DEF Linked, Joined, JoinKind, JoinedTable, JoinedLeft, JoinedRight
<1>3. j = <<>> => Linked(j, s) = s
  BY DEF Linked
<1>4. /\ f \in Seq(Spelt)
      /\ j = <<>> => JoinRest(j, w) = f
      /\ j # <<>> =>
           /\ j[1] \in JoinWords \cup {"JOIN"} /\ j[1] \in Spelt
           /\ j[2] \in AnyToken /\ j[3] \in AnyToken /\ j[4] \in AnyToken
           /\ k1 \in Seq(Spelt) /\ k2 \in Seq(Spelt) /\ k3 \in Seq(Spelt) /\ k4 \in Seq(Spelt)
           /\ k5 \in Seq(Spelt) /\ k6 \in Seq(Spelt)
           /\ k1 = <<"JOIN">> \o k2 /\ k3 = <<"ON">> \o k4 /\ k4 = <<j[3]>> \o k5
           /\ k5 = <<"=">> \o k6 /\ k6 = <<j[4]>> \o f
           /\ JoinRest(j, w) = IF j[1] = "JOIN" THEN k1 ELSE <<j[1]>> \o k1
  <2>1. k1 = <<"JOIN">> \o k2 /\ k4 = <<j[3]>> \o k5 /\ k6 = <<j[4]>> \o f
    BY Zenon DEF FromJoinOn, FromLeftOn, FromRightOn
  <2> QED BY <2>1, JoinRestIs, Zenon
<1>5. JoinScript(j, w, s, Now') <=>
        \/ Now' = Reading("join_or_where", JoinRest(j, w), s)
        \/ j # <<>> /\ (Now' = Reading("join", k1, s1) \/ Now' = Reading("join_table", k2, s1)
                        \/ Now' = Reading("join_on", k3, s2) \/ Now' = Reading("join_left", k4, s2)
                        \/ Now' = Reading("join_equals", k5, s3) \/ Now' = Reading("join_right", k6, s3))
        \/ FilterScript(w, Linked(j, s), Now')
  BY Zenon DEF JoinScript
<1>6. \/ j = <<>> /\ Now = Reading("join_or_where", f, s)
      \/ j # <<>> /\ Now = Reading("join_or_where", JoinRest(j, w), s)
      \/ j # <<>> /\ Now = Reading("join", k1, s1)
      \/ j # <<>> /\ Now = Reading("join_table", k2, s1)
      \/ j # <<>> /\ Now = Reading("join_on", k3, s2)
      \/ j # <<>> /\ Now = Reading("join_left", k4, s2)
      \/ j # <<>> /\ Now = Reading("join_equals", k5, s3)
      \/ j # <<>> /\ Now = Reading("join_right", k6, s3)
      \/ FilterScript(w, Linked(j, s), Now)
  BY <1>4, Zenon DEF JoinScript
<1>7. JoinWords \subseteq Spelt /\ "JOIN" \in Spelt /\ "ON" \in Spelt /\ "=" \in Spelt
  BY SpeltWords, Zenon
<1>8. CASE j = <<>> /\ Now = Reading("join_or_where", f, s)
  <2>1. PICK t \in {";", "WHERE"}, r \in Seq(Spelt) : f = <<t>> \o r
    BY FilterFirst, Zenon
  <2>2. t \in Spelt /\ t # NULL /\ t \notin JoinWords \cup {"JOIN"}
    BY <2>1, SpeltWords, NoNull, Zenon DEF JoinWords
  <2>3. Now = Reading("join_or_where", <<t>> \o r, s) /\ r \in Seq(Spelt)
    BY <1>8, <2>1, Zenon
  <2>4. at = "join_or_where" /\ Tok = t /\ stmt = s
        /\ \A q3, s3a : Peek(q3, s3a) => Now' = Reading(q3, <<t>> \o r, s3a)
    BY <2>2, <2>3, Taking, Zenon
  <2>5. JoinOrWhere
    BY <2>2, <2>4, ByPlace, Zenon
  <2>6. Peek("where_or_end", s)
    BY <2>2, <2>4, <2>5, Zenon DEF JoinOrWhere
  <2>7. Now' = Reading("where_or_end", f, s)
    BY <2>1, <2>4, <2>6, Zenon
  <2> QED BY <1>3, <1>5, <1>8, <2>7, Zenon DEF FilterScript
<1>9. CASE j # <<>> /\ Now = Reading("join_or_where", JoinRest(j, w), s)
  <2> HIDE DEF k1, k2
  <2>1. CASE j[1] = "JOIN"
    <3>1. Now = Reading("join_or_where", <<"JOIN">> \o k2, s) /\ k2 \in Seq(Spelt) /\ k1 = <<"JOIN">> \o k2
      BY <1>4, <1>9, <2>1, Zenon
    <3>2. at = "join_or_where" /\ Tok = "JOIN" /\ stmt = s
          /\ \A q3, s3a : Peek(q3, s3a) => Now' = Reading(q3, <<"JOIN">> \o k2, s3a)
      BY <1>7, <3>1, Taking, Zenon
    <3>3. JoinOrWhere
      BY <3>2, NoNull, ByPlace, Zenon
    <3>4. Tok \notin JoinWords
      BY <3>2, Zenon DEF JoinWords
    <3>5. Peek("join", Joined(s, <<[type |-> "INNER", left |-> s.table]>>))
      BY <3>2, <3>3, <3>4, Zenon DEF JoinOrWhere, Joined
    <3>6. Peek("join", s1)
      BY <2>1, <3>5, Zenon DEF JoinKind
    <3> QED BY <1>5, <1>9, <3>1, <3>2, <3>6, Zenon
  <2>2. CASE j[1] # "JOIN"
    <3>1. /\ Now = Reading("join_or_where", <<j[1]>> \o k1, s) /\ k1 \in Seq(Spelt)
          /\ j[1] \in Spelt /\ j[1] \in JoinWords
      BY <1>4, <1>9, <2>2, Zenon
    <3>2. at = "join_or_where" /\ Tok = j[1] /\ stmt = s
          /\ \A q3, s3a : Take(q3, s3a) => Now' = Reading(q3, k1, s3a)
      BY <3>1, Taking
    <3>3. JoinOrWhere
      BY <3>1, <3>2, NoNull, ByPlace, Zenon
    <3>4. Take("join", Joined(s, <<[type |-> j[1], left |-> s.table]>>))
      BY <2>2, <3>1, <3>2, <3>3, Zenon DEF JoinOrWhere, Joined
    <3>5. Take("join", s1)
      BY <2>2, <3>4, Zenon DEF JoinKind
    <3> QED BY <1>5, <1>9, <3>2, <3>5, Zenon
  <2> QED BY <2>1, <2>2
<1> DEFINE Next2(q) == [join_table |-> "join_on", join_left |-> "join_equals", join_right |-> "where_or_end"][q]
<1>10. Next2("join_table") = "join_on" /\ Next2("join_left") = "join_equals" /\ Next2("join_right") = "where_or_end"
  OBVIOUS
<1> HIDE DEF k1, k2, k3, k4, k5, k6, s1, s2, s3, s4, f
<1>11. CASE j # <<>> /\ Now = Reading("join", k1, s1)
  <2>1. /\ Now = Reading("join", <<"JOIN">> \o k2, s1) /\ k2 \in Seq(Spelt)
        /\ Expected["join"] = <<"JOIN", "join_table">> /\ "join" \in DOMAIN Expected /\ "JOIN" # NULL
    BY <1>4, <1>11, NoNull, Zenon DEF Expected
  <2>2. Now' = Reading("join_table", k2, s1)
    BY <1>7, <2>1, ExpectTaken
  <2> QED BY <1>5, <1>11, <2>2, Zenon
<1>12. CASE j # <<>> /\ Now = Reading("join_table", k2, s1)
  <2>1. Now = Reading("join_table", <<j[2]>> \o k3, s1) /\ j[2] \in AnyToken /\ k3 \in Seq(Spelt)
    BY <1>4, <1>12, Zenon DEF k2
  <2>2. Now' = Reading(Next2("join_table"), k3, [s1 EXCEPT !.join = Append(@, b)])
    BY <2>1, JoinNameTaken DEF JoinedTable, JoinKept
  <2> QED BY <1>1, <1>5, <1>10, <1>12, <2>2, Zenon
<1>13. CASE j # <<>> /\ Now = Reading("join_on", k3, s2)
  <2>1. /\ Now = Reading("join_on", <<"ON">> \o k4, s2) /\ k4 \in Seq(Spelt)
        /\ Expected["join_on"] = <<"ON", "join_left">> /\ "join_on" \in DOMAIN Expected /\ "ON" # NULL
    BY <1>4, <1>13, NoNull, Zenon DEF Expected
  <2>2. Now' = Reading("join_left", k4, s2)
    BY <1>7, <2>1, ExpectTaken
  <2> QED BY <1>5, <1>13, <2>2, Zenon
<1>14. CASE j # <<>> /\ Now = Reading("join_left", k4, s2)
  <2>1. Now = Reading("join_left", <<j[3]>> \o k5, s2) /\ j[3] \in AnyToken /\ k5 \in Seq(Spelt)
    BY <1>4, <1>14, Zenon
  <2>2. Now' = Reading(Next2("join_left"), k5, [s2 EXCEPT !.join = Append(@, c)])
    BY <2>1, JoinNameTaken DEF JoinedLeft, JoinKept
  <2> QED BY <1>1, <1>5, <1>10, <1>14, <2>2, Zenon
<1>15. CASE j # <<>> /\ Now = Reading("join_equals", k5, s3)
  <2> DEFINE equals == "="
  <2>1. /\ Now = Reading("join_equals", <<equals>> \o k6, s3) /\ k6 \in Seq(Spelt) /\ equals \in Spelt
        /\ Expected["join_equals"] = <<equals, "join_right">> /\ "join_equals" \in DOMAIN Expected /\ equals # NULL
    BY <1>4, <1>7, <1>15, NoNull, Zenon DEF Expected
  <2> HIDE DEF equals
  <2>2. Now' = Reading("join_right", k6, s3)
    BY <2>1, ExpectTaken
  <2> QED BY <1>5, <1>15, <2>2, Zenon
<1>16. CASE j # <<>> /\ Now = Reading("join_right", k6, s3)
  <2>1. Now = Reading("join_right", <<j[4]>> \o f, s3) /\ j[4] \in AnyToken /\ f \in Seq(Spelt)
    BY <1>4, <1>16, Zenon
  <2>2. Now' = Reading(Next2("join_right"), f, [s3 EXCEPT !.join = Append(@, d)])
    BY <2>1, JoinNameTaken DEF JoinedRight, JoinKept
  <2>3. Now' = Reading("where_or_end", FilterText(w), Linked(j, s))
    BY <1>1, <1>2, <1>10, <1>16, <2>2, Zenon DEF f
  <2> QED BY <1>5, <2>3, Zenon DEF FilterScript
<1>17. CASE FilterScript(w, Linked(j, s), Now)
  <2>1. FilterScript(w, Linked(j, s), Now')
    BY <1>17, FilterStep
  <2> QED BY <1>5, <2>1, Zenon
<1> QED BY <1>6, <1>8, <1>9, <1>11, <1>12, <1>13, <1>14, <1>15, <1>16, <1>17, Zenon

\* A list of items and what follows it, item by item.
LEMMA ItemsText ==
  ASSUME NEW x \in Seq(Seq(Spelt)), NEW f \in Seq(Spelt), x # <<>>
  PROVE  /\ Len(x) \in Nat /\ Len(x) >= 1
         /\ \A i \in 1 .. Len(x) : x[i] \in Seq(Spelt) /\ More(x, i) \o f \in Seq(Spelt)
         /\ \A i \in 1 .. Len(x) : x[i] \o (More(x, i) \o f) \in Seq(Spelt)
         /\ Commas(x) \in Seq(Spelt)
         /\ Commas(x) \o f = x[1] \o (More(x, 1) \o f)
         /\ \A i \in 1 .. Len(x) - 1 :
              More(x, i) \o f = <<",">> \o (x[i + 1] \o (More(x, i + 1) \o f))
         /\ More(x, Len(x)) \o f = f
         /\ Len(f) >= 1 => \A i \in 1 .. Len(x) : Len(More(x, i) \o f) >= 1
<1> DEFINE comma == ","
           n == Len(x)
<1>1. /\ n \in Nat
      /\ \A i \in 0 .. n : More(x, i) \in Seq(Spelt)
      /\ Commas(x) = More(x, 0)
      /\ More(x, n) = <<>>
      /\ x[1] \in Seq(Spelt) /\ More(x, 0) = x[1] \o More(x, 1)
      /\ \A i \in 1 .. n - 1 :
           /\ x[i + 1] \in Seq(Spelt)
           /\ More(x, i) = <<comma>> \o (x[i + 1] \o More(x, i + 1))
  BY MoreIs, Zenon
<1>2. <<comma>> \in Seq(Spelt)
  BY CommaIs, Zenon
<1> HIDE DEF comma
<1>3. n >= 1 /\ f \in Seq(Spelt)
  <2>1. n # 0
    BY EmptySeq DEF n
  <2> QED BY <1>1, <2>1
<1> HIDE DEF n
<1>4. \A i \in 1 .. n : x[i] \in Seq(Spelt)
  BY <1>1, ElementOfSeq DEF n
<1>5. \A i \in 1 .. n : More(x, i) \o f \in Seq(Spelt)
  <2> SUFFICES ASSUME NEW i \in 1 .. n PROVE More(x, i) \o f \in Seq(Spelt)
    OBVIOUS
  <2> DEFINE m == More(x, i)
  <2>1. m \in Seq(Spelt)
    BY <1>1
  <2> HIDE DEF m
  <2>2. m \o f \in Seq(Spelt)
    BY <1>3, <2>1, ConcatProperties
  <2> QED BY <2>2 DEF m
<1>6. \A i \in 1 .. n : x[i] \o (More(x, i) \o f) \in Seq(Spelt)
  <2> SUFFICES ASSUME NEW i \in 1 .. n PROVE x[i] \o (More(x, i) \o f) \in Seq(Spelt)
    OBVIOUS
  <2> DEFINE m == More(x, i) \o f
             a == x[i]
  <2>1. m \in Seq(Spelt) /\ a \in Seq(Spelt)
    BY <1>4, <1>5
  <2> HIDE DEF m, a
  <2>2. a \o m \in Seq(Spelt)
    BY <2>1, ConcatProperties
  <2> QED BY <2>2 DEF m, a
<1>7. Commas(x) \in Seq(Spelt)
  <2>1. 0 \in 0 .. n
    BY <1>1
  <2> QED BY <1>1, <2>1
<1>8. Commas(x) \o f = x[1] \o (More(x, 1) \o f)
  <2> DEFINE m == More(x, 1)
             a == x[1]
  <2>1. m \in Seq(Spelt) /\ a \in Seq(Spelt) /\ Commas(x) = a \o m
    <3>1. 1 \in 0 .. n
      BY <1>1, <1>3
    <3> QED BY <1>1, <3>1
  <2> HIDE DEF m, a
  <2>2. (a \o m) \o f = a \o (m \o f)
    BY <1>3, <2>1, ConcatAssociative, SMTT(60)
  <2> QED BY <2>1, <2>2 DEF m, a
<1> DEFINE T == Seq(Spelt)
<1>a. \A a, m \in T : (<<comma>> \o (a \o m)) \o f = <<comma>> \o (a \o (m \o f))
  <2> SUFFICES ASSUME NEW a \in T, NEW m \in T
               PROVE  (<<comma>> \o (a \o m)) \o f = <<comma>> \o (a \o (m \o f))
    OBVIOUS
  <2> DEFINE b == a \o m
  <2>1. b \in Seq(Spelt)
    BY ConcatProperties
  <2> HIDE DEF b
  <2>2. (a \o m) \o f = a \o (m \o f)
    <3>1. a \in Seq(Spelt) /\ m \in Seq(Spelt) /\ f \in Seq(Spelt)
      BY <1>3
    <3> QED BY <3>1, ConcatAssociative, SMTT(60)
  <2>3. (<<comma>> \o b) \o f = <<comma>> \o (b \o f)
    BY <1>2, <1>3, <2>1, ConcatAssociative, SMTT(60)
  <2> QED BY <2>2, <2>3 DEF b
<1> HIDE DEF T
<1>9. \A i \in 1 .. n - 1 : More(x, i) \o f = <<comma>> \o (x[i + 1] \o (More(x, i + 1) \o f))
  <2> SUFFICES ASSUME NEW i \in 1 .. n - 1
               PROVE  More(x, i) \o f = <<comma>> \o (x[i + 1] \o (More(x, i + 1) \o f))
    OBVIOUS
  <2>1. More(x, i + 1) \in T /\ x[i + 1] \in T /\ More(x, i) = <<comma>> \o (x[i + 1] \o More(x, i + 1))
    <3>1. i + 1 \in 0 .. n
      BY <1>1
    <3> QED BY <1>1, <3>1 DEF T
  <2> QED BY <1>a, <2>1, Zenon
<1>10. More(x, n) \o f = f
  BY <1>1, <1>3, ConcatEmptySeq
<1>11. \A i \in 1 .. n - 1 : More(x, i) \o f = <<",">> \o (x[i + 1] \o (More(x, i + 1) \o f))
  BY <1>9, Zenon DEF comma
<1>12. Len(f) >= 1 => \A i \in 1 .. n : Len(More(x, i) \o f) >= 1
  <2> SUFFICES ASSUME Len(f) >= 1, NEW i \in 1 .. n PROVE Len(More(x, i) \o f) >= 1
    OBVIOUS
  <2> DEFINE m == More(x, i)
  <2>1. m \in Seq(Spelt)
    BY <1>1
  <2> HIDE DEF m
  <2>2. Len(m \o f) = Len(m) + Len(f) /\ Len(m) \in Nat /\ Len(f) \in Nat
    BY <1>3, <2>1, ConcatProperties, LenProperties
  <2>3. Len(m \o f) >= 1
    BY <2>2
  <2> QED BY <2>3 DEF m
<1> QED BY <1>1, <1>3, <1>4, <1>5, <1>6, <1>7, <1>8, <1>10, <1>11, <1>12, Zenon DEF n

\* A list of single tokens and what follows it.
ListRead(x, f) ==
  /\ Len(x) \in Nat /\ Len(x) >= 1 /\ 1 \in 1 .. Len(x)
  /\ \A i \in 1 .. Len(x) : x[i] \in Spelt /\ More(Listed(x), i) \o f \in Seq(Spelt)
  /\ \A i \in 1 .. Len(x) : <<x[i]>> \o (More(Listed(x), i) \o f) \in Seq(Spelt)
  /\ Commas(Listed(x)) \in Seq(Spelt)
  /\ Commas(Listed(x)) \o f = <<x[1]>> \o (More(Listed(x), 1) \o f)
  /\ \A i \in 1 .. Len(x) - 1 :
       More(Listed(x), i) \o f = <<",">> \o (<<x[i + 1]>> \o (More(Listed(x), i + 1) \o f))
  /\ More(Listed(x), Len(x)) \o f = f
  /\ Len(f) >= 1 => \A i \in 1 .. Len(x) : Len(More(Listed(x), i) \o f) >= 1

\* A list of single tokens is read like that.
LEMMA ListText ==
  ASSUME NEW x \in Seq(Spelt), NEW f \in Seq(Spelt), x # <<>>
  PROVE  ListRead(x, f)
<1> DEFINE y == Listed(x)
           n == Len(x)
<1>1. /\ y \in Seq(Seq(Spelt)) /\ Len(y) = n /\ n \in Nat /\ y # <<>>
      /\ \A i \in 1 .. n : y[i] = <<x[i]>> /\ x[i] \in Spelt
  BY ListedIs
<1> HIDE DEF y, n
<1>2. /\ n >= 1
      /\ \A i \in 1 .. n : y[i] \in Seq(Spelt) /\ More(y, i) \o f \in Seq(Spelt)
      /\ \A i \in 1 .. n : y[i] \o (More(y, i) \o f) \in Seq(Spelt)
      /\ Commas(y) \in Seq(Spelt)
      /\ Commas(y) \o f = y[1] \o (More(y, 1) \o f)
      /\ \A i \in 1 .. n - 1 :
           More(y, i) \o f = <<",">> \o (y[i + 1] \o (More(y, i + 1) \o f))
      /\ More(y, n) \o f = f
      /\ Len(f) >= 1 => \A i \in 1 .. n : Len(More(y, i) \o f) >= 1
  BY <1>1, ItemsText, Zenon
<1>3. 1 \in 1 .. n /\ \A i \in 1 .. n - 1 : i + 1 \in 1 .. n
  <2>1. n >= 1
    BY <1>2, Zenon
  <2> QED BY <1>1, <2>1
<1>4. y[1] = <<x[1]>> /\ \A i \in 1 .. n - 1 : y[i + 1] = <<x[i + 1]>>
  BY <1>1, <1>3
<1>5. \A i \in 1 .. n : x[i] \in Spelt
  BY <1>1
<1>6. \A i \in 1 .. n : <<x[i]>> \o (More(y, i) \o f) \in Seq(Spelt)
  BY <1>1, <1>2, Zenon
<1> QED BY <1>1, <1>2, <1>3, <1>4, <1>5, <1>6, Zenon DEF y, n, ListRead

\* The beginnings of a sequence.
LEMMA PrefixIs ==
  ASSUME NEW S, NEW x \in Seq(S)
  PROVE  /\ Len(x) \in Nat
         /\ SubSeq(x, 1, 0) = <<>> /\ SubSeq(x, 1, Len(x)) = x
         /\ \A i \in 0 .. Len(x) : Len(SubSeq(x, 1, i)) = i /\ SubSeq(x, 1, i) \in Seq(S)
         /\ \A i \in 0 .. Len(x) - 1 : SubSeq(x, 1, i + 1) = Append(SubSeq(x, 1, i), x[i + 1])
<1>1. Len(x) \in Nat /\ \A i \in 1 .. Len(x) : x[i] \in S
  BY LenProperties, ElementOfSeq
<1>2. SubSeq(x, 1, 0) = <<>> /\ SubSeq(x, 1, Len(x)) = x
  BY SubSeqEmpty, SubSeqFull
<1>3. \A i \in 0 .. Len(x) : Len(SubSeq(x, 1, i)) = i /\ SubSeq(x, 1, i) \in Seq(S)
  <2> SUFFICES ASSUME NEW i \in 0 .. Len(x)
               PROVE  Len(SubSeq(x, 1, i)) = i /\ SubSeq(x, 1, i) \in Seq(S)
    OBVIOUS
  <2>1. \A k \in 1 .. i : x[k] \in S
    BY <1>1
  <2> QED BY <1>1, <2>1, SubSeqProperties
<1>4. \A i \in 0 .. Len(x) - 1 : SubSeq(x, 1, i + 1) = Append(SubSeq(x, 1, i), x[i + 1])
  <2> SUFFICES ASSUME NEW i \in 0 .. Len(x) - 1
               PROVE  SubSeq(x, 1, i + 1) = Append(SubSeq(x, 1, i), x[i + 1])
    OBVIOUS
  <2>1. i + 1 \in 1 .. Len(x) /\ (i + 1) - 1 = i /\ i \in 0 .. Len(x)
    BY <1>1
  <2>2. SubSeq(x, 1, i + 1) = SubSeq(x, 1, (i + 1) - 1) \o <<x[i + 1]>>
    BY <1>1, <2>1, SubSeqRecursiveSecond
  <2>3. Append(SubSeq(x, 1, i), x[i + 1]) = SubSeq(x, 1, i) \o <<x[i + 1]>>
    BY <1>1, <1>3, <2>1, AppendIsConcat
  <2> QED BY <2>1, <2>2, <2>3
<1> QED BY <1>1, <1>2, <1>3, <1>4

\* The statement does nothing: it has an error, or is a SELECT without a table.
Nothing(s) == s.has_error \/ (s.type = "SELECT" /\ s.table = "")
Rejected(now) == \E q \in {"done", "ran"} : \E r, s, ok : now = <<q, r, s, ok>> /\ Nothing(s)

\* It stays so when it is executed.
LEMMA RejectedStep ==
  ASSUME Next, Rejected(Now)
  PROVE  Rejected(Now')
<1>0. PICK q \in {"done", "ran"} : \E r, s, ok : Now = <<q, r, s, ok>> /\ Nothing(s)
  BY DEF Rejected
<1>1. PICK r, s, ok : Now = <<q, r, s, ok>> /\ Nothing(s)
  BY <1>0
<1>2. at = q /\ stmt = s
  BY <1>1 DEF Now
<1>3. at = "done"
  BY <1>1, <1>2, ByPlace, Zenon
<1>4. Execute
  BY <1>3, ByPlace, Zenon
<1>5. at' = "ran" /\ stmt' = stmt
  BY <1>4, Zenon DEF Execute
<1>6. Now' = <<"ran", Rest', s, parse_success'>>
  BY <1>2, <1>5 DEF Now
<1> QED BY <1>1, <1>6, Zenon DEF Rejected

\* The columns as they are kept.
Shorts(columns) == [i \in DOMAIN columns |-> AsColumn(columns[i])]

\* A SELECT, as far as it has been read.
Chosen(columns, i) == [BlankStatement EXCEPT !.select = SubSeq(columns, 1, i)]
Counted(columns) == [BlankStatement EXCEPT !.select = columns, !.select_count = Len(columns)]
ChosenFrom(columns, table) ==
  [BlankStatement EXCEPT !.select = columns, !.select_count = Len(columns), !.table = AsTable(table)]

FromText(table, j, w) == <<"FROM">> \o (<<table>> \o JoinRest(j, w))

SelectScript(columns, table, j, w, now) ==
  \/ now = Reading("start", <<"SELECT">> \o (Commas(Listed(columns)) \o FromText(table, j, w)), BlankStatement)
  \/ now = Reading("select_first", Commas(Listed(columns)) \o FromText(table, j, w), BlankStatement)
  \/ columns = <<"*">> /\ now = Reading("from", FromText(table, j, w), Counted(Shorts(columns)))
  \/ /\ columns # <<"*">>
     /\ \E i \in 1 .. Len(columns) :
          /\ i <= MaxColumns
          /\ \/ now = Reading("select_columns", More(Listed(columns), i) \o FromText(table, j, w), Chosen(Shorts(columns), i))
             \/ /\ i < Len(columns)
                /\ now = Reading("select_columns",
                                 <<columns[i + 1]>> \o (More(Listed(columns), i + 1) \o FromText(table, j, w)),
                                 Chosen(Shorts(columns), i))
  \/ Len(columns) > MaxColumns /\ Rejected(now)
  \/ /\ Len(columns) <= MaxColumns
     /\ \/ now = Reading("name", <<table>> \o JoinRest(j, w), Counted(Shorts(columns)))
        \/ JoinScript(j, w, ChosenFrom(Shorts(columns), table), now)

\* The text from FROM on.
LEMMA FromTextIs ==
  ASSUME NEW table \in TableNames, NEW j \in JoinClauses, NEW w \in Filters
  PROVE  /\ FromText(table, j, w) \in Seq(Spelt)
         /\ <<table>> \o JoinRest(j, w) \in Seq(Spelt)
         /\ JoinRest(j, w) \in Seq(Spelt)
         /\ table \in AnyToken /\ table \in Spelt /\ table # NULL /\ "FROM" \in Spelt
<1>1. table \in AnyToken /\ table \in Spelt /\ table # NULL /\ "FROM" \in Spelt
  BY WrittenAssumption, SpeltWords, NoNull, Zenon
<1>2. JoinRest(j, w) \in Seq(Spelt)
  BY JoinRestIs, Zenon
<1> DEFINE r == JoinRest(j, w)
           q == <<table>> \o r
<1> HIDE DEF r
<1>3. q \in Seq(Spelt)
  BY <1>1, <1>2, TokenFirst DEF r
<1> HIDE DEF q
<1>4. <<"FROM">> \o q \in Seq(Spelt)
  BY <1>1, <1>3, TokenFirst
<1> QED BY <1>1, <1>2, <1>3, <1>4, Zenon DEF FromText, q, r

\* What SELECT lists.
LEMMA SelectedAre ==
  ASSUME NEW columns \in SelectLists
  PROVE  /\ \E T : T \subseteq Spelt /\ columns \in Seq(T) /\ columns # <<>>
         /\ columns = <<"*">> => columns[1] = "*" /\ Len(columns) = 1
         /\ columns # <<"*">> =>
              \A i \in 1 .. Len(columns) :
                columns[i] \in AnyToken /\ columns[i] # "*" /\ columns[i] # "," /\ columns[i] # "FROM" /\ columns[i] # NULL
<1>1. CASE columns = <<"*">>
  <2> DEFINE star == "*"
  <2>1. columns = <<star>> /\ star \in Spelt
    BY <1>1, SpeltWords, Zenon
  <2> HIDE DEF star
  <2>2. columns \in Seq({star}) /\ columns # <<>> /\ columns[1] = star /\ Len(columns) = 1 /\ {star} \subseteq Spelt
    BY <2>1
  <2> QED BY <1>1, <2>2, Zenon DEF star
<1>2. CASE columns # <<"*">>
  <2> DEFINE T == AnyToken \ {"*", ",", "FROM"}
  <2>1. columns \in Seq(T) /\ columns # <<>>
    BY <1>2, WrittenAssumption, Zenon
  <2>2. T \subseteq Spelt /\ \A t \in T : t \in AnyToken /\ t # "*" /\ t # "," /\ t # "FROM" /\ t # NULL
    BY SpeltWords, NoNull, Zenon
  <2> HIDE DEF T
  <2>3. \A i \in 1 .. Len(columns) : columns[i] \in T
    BY <2>1, ElementOfSeq
  <2> QED BY <1>2, <2>1, <2>2, <2>3, Zenon
<1> QED BY <1>1, <1>2, Zenon

\* What is kept of it, name by name; the star is kept as it is.
LEMMA ShortsAre ==
  ASSUME NEW columns \in SelectLists
  PROVE  /\ \E S : Shorts(columns) \in Seq(S)
         /\ Shorts(columns) # <<>> /\ Len(Shorts(columns)) = Len(columns)
         /\ \A i \in 1 .. Len(columns) : Shorts(columns)[i] = AsColumn(columns[i])
         /\ columns = <<"*">> => Shorts(columns) = <<"*">>
<1> DEFINE n == Len(columns)
           S == {AsColumn(columns[i]) : i \in 1 .. n}
           kept == [i \in 1 .. n |-> AsColumn(columns[i])]
<1>1. n \in Nat /\ n # 0 /\ DOMAIN columns = 1 .. n
  <2>1. PICK T : T \subseteq Spelt /\ columns \in Seq(T) /\ columns # <<>>
    BY SelectedAre
  <2> QED BY <2>1, LenProperties, EmptySeq
<1>2. Shorts(columns) = kept
  BY <1>1, Zenon DEF Shorts
<1>3. kept \in [1 .. n -> S]
  OBVIOUS
<1>4. kept \in Seq(S) /\ Len(kept) = n
  <2> HIDE DEF kept, S, n
  <2> QED BY <1>1, <1>3
<1>5. kept # <<>>
  BY <1>1, <1>4, EmptySeq
<1>6. columns = <<"*">> => kept = <<"*">>
  <2> DEFINE star == "*"
  <2>1. AsColumn(star) = star
    BY ParserAssumption, Zenon DEF AsColumn, Shortened
  <2> HIDE DEF star
  <2>2. columns = <<star>> => n = 1 /\ kept = <<star>>
    BY <2>1
  <2> QED BY <2>2, Zenon DEF star
<1> QED BY <1>2, <1>4, <1>5, <1>6, Zenon

\* What is blank.
LEMMA BlankFields ==
  /\ BlankStatement.type = "SELECT" /\ BlankStatement.select = <<>>
  /\ "join" \in DOMAIN BlankStatement /\ "table" \in DOMAIN BlankStatement
  /\ "has_error" \in DOMAIN BlankStatement
<1>1. BlankStatement.type = "SELECT" /\ BlankStatement.select = <<>>
  BY Zenon DEF BlankStatement
<1>2. "join" \in DOMAIN BlankStatement /\ "table" \in DOMAIN BlankStatement /\ "has_error" \in DOMAIN BlankStatement
  BY Zenon DEF BlankStatement
<1> QED BY <1>1, <1>2

\* Each column that is read is one more of what is selected.
LEMMA ChosenIs ==
  ASSUME NEW S, NEW columns \in Seq(S)
  PROVE  /\ \A i \in 1 .. Len(columns) :
              /\ Chosen(columns, i).select = SubSeq(columns, 1, i)
              /\ Len(SubSeq(columns, 1, i)) = i
              /\ Nothing(Chosen(columns, i))
         /\ \A i \in 1 .. Len(columns) - 1 :
              [Chosen(columns, i) EXCEPT !.select = Append(@, columns[i + 1])] = Chosen(columns, i + 1)
         /\ columns # <<>> =>
              [BlankStatement EXCEPT !.select = Append(@, columns[1])] = Chosen(columns, 1)
         /\ [Chosen(columns, Len(columns)) EXCEPT !.select_count = Len(columns)] = Counted(columns)
         /\ Counted(columns).type = "SELECT"
         /\ \A table : [Counted(columns) EXCEPT !.table = AsTable(table)] = ChosenFrom(columns, table)
<1>1. /\ Len(columns) \in Nat
      /\ SubSeq(columns, 1, 0) = <<>> /\ SubSeq(columns, 1, Len(columns)) = columns
      /\ \A i \in 0 .. Len(columns) : Len(SubSeq(columns, 1, i)) = i
      /\ \A i \in 0 .. Len(columns) - 1 : SubSeq(columns, 1, i + 1) = Append(SubSeq(columns, 1, i), columns[i + 1])
  BY PrefixIs, Zenon
<1>2. \A i \in 1 .. Len(columns) :
        Chosen(columns, i).select = SubSeq(columns, 1, i) /\ Nothing(Chosen(columns, i))
  BY Zenon DEF Chosen, BlankStatement, Nothing
<1>3. \A i \in 1 .. Len(columns) : Len(SubSeq(columns, 1, i)) = i
  BY <1>1
<1>4. \A i \in 1 .. Len(columns) - 1 : SubSeq(columns, 1, i + 1) = Append(SubSeq(columns, 1, i), columns[i + 1])
  BY <1>1
<1>5. \A a, e : [[BlankStatement EXCEPT !.select = a] EXCEPT !.select = Append(@, e)]
                = [BlankStatement EXCEPT !.select = Append(a, e)]
  BY DEF BlankStatement
<1>6. \A i \in 1 .. Len(columns) - 1 :
        [Chosen(columns, i) EXCEPT !.select = Append(@, columns[i + 1])] = Chosen(columns, i + 1)
  BY <1>4, <1>5, Zenon DEF Chosen
<1>7. columns # <<>> => [BlankStatement EXCEPT !.select = Append(@, columns[1])] = Chosen(columns, 1)
  <2> SUFFICES ASSUME columns # <<>>
               PROVE  [BlankStatement EXCEPT !.select = Append(@, columns[1])] = Chosen(columns, 1)
    OBVIOUS
  <2>1. Len(columns) # 0
    BY EmptySeq
  <2>2. 0 \in 0 .. Len(columns) - 1 /\ 0 + 1 = 1
    BY <1>1, <2>1
  <2>3. SubSeq(columns, 1, 1) = Append(<<>>, columns[1])
    BY <1>1, <2>2
  <2>5. \A e : [BlankStatement EXCEPT !.select = Append(@, e)] = [BlankStatement EXCEPT !.select = Append(<<>>, e)]
    BY DEF BlankStatement
  <2> QED BY <2>3, <2>5, Zenon DEF Chosen
<1>8. [Chosen(columns, Len(columns)) EXCEPT !.select_count = Len(columns)] = Counted(columns)
  BY <1>1, Zenon DEF Chosen, Counted
<1>9. Counted(columns).type = "SELECT"
  BY Zenon DEF Counted, BlankStatement
<1>10. \A table : [Counted(columns) EXCEPT !.table = AsTable(table)] = ChosenFrom(columns, table)
  BY Zenon DEF Counted, ChosenFrom
<1> QED BY <1>2, <1>3, <1>6, <1>7, <1>8, <1>9, <1>10, Zenon

\* parse_select: a list of columns, a star, a list that is too long.
LEMMA SelectStep ==
  ASSUME TypeOK, Next, NEW columns \in SelectLists, NEW table \in TableNames, NEW j \in JoinClauses, NEW w \in Filters,
         SelectScript(columns, table, j, w, Now)
  PROVE  SelectScript(columns, table, j, w, Now')
<1> DEFINE x == Listed(columns)
           f == FromText(table, j, w)
           r == JoinRest(j, w)
           n == Len(columns)
           kept == Shorts(columns)
           b == BlankStatement
           many == columns # <<"*">>
           more(i) == More(x, i) \o f
           Goal == SelectScript(columns, table, j, w, Now')
<1>0. SUFFICES Goal
  OBVIOUS
<1>1. /\ f \in Seq(Spelt) /\ r \in Seq(Spelt) /\ <<table>> \o r \in Seq(Spelt)
      /\ table \in AnyToken /\ table \in Spelt /\ f = <<"FROM">> \o (<<table>> \o r)
      /\ "FROM" \in Spelt
  BY FromTextIs, Zenon DEF FromText
<1>2. PICK T : T \subseteq Spelt /\ columns \in Seq(T) /\ columns # <<>>
  BY SelectedAre
<1>3. many => \A i \in 1 .. n :
        columns[i] \in AnyToken /\ columns[i] # "*" /\ columns[i] # "," /\ columns[i] # "FROM" /\ columns[i] # NULL
  BY SelectedAre, Zenon
<1>4. /\ n \in Nat /\ n >= 1 /\ 1 \in 1 .. n
      /\ \A i \in 1 .. n : columns[i] \in Spelt /\ more(i) \in Seq(Spelt)
      /\ \A i \in 1 .. n : <<columns[i]>> \o more(i) \in Seq(Spelt)
      /\ Commas(x) \in Seq(Spelt)
      /\ Commas(x) \o f = <<columns[1]>> \o more(1)
      /\ \A i \in 1 .. n - 1 : more(i) = <<",">> \o (<<columns[i + 1]>> \o more(i + 1))
      /\ more(n) = f
  <2>1. columns \in Seq(Spelt) /\ columns # <<>>
    BY <1>2, SeqMonotonic
  <2>2. ListRead(columns, f)
    <3> HIDE DEF f
    <3> QED BY <1>1, <2>1, ListText
  <2> QED BY <2>2, Zenon DEF ListRead
<1>5. /\ \A i \in 1 .. n :
           Chosen(kept, i).select = SubSeq(kept, 1, i) /\ Len(SubSeq(kept, 1, i)) = i /\ Nothing(Chosen(kept, i))
      /\ \A i \in 1 .. n - 1 : [Chosen(kept, i) EXCEPT !.select = Append(@, AsColumn(columns[i + 1]))] = Chosen(kept, i + 1)
      /\ [b EXCEPT !.select = Append(@, AsColumn(columns[1]))] = Chosen(kept, 1)
      /\ [Chosen(kept, n) EXCEPT !.select_count = n] = Counted(kept)
      /\ Counted(kept).type = "SELECT"
      /\ [Counted(kept) EXCEPT !.table = AsTable(table)] = ChosenFrom(kept, table)
  <2>1. /\ kept # <<>> /\ Len(kept) = n /\ 1 \in 1 .. n
        /\ \A i \in 1 .. n : kept[i] = AsColumn(columns[i])
    BY <1>4, ShortsAre, Zenon
  <2>2. \A i \in 1 .. n - 1 : i + 1 \in 1 .. n
    <3> n \in Nat
      BY <1>4, Zenon
    <3> HIDE DEF n
    <3> QED OBVIOUS
  <2>3. PICK S : kept \in Seq(S)
    BY ShortsAre
  <2> HIDE DEF kept
  <2>4. /\ \A i \in 1 .. Len(kept) :
             Chosen(kept, i).select = SubSeq(kept, 1, i) /\ Len(SubSeq(kept, 1, i)) = i /\ Nothing(Chosen(kept, i))
        /\ \A i \in 1 .. Len(kept) - 1 : [Chosen(kept, i) EXCEPT !.select = Append(@, kept[i + 1])] = Chosen(kept, i + 1)
        /\ kept # <<>> => [BlankStatement EXCEPT !.select = Append(@, kept[1])] = Chosen(kept, 1)
        /\ [Chosen(kept, Len(kept)) EXCEPT !.select_count = Len(kept)] = Counted(kept)
        /\ Counted(kept).type = "SELECT"
        /\ [Counted(kept) EXCEPT !.table = AsTable(table)] = ChosenFrom(kept, table)
    BY <2>3, ChosenIs, Zenon
  <2> QED BY <2>1, <2>2, <2>4, Zenon
<1>6. MaxColumns \in Nat /\ MaxColumns >= 1 /\ n \in Nat
  <2>1. n \in Nat
    BY <1>4, Zenon
  <2> QED BY <2>1, ParserAssumption
<1>7. /\ \/ Now' = Reading("select_first", Commas(x) \o f, b)
         \/ ~many /\ Now' = Reading("from", f, Counted(kept))
         => Goal
      /\ \A i \in 1 .. n : many /\ i <= MaxColumns /\ Now' = Reading("select_columns", more(i), Chosen(kept, i)) => Goal
      /\ \A i \in 1 .. n : many /\ i <= MaxColumns /\ i < n
                           /\ Now' = Reading("select_columns", <<columns[i + 1]>> \o more(i + 1), Chosen(kept, i)) => Goal
      /\ n > MaxColumns /\ Rejected(Now') => Goal
      /\ n <= MaxColumns /\ (\/ Now' = Reading("name", <<table>> \o r, Counted(kept))
                             \/ JoinScript(j, w, ChosenFrom(kept, table), Now')) => Goal
  BY Zenon DEF SelectScript
<1>8. \/ Now = Reading("start", <<"SELECT">> \o (Commas(x) \o f), b)
      \/ ~many /\ Now = Reading("select_first", Commas(x) \o f, b)
      \/ many /\ Now = Reading("select_first", Commas(x) \o f, b)
      \/ ~many /\ Now = Reading("from", f, Counted(kept))
      \/ \E i \in 1 .. n : many /\ i <= MaxColumns /\ Now = Reading("select_columns", more(i), Chosen(kept, i))
      \/ \E i \in 1 .. n : many /\ i <= MaxColumns /\ i < n
                           /\ Now = Reading("select_columns", <<columns[i + 1]>> \o more(i + 1), Chosen(kept, i))
      \/ n > MaxColumns /\ Rejected(Now)
      \/ n <= MaxColumns /\ Now = Reading("name", <<table>> \o r, Counted(kept))
      \/ n <= MaxColumns /\ JoinScript(j, w, ChosenFrom(kept, table), Now)
  BY Zenon DEF SelectScript
<1>9. "SELECT" \in Spelt /\ "," \in Spelt /\ "*" \in Spelt
  BY SpeltWords, Zenon
<1>10. b.select = <<>> /\ b.type = "SELECT"
  BY BlankFields
<1>11. ~many => n = 1 /\ columns[1] = "*" /\ kept = <<"*">> /\ Len(kept) = 1
  <2>1. ~many => n = 1 /\ columns[1] = "*" /\ kept = <<"*">>
    BY SelectedAre, ShortsAre, Zenon
  <2>2. Len(kept) = n
    BY ShortsAre, Zenon
  <2> QED BY <2>1, <2>2, Zenon
<1> HIDE DEF x, f, r, b, more, many, Goal, kept
<1>12. CASE Now = Reading("start", <<"SELECT">> \o (Commas(x) \o f), b)
  <2> DEFINE t == Commas(x) \o f
  <2>1. t \in Seq(Spelt)
    <3>1. <<columns[1]>> \o more(1) \in Seq(Spelt)
      BY <1>4
    <3> QED BY <1>4, <3>1, Zenon
  <2> HIDE DEF t
  <2>2. Now = Reading("start", <<"SELECT">> \o t, b)
    BY <1>12 DEF t
  <2>3. at = "start" /\ Tok = "SELECT" /\ stmt = b /\ \A q3, s3 : Take(q3, s3) => Now' = Reading(q3, t, s3)
    BY <1>9, <2>1, <2>2, Taking
  <2>4. Begin
    BY <2>3, NoNull, ByPlace, Zenon
  <2>5. Take("select_first", b)
    BY <2>3, <2>4, Zenon DEF Begin, Commands
  <2>6. Now' = Reading("select_first", t, b)
    BY <2>3, <2>5
  <2> QED BY <1>7, <2>6, Zenon DEF t
<1>13. CASE ~many /\ Now = Reading("select_first", Commas(x) \o f, b)
  <2>1. Now = Reading("select_first", <<"*">> \o f, b)
    BY <1>4, <1>11, <1>13, Zenon
  <2>2. at = "select_first" /\ Tok = "*" /\ stmt = b /\ \A q3, s3 : Take(q3, s3) => Now' = Reading(q3, f, s3)
    BY <1>1, <1>9, <2>1, Taking, ZenonT(60)
  <2>3. SelectStar \/ SelectColumns
    BY <2>2, NoNull, ByPlace, Zenon
  <2>4. SelectStar
    BY <2>2, <2>3, Zenon DEF SelectColumns
  <2>5. Take("from", [b EXCEPT !.select = <<"*">>, !.select_count = 1])
    BY <2>2, <2>4, Zenon DEF SelectStar
  <2>6. Counted(kept) = [b EXCEPT !.select = <<"*">>, !.select_count = 1]
    BY <1>11, <1>13, Zenon DEF Counted, many, b
  <2>7. Now' = Reading("from", f, Counted(kept))
    BY <2>2, <2>5, <2>6, Zenon
  <2> QED BY <1>7, <1>13, <2>7, Zenon
<1>14. CASE many /\ Now = Reading("select_first", Commas(x) \o f, b)
  <2> DEFINE a == columns[1]
             m == more(1)
  <2>1. Now = Reading("select_first", <<a>> \o m, b) /\ a \in Spelt /\ m \in Seq(Spelt)
    BY <1>4, <1>14, Zenon
  <2>2. a # "*" /\ a # "," /\ a # "FROM" /\ a # NULL
    BY <1>3, <1>4, <1>14, Zenon
  <2> HIDE DEF a, m
  <2>3. at = "select_first" /\ Tok = a /\ stmt = b /\ \A q3, s3 : Take(q3, s3) => Now' = Reading(q3, m, s3)
    BY <2>1, Taking
  <2>4. SelectColumns
    <3>1. SelectStar \/ SelectColumns
      BY <2>2, <2>3, ByPlace, Zenon
    <3> QED BY <2>2, <2>3, <3>1, Zenon DEF SelectStar
  <2>5. ~(Len(b.select) >= MaxColumns)
    <3>1. Len(<<>>) = 0
      OBVIOUS
    <3> QED BY <1>6, <1>10, <3>1
  <2>6. Take("select_columns", [b EXCEPT !.select = Append(@, AsColumn(a))])
    BY <2>2, <2>3, <2>4, <2>5, Zenon DEF SelectColumns
  <2>7. Now' = Reading("select_columns", more(1), Chosen(kept, 1))
    BY <1>5, <2>3, <2>6, Zenon DEF a, m
  <2>8. 1 <= MaxColumns /\ 1 \in 1 .. n
    BY <1>4, <1>6
  <2> QED BY <1>7, <1>14, <2>7, <2>8, Zenon
<1>15. CASE ~many /\ Now = Reading("from", f, Counted(kept))
  <2> DEFINE t == <<table>> \o r
  <2>1. Now = Reading("from", <<"FROM">> \o t, Counted(kept)) /\ t \in Seq(Spelt)
    BY <1>1, <1>15
  <2> HIDE DEF t
  <2>2. at = "from" /\ Tok = "FROM" /\ stmt = Counted(kept) /\ \A q3, s3 : Take(q3, s3) => Now' = Reading(q3, t, s3)
    BY <1>1, <2>1, Taking
  <2>3. FromAfterStar
    BY <2>2, NoNull, ByPlace, Zenon
  <2>4. Take("name", Counted(kept))
    BY <2>2, <2>3, Zenon DEF FromAfterStar
  <2>5. Now' = Reading("name", <<table>> \o r, Counted(kept))
    BY <2>2, <2>4, Zenon DEF t
  <2>6. n <= MaxColumns
    BY <1>6, <1>11, <1>15
  <2> QED BY <1>7, <2>5, <2>6, Zenon
<1>16. CASE \E i \in 1 .. n : many /\ i <= MaxColumns /\ Now = Reading("select_columns", more(i), Chosen(kept, i))
  <2>1. PICK i \in 1 .. n : many /\ i <= MaxColumns /\ Now = Reading("select_columns", more(i), Chosen(kept, i))
    BY <1>16
  <2> DEFINE s == Chosen(kept, i)
  <2>2. CASE i = n
    <3> DEFINE t == <<table>> \o r
    <3>1. Now = Reading("select_columns", <<"FROM">> \o t, s) /\ t \in Seq(Spelt)
      BY <1>1, <1>4, <2>1, <2>2, Zenon
    <3> HIDE DEF t, s
    <3>2. at = "select_columns" /\ Tok = "FROM" /\ stmt = s /\ \A q3, s3 : Take(q3, s3) => Now' = Reading(q3, t, s3)
      BY <1>1, <3>1, Taking
    <3>3. SelectColumns
      BY <3>2, NoNull, ByPlace, Zenon
    <3>4. Tok # NULL
      BY <3>2, NoNull, Zenon
    <3>5. Take("name", [s EXCEPT !.select_count = Len(s.select)])
      BY <3>2, <3>3, <3>4, Zenon DEF SelectColumns
    <3>6. Len(s.select) = n /\ [s EXCEPT !.select_count = n] = Counted(kept)
      BY <1>5, <2>1, <2>2 DEF s
    <3>7. Now' = Reading("name", <<table>> \o r, Counted(kept))
      BY <3>2, <3>5, <3>6, Zenon DEF t
    <3> QED BY <1>7, <2>1, <2>2, <3>7, Zenon
  <2>3. CASE i # n
    <3> DEFINE t == <<columns[i + 1]>> \o more(i + 1)
    <3>0. i \in 1 .. n - 1 /\ i + 1 \in 1 .. n /\ i < n
      BY <1>6, <2>1, <2>3
    <3>1. Now = Reading("select_columns", <<",">> \o t, s) /\ t \in Seq(Spelt)
      BY <1>4, <2>1, <3>0, Zenon
    <3> HIDE DEF t, s
    <3>2. at = "select_columns" /\ Tok = "," /\ stmt = s /\ \A q3, s3 : Take(q3, s3) => Now' = Reading(q3, t, s3)
      BY <1>9, <3>1, Taking, Zenon
    <3>3. SelectColumns
      BY <3>2, NoNull, ByPlace, Zenon
    <3>4. Tok # NULL /\ Tok # "FROM"
      BY <3>2, NoNull, Zenon
    <3>5. Take("select_columns", s)
      BY <3>2, <3>3, <3>4, Zenon DEF SelectColumns
    <3>6. Now' = Reading("select_columns", <<columns[i + 1]>> \o more(i + 1), Chosen(kept, i))
      BY <3>2, <3>5, Zenon DEF t, s
    <3> QED BY <1>7, <2>1, <3>0, <3>6, Zenon
  <2> QED BY <2>2, <2>3
<1>17. CASE \E i \in 1 .. n : many /\ i <= MaxColumns /\ i < n
              /\ Now = Reading("select_columns", <<columns[i + 1]>> \o more(i + 1), Chosen(kept, i))
  <2>1. PICK i \in 1 .. n : many /\ i <= MaxColumns /\ i < n
              /\ Now = Reading("select_columns", <<columns[i + 1]>> \o more(i + 1), Chosen(kept, i))
    BY <1>17
  <2> DEFINE s == Chosen(kept, i)
             a == columns[i + 1]
             m == more(i + 1)
  <2>2. i + 1 \in 1 .. n /\ i \in 1 .. n - 1 /\ i \in Nat
    BY <1>6, <2>1
  <2>3. a \in Spelt /\ m \in Seq(Spelt) /\ Now = Reading("select_columns", <<a>> \o m, s)
    BY <1>4, <2>1, <2>2
  <2>4. a # "*" /\ a # "," /\ a # "FROM" /\ a # NULL
    BY <1>3, <2>1, <2>2, Zenon
  <2>5. /\ Len(s.select) = i /\ Nothing(s)
        /\ [s EXCEPT !.select = Append(@, AsColumn(a))] = Chosen(kept, i + 1)
    BY <1>5, <2>1, <2>2
  <2> HIDE DEF s, a, m
  <2>6. at = "select_columns" /\ Tok = a /\ stmt = s /\ \A q3, s3 : Take(q3, s3) => Now' = Reading(q3, m, s3)
    BY <2>3, Taking
  <2>7. SelectColumns
    BY <2>4, <2>6, ByPlace, Zenon
  <2>8. IF Len(s.select) >= MaxColumns THEN Take("done", s)
        ELSE Take("select_columns", [s EXCEPT !.select = Append(@, AsColumn(a))])
    BY <2>4, <2>6, <2>7, Zenon DEF SelectColumns
  <2>9. CASE i >= MaxColumns
    <3>1. Now' = <<"done", m, s, FALSE>>
      BY <2>5, <2>6, <2>8, <2>9, Zenon DEF Reading
    <3>2. Rejected(Now')
      BY <2>5, <3>1, Zenon DEF Rejected
    <3>3. n > MaxColumns
      BY <1>6, <2>1, <2>2, <2>9
    <3> QED BY <1>7, <3>2, <3>3, Zenon
  <2>10. CASE ~(i >= MaxColumns)
    <3>1. Now' = Reading("select_columns", more(i + 1), Chosen(kept, i + 1))
      BY <2>5, <2>6, <2>8, <2>10, Zenon DEF m
    <3>2. i + 1 <= MaxColumns
      BY <1>6, <2>2, <2>10
    <3> QED BY <1>7, <2>1, <2>2, <3>1, <3>2, Zenon
  <2> QED BY <2>9, <2>10
<1>18. CASE n > MaxColumns /\ Rejected(Now)
  <2>1. Rejected(Now')
    BY <1>18, RejectedStep
  <2> QED BY <1>7, <1>18, <2>1, Zenon
<1>19. CASE n <= MaxColumns /\ Now = Reading("name", <<table>> \o r, Counted(kept))
  <2> DEFINE s == Counted(kept)
  <2>1. Now = Reading("name", <<table>> \o r, s) /\ s.type = "SELECT" /\ [s EXCEPT !.table = AsTable(table)] = ChosenFrom(kept, table)
    BY <1>5, <1>19
  <2> HIDE DEF s
  <2>2. Now' = Reading(AfterName[s.type], r, [s EXCEPT !.table = AsTable(table)])
    BY <1>1, <2>1, NameTaken
  <2>3. AfterName["SELECT"] = "join_or_where"
    BY Zenon DEF AfterName
  <2>4. Now' = Reading("join_or_where", r, ChosenFrom(kept, table))
    BY <2>1, <2>2, <2>3, Zenon
  <2>5. JoinScript(j, w, ChosenFrom(kept, table), Now')
    BY <2>4, Zenon DEF JoinScript, r
  <2> QED BY <1>7, <1>19, <2>5, Zenon
<1>20. CASE n <= MaxColumns /\ JoinScript(j, w, ChosenFrom(kept, table), Now)
  <2>1. "join" \in DOMAIN ChosenFrom(kept, table)
    BY DEF ChosenFrom, BlankStatement
  <2>2. JoinScript(j, w, ChosenFrom(kept, table), Now')
    BY <1>20, <2>1, JoinStep
  <2> QED BY <1>7, <1>20, <2>2, Zenon
<1> QED BY <1>8, <1>12, <1>13, <1>14, <1>15, <1>16, <1>17, <1>18, <1>19, <1>20, Zenon

-----------------------------------------------------------------------------
(* DELETE and SHOW TABLES.                                                 *)

\* A list longer than its array leaves too much behind the statement.
TooMuch(now) == \E r \in Seq(Spelt) : \E s : Len(r) >= 2 /\ now = Reading("end", r, s)

\* Tokens behind the end of a statement are an error.
LEMMA TooMuchStep ==
  ASSUME TypeOK, Next, TooMuch(Now)
  PROVE  Rejected(Now')
<1>0. PICK r \in Seq(Spelt) : \E s : Len(r) >= 2 /\ Now = Reading("end", r, s)
  BY DEF TooMuch
<1>1. PICK s : Len(r) >= 2 /\ Now = Reading("end", r, s)
  BY <1>0
<1>2. at = "end" /\ Rest = r
  BY <1>1 DEF Now, Reading
<1>3. Finish
  BY <1>2, ByPlace, Zenon
<1> DEFINE n == Len(text.tokens)
           semicolon == ";"
           rest == IF Tok = semicolon THEN pos + 1 ELSE pos
           extra == rest <= n
<1>4. stmt' = (IF extra THEN Error ELSE stmt) /\ at' = "done" /\ parse_success' = TRUE
  BY <1>3, Zenon DEF Finish
<1> HIDE DEF semicolon
<1>5. text.tokens \in Seq(Vocabulary) /\ n \in Nat /\ pos \in 1 .. n + 1
  BY LenProperties DEF TypeOK
<1>6. Len(Rest) = IF pos <= n THEN n - pos + 1 ELSE 0
  <2> DEFINE x == text.tokens
  <2>1. \A i \in pos .. n : x[i] \in Vocabulary
    <3>1. \A i \in pos .. n : i \in 1 .. Len(x)
      BY <1>5
    <3> QED BY <1>5, <3>1, ElementOfSeq
  <2>2. x \in Seq(Vocabulary) /\ pos \in Int /\ n \in Int
    BY <1>5
  <2> HIDE DEF x, n
  <2>3. Len(SubSeq(x, pos, n)) = IF pos <= n THEN n - pos + 1 ELSE 0
    BY <2>1, <2>2, SubSeqProperties
  <2> QED BY <2>3 DEF Rest, x, n
<1>7. pos + 1 <= n
  <2>1. Len(Rest) >= 2
    BY <1>1, <1>2
  <2> HIDE DEF n
  <2> QED BY <1>5, <1>6, <2>1
<1>8. extra
  BY <1>5, <1>7
<1> HIDE DEF extra
<1>9. stmt' = Error
  BY <1>4, <1>8
<1>10. Error.has_error
  BY DEF TypeOK, Statements, Error
<1>11. Now' = <<"done", Rest', Error, TRUE>>
  BY <1>4, <1>9 DEF Now
<1> QED BY <1>10, <1>11, Zenon DEF Rejected, Nothing

\* The first word.
LEMMA FirstWord ==
  ASSUME TypeOK, Next, NEW t \in {"INSERT", "DELETE", "CREATE", "SHOW", "UPDATE", "DROP"}, NEW r \in Seq(Spelt),
         Now = Reading("start", <<t>> \o r, BlankStatement)
  PROVE  /\ t = "INSERT" => Now' = Reading("insert", r, [BlankStatement EXCEPT !.type = "INSERT"])
         /\ t = "DELETE" => Now' = Reading("delete", r, [BlankStatement EXCEPT !.type = "DELETE"])
         /\ t = "CREATE" => Now' = Reading("create", r, [BlankStatement EXCEPT !.type = "CREATE", !.primary_key_index = -1])
         /\ t = "SHOW" => Now' = Reading("show", r, BlankStatement)
         /\ t = "UPDATE" => Now' = Reading("name", r, [BlankStatement EXCEPT !.type = "UPDATE"])
         /\ t = "DROP" => Now' = Reading("name", r, [BlankStatement EXCEPT !.type = "DROP"])
<1>0. t \in Spelt /\ r \in Seq(Spelt) /\ t # NULL
  BY SpeltWords, NoNull, Zenon
<1>1. at = "start" /\ Tok = t /\ stmt = BlankStatement /\ \A q3, s3 : Take(q3, s3) => Now' = Reading(q3, r, s3)
  BY <1>0, Taking
<1>2. Begin
  BY <1>0, <1>1, ByPlace, Zenon
<1>3. /\ t = "INSERT" => Take("insert", [BlankStatement EXCEPT !.type = "INSERT"])
      /\ t = "DELETE" => Take("delete", [BlankStatement EXCEPT !.type = "DELETE"])
      /\ t = "CREATE" => Take("create", [BlankStatement EXCEPT !.type = "CREATE", !.primary_key_index = -1])
      /\ t = "SHOW" => Take("show", BlankStatement)
      /\ t = "UPDATE" => Take("name", [BlankStatement EXCEPT !.type = "UPDATE"])
      /\ t = "DROP" => Take("name", [BlankStatement EXCEPT !.type = "DROP"])
  BY <1>1, <1>2, Zenon DEF Begin, Commands
<1> QED BY <1>1, <1>3, Zenon

\* A DELETE, as far as it has been read.
Deleting == [BlankStatement EXCEPT !.type = "DELETE"]
DeletingFrom(table) == [BlankStatement EXCEPT !.type = "DELETE", !.table = AsTable(table)]
DeleteScript(table, w, now) ==
  \/ now = Reading("start", <<"DELETE">> \o (<<"FROM">> \o (<<table>> \o FilterText(w))), BlankStatement)
  \/ now = Reading("delete", <<"FROM">> \o (<<table>> \o FilterText(w)), Deleting)
  \/ now = Reading("name", <<table>> \o FilterText(w), Deleting)
  \/ FilterScript(w, DeletingFrom(table), now)

\* parse_delete.
LEMMA DeleteStep ==
  ASSUME TypeOK, Next, NEW table \in TableNames, NEW w \in Filters, DeleteScript(table, w, Now)
  PROVE  DeleteScript(table, w, Now')
<1> DEFINE f == FilterText(w)
           r == <<table>> \o f
           q == <<"FROM">> \o r
<1>1. table \in AnyToken /\ table \in Spelt /\ "FROM" \in Spelt /\ "FROM" # NULL /\ f \in Seq(Spelt)
  BY WrittenAssumption, SpeltWords, NoNull, FilterTextIs, Zenon
<1>2. r \in Seq(Spelt)
  <2> HIDE DEF f
  <2> QED BY <1>1, TokenFirst
<1>3. q \in Seq(Spelt)
  <2> HIDE DEF r
  <2> QED BY <1>1, <1>2, TokenFirst
<1>4. CASE Now = Reading("start", <<"DELETE">> \o q, BlankStatement)
  <2> HIDE DEF q
  <2>1. Now' = Reading("delete", q, Deleting)
    BY <1>3, <1>4, FirstWord DEF Deleting
  <2> QED BY <2>1, Zenon DEF DeleteScript, q
<1>5. CASE Now = Reading("delete", q, Deleting)
  <2>1. Expected["delete"] = <<"FROM", "name">> /\ "delete" \in DOMAIN Expected
    BY Zenon DEF Expected
  <2> HIDE DEF r
  <2>2. Now' = Reading("name", r, Deleting)
    BY <1>1, <1>2, <1>5, <2>1, ExpectTaken
  <2> QED BY <2>2, Zenon DEF DeleteScript, r
<1>6. CASE Now = Reading("name", r, Deleting)
  <2> DEFINE s == Deleting
  <2>1. Deleting.type = "DELETE" /\ [Deleting EXCEPT !.table = AsTable(table)] = DeletingFrom(table)
    BY Zenon DEF Deleting, DeletingFrom, BlankStatement
  <2> HIDE DEF f, s
  <2>2. Now' = Reading(AfterName[s.type], f, [s EXCEPT !.table = AsTable(table)])
    BY <1>1, <1>6, NameTaken DEF s
  <2>3. AfterName["DELETE"] = "where_or_end"
    BY Zenon DEF AfterName
  <2>4. Now' = Reading("where_or_end", f, DeletingFrom(table))
    BY <2>1, <2>2, <2>3, Zenon DEF s
  <2> QED BY <2>4, Zenon DEF DeleteScript, FilterScript, f
<1>7. CASE FilterScript(w, DeletingFrom(table), Now)
  <2>1. FilterScript(w, DeletingFrom(table), Now')
    BY <1>7, FilterStep
  <2> QED BY <2>1, Zenon DEF DeleteScript
<1> QED BY <1>4, <1>5, <1>6, <1>7, Zenon DEF DeleteScript

\* SHOW TABLES.
Showing == [BlankStatement EXCEPT !.type = "SHOW TABLES"]
ShowScript(now) ==
  \/ now = Reading("start", <<"SHOW">> \o (<<"TABLES">> \o End), BlankStatement)
  \/ now = Reading("show", <<"TABLES">> \o End, BlankStatement)
  \/ EndScript(Showing, now)

\* parse_show.
LEMMA ShowStep ==
  ASSUME TypeOK, Next, ShowScript(Now)
  PROVE  ShowScript(Now')
<1> DEFINE r == <<"TABLES">> \o End
<1>1. r \in Seq(Spelt) /\ "TABLES" \in Spelt /\ End \in Seq(Spelt)
  <2>1. End \in Seq(Spelt) /\ "TABLES" \in Spelt
    BY EndIs, SpeltWords, Zenon
  <2> QED BY <2>1, TokenFirst
<1>2. CASE Now = Reading("start", <<"SHOW">> \o r, BlankStatement)
  <2> HIDE DEF r
  <2>1. Now' = Reading("show", r, BlankStatement)
    BY <1>1, <1>2, FirstWord
  <2> QED BY <2>1, Zenon DEF ShowScript, r
<1>3. CASE Now = Reading("show", r, BlankStatement)
  <2> DEFINE b == BlankStatement
  <2> HIDE DEF b
  <2>1. at = "show" /\ Tok = "TABLES" /\ stmt = b /\ \A q3, s3 : Take(q3, s3) => Now' = Reading(q3, End, s3)
    BY <1>1, <1>3, Taking DEF b
  <2>2. Show
    BY <2>1, NoNull, ByPlace, Zenon
  <2>3. Take("end", Showing)
    BY <2>1, <2>2, Zenon DEF Show, Showing, b
  <2> QED BY <2>1, <2>3, Zenon DEF ShowScript, EndScript
<1>4. CASE EndScript(Showing, Now)
  <2>1. EndScript(Showing, Now')
    BY <1>4, EndStep
  <2> QED BY <2>1, Zenon DEF ShowScript
<1> QED BY <1>2, <1>3, <1>4, Zenon DEF ShowScript

-----------------------------------------------------------------------------
(* INSERT: the columns that are skipped, and the values.                   *)

\* An INSERT, as far as it has been read.
Literal(values) == [i \in DOMAIN values |-> Value(values[i])]
Inserting == [BlankStatement EXCEPT !.type = "INSERT"]
InsertingInto(table) == [BlankStatement EXCEPT !.type = "INSERT", !.table = AsTable(table)]
Given(table, values, i) ==
  [BlankStatement EXCEPT !.type = "INSERT", !.table = AsTable(table), !.values = SubSeq(Literal(values), 1, i)]
GivenAll(table, values) ==
  [BlankStatement EXCEPT !.type = "INSERT", !.table = AsTable(table), !.values = Literal(values), !.value_count = Len(values)]

ListEnd == <<")">> \o End
FromOpen(values) == <<"(">> \o (Commas(Listed(values)) \o ListEnd)
FromValues(values) == <<"VALUES">> \o FromOpen(values)

\* Tokens that are skipped up to the parenthesis.
Skippable == (AnyToken \ {")"}) \cup {","}

InsertScript(names, table, values, now) ==
  \/ now = Reading("start", <<"INSERT">> \o (<<"INTO">> \o (<<table>> \o (Skipped(names) \o FromValues(values)))),
                   BlankStatement)
  \/ now = Reading("insert", <<"INTO">> \o (<<table>> \o (Skipped(names) \o FromValues(values))), Inserting)
  \/ now = Reading("name", <<table>> \o (Skipped(names) \o FromValues(values)), Inserting)
  \/ now = Reading("insert_columns", Skipped(names) \o FromValues(values), InsertingInto(table))
  \/ \E u \in Seq(Skippable) : now = Reading("skip", u \o (<<")">> \o FromValues(values)), InsertingInto(table))
  \/ now = Reading("values", FromValues(values), InsertingInto(table))
  \/ now = Reading("values_open", FromOpen(values), InsertingInto(table))
  \/ \E i \in 0 .. Len(values) - 1 :
       /\ i <= MaxColumns
       /\ now = Reading("value", <<values[i + 1]>> \o (More(Listed(values), i + 1) \o ListEnd), Given(table, values, i))
  \/ \E i \in 1 .. Len(values) :
       /\ i <= MaxColumns
       /\ now = Reading("value_next", More(Listed(values), i) \o ListEnd, Given(table, values, i))
  \/ Len(values) > MaxColumns /\ (TooMuch(now) \/ Rejected(now))
  \/ Len(values) <= MaxColumns /\ EndScript(GivenAll(table, values), now)

\* A text one token shorter.
LEMMA FirstOff ==
  ASSUME NEW T, NEW u \in Seq(T), NEW r, u # <<>>, NEW S, T \subseteq S, r \in Seq(S)
  PROVE  u[1] \in T /\ Tail(u) \in Seq(T) /\ u \o r = <<u[1]>> \o (Tail(u) \o r)
<1>1. u[1] \in T /\ Tail(u) \in Seq(T) /\ u = <<u[1]>> \o Tail(u)
  <2>1. /\ Len(u) \in Nat /\ Len(u) >= 1 /\ Tail(u) \in Seq(T)
        /\ Len(Tail(u)) = Len(u) - 1 /\ \A i \in 1 .. Len(Tail(u)) : Tail(u)[i] = u[i + 1]
    BY HeadTailProperties, LenProperties, EmptySeq
  <2>2. u[1] \in T
    BY <2>1, ElementOfSeq
  <2> DEFINE v == Tail(u)
             t == <<u[1]>> \o v
  <2> HIDE DEF v
  <2>3. t \in Seq(T) /\ Len(t) = Len(v) + 1 /\ \A i \in 1 .. Len(v) + 1 : t[i] = IF i = 1 THEN u[1] ELSE v[i - 1]
    BY <2>1, <2>2, PrependShifts DEF v
  <2> HIDE DEF t
  <2>4. Len(t) = Len(u) /\ \A i \in 1 .. Len(u) : t[i] = u[i]
    <3>1. Len(v) = Len(u) - 1 /\ \A i \in 1 .. Len(v) : v[i] = u[i + 1]
      BY <2>1 DEF v
    <3>2. Len(t) = Len(u)
      BY <2>1, <2>3, <3>1
    <3>3. ASSUME NEW i \in 1 .. Len(u) PROVE t[i] = u[i]
      <4>1. CASE i = 1
        BY <2>1, <2>3, <3>1, <4>1
      <4>2. CASE i # 1
        <5>1. i - 1 \in 1 .. Len(v) /\ (i - 1) + 1 = i /\ i \in 1 .. Len(v) + 1
          BY <2>1, <3>1, <4>2
        <5> QED BY <2>3, <3>1, <4>2, <5>1
      <4> QED BY <4>1, <4>2
    <3> QED BY <3>2, <3>3
  <2>5. t = u
    BY <2>3, <2>4, SeqEqual
  <2> QED BY <2>1, <2>2, <2>5 DEF t, v
<1> DEFINE a == <<u[1]>>
           v == Tail(u)
<1>2. a \in Seq(S) /\ v \in Seq(S) /\ u = a \o v
  <2>1. u[1] \in S /\ v \in Seq(S)
    BY <1>1, SeqMonotonic
  <2> QED BY <1>1, <2>1
<1> HIDE DEF a, v
<1>3. (a \o v) \o r = a \o (v \o r)
  BY <1>2, ConcatAssociative, SMTT(60)
<1> QED BY <1>1, <1>2, <1>3 DEF a, v

\* They are tokens, and none is the parenthesis.
LEMMA SkippableIs ==
  /\ Skippable \subseteq Spelt /\ "," \in Skippable
  /\ \A t \in Skippable : t # ")" /\ t # NULL
BY SpeltWords, NoNull, Zenon DEF Skippable

\* The columns that INSERT names are skipped.
LEMMA SkippedAre ==
  ASSUME NEW names \in SkippedLists
  PROVE  /\ Commas(Listed(names)) \in Seq(Skippable) /\ Commas(Listed(names)) \in Seq(Spelt)
         /\ Skipped(names) \in Seq(Spelt)
<1> DEFINE comma == ","
           y == Listed(names)
           z == WithCommas(y)
           n == Len(names)
           S == Skippable
<1>1. names \in Seq(S)
  <2>1. names \in Seq(AnyToken \ {")"}) /\ AnyToken \ {")"} \subseteq S
    BY WrittenAssumption, Zenon DEF Skippable
  <2> DEFINE T == AnyToken \ {")"}
  <2> HIDE DEF T, S
  <2> QED BY <2>1, SeqMonotonic DEF T
<1>2. comma \in S /\ S \subseteq Spelt
  BY SkippableIs, Zenon
<1> HIDE DEF comma, S
<1>3. n \in Nat /\ DOMAIN names = 1 .. n /\ \A i \in 1 .. n : names[i] \in S
  BY <1>1, LenProperties, ElementOfSeq
<1>4. y = [i \in 1 .. n |-> <<names[i]>>]
  BY <1>3 DEF Listed
<1> HIDE DEF y, n
<1>5. DOMAIN y = 1 .. n /\ \A i \in 1 .. n : y[i] = <<names[i]>>
  BY <1>4
<1>6. z = [i \in 1 .. n |-> IF i = 1 THEN y[i] ELSE <<comma>> \o y[i]]
  BY <1>5, Zenon DEF WithCommas, comma
<1> HIDE DEF z
<1>7. \A i \in 1 .. n : <<names[i]>> \in Seq(S) /\ <<comma>> \o <<names[i]>> \in Seq(S)
  <2>1. \A a \in S : <<a>> \in Seq(S)
    OBVIOUS
  <2>2. <<comma>> \in Seq(S)
    BY <1>2, <2>1
  <2>3. \A i \in 1 .. n : <<names[i]>> \in Seq(S)
    BY <1>3, <2>1
  <2> QED BY <2>2, <2>3, ConcatProperties
<1>8. \A i \in 1 .. n : z[i] \in Seq(S)
  BY <1>5, <1>6, <1>7
<1>9. z \in Seq(Seq(S))
  <2>1. z \in [1 .. n -> Seq(S)]
    BY <1>6, <1>8
  <2> QED BY <1>3, <2>1
<1>10. Commas(y) \in Seq(S)
  BY <1>9, EmptySeq, FlattenAppend DEF Commas, z
<1> DEFINE c == Commas(y)
<1>11. c \in Seq(Spelt)
  BY <1>2, <1>10, SeqMonotonic
<1>12. Skipped(names) \in Seq(Spelt)
  <2> DEFINE open == "("
             close == ")"
  <2>1. open \in Spelt /\ close \in Spelt
    BY SpeltWords, Zenon
  <2>2. Skipped(names) = IF names = <<>> THEN <<>> ELSE <<open>> \o c \o <<close>>
    BY Zenon DEF Skipped, y
  <2> HIDE DEF open, close, c
  <2>3. <<open>> \in Seq(Spelt) /\ <<close>> \in Seq(Spelt) /\ <<>> \in Seq(Spelt)
    BY <2>1
  <2>4. <<open>> \o c \in Seq(Spelt)
    BY <1>11, <2>3, ConcatProperties
  <2>5. <<open>> \o c \o <<close>> \in Seq(Spelt)
    BY <2>3, <2>4, ConcatProperties
  <2> QED BY <2>2, <2>3, <2>5, Zenon
<1> QED BY <1>10, <1>11, <1>12, Zenon DEF y, S

\* The columns of an INSERT in their parentheses, or nothing.
LEMMA SkippedText ==
  ASSUME NEW names \in SkippedLists, NEW f \in Seq(Spelt)
  PROVE  /\ names = <<>> => Skipped(names) \o f = f
         /\ names # <<>> => Skipped(names) \o f = <<"(">> \o (Commas(Listed(names)) \o (<<")">> \o f))
         /\ Skipped(names) \o f \in Seq(Spelt)
         /\ <<")">> \o f \in Seq(Spelt)
         /\ Commas(Listed(names)) \o (<<")">> \o f) \in Seq(Spelt)
<1> DEFINE open == "("
           close == ")"
           c == Commas(Listed(names))
           k == Skipped(names)
           g == <<close>> \o f
<1>1. open \in Spelt /\ close \in Spelt /\ c \in Seq(Spelt) /\ k \in Seq(Spelt)
  BY SkippedAre, SpeltWords, Zenon
<1>2. k = IF names = <<>> THEN <<>> ELSE <<open>> \o c \o <<close>>
  BY Zenon DEF Skipped
<1> HIDE DEF open, close, c, k
<1>3. f \in Seq(Spelt) /\ <<open>> \in Seq(Spelt) /\ <<close>> \in Seq(Spelt)
  BY <1>1
<1>4. <<open>> \o c \in Seq(Spelt) /\ g \in Seq(Spelt) /\ k \o f \in Seq(Spelt)
  BY <1>1, <1>3, ConcatProperties
<1>5. c \o g \in Seq(Spelt)
  BY <1>1, <1>4, ConcatProperties
<1>6. names = <<>> => k \o f = f
  BY <1>2, <1>3, ConcatEmptySeq
<1> DEFINE h == <<open>> \o c
<1>7. (h \o <<close>>) \o f = h \o (<<close>> \o f)
  <2> HIDE DEF h
  <2>1. h \in Seq(Spelt) /\ <<close>> \in Seq(Spelt) /\ f \in Seq(Spelt)
    BY <1>3, <1>4 DEF h
  <2> QED BY <2>1, ConcatAssociative, SMTT(60)
<1>8. (<<open>> \o c) \o g = <<open>> \o (c \o g)
  <2> HIDE DEF g
  <2>1. <<open>> \in Seq(Spelt) /\ c \in Seq(Spelt) /\ g \in Seq(Spelt)
    BY <1>1, <1>3, <1>4 DEF g
  <2> QED BY <2>1, ConcatAssociative, SMTT(60)
<1>9. names # <<>> => k \o f = <<open>> \o (c \o g)
  BY <1>2, <1>7, <1>8, Zenon
<1> QED BY <1>4, <1>5, <1>6, <1>9, Zenon DEF open, close, c, k

\* The values of an INSERT.
LEMMA ValuesAre ==
  ASSUME NEW values \in ValueLists
  PROVE  /\ values \in Seq(AnyToken) /\ values \in Seq(Spelt) /\ values # <<>>
         /\ Len(values) \in Nat /\ \A i \in 1 .. Len(values) : values[i] # NULL
<1>1. values \in Seq(AnyToken) /\ values # <<>> /\ AnyToken \subseteq Spelt
  BY WrittenAssumption, SpeltWords, Zenon
<1>2. \A t \in AnyToken : t # NULL
  BY NoNull, Zenon
<1> HIDE DEF AnyToken
<1>3. values \in Seq(Spelt) /\ Len(values) \in Nat /\ \A i \in 1 .. Len(values) : values[i] \in AnyToken
  BY <1>1, SeqMonotonic, LenProperties, ElementOfSeq
<1> QED BY <1>1, <1>2, <1>3

\* Each value that is read is one more of what is inserted.
LEMMA GivenIs ==
  ASSUME NEW values \in ValueLists, NEW table
  PROVE  /\ \A i \in 0 .. Len(values) : Len(Given(table, values, i).values) = i
         /\ \A i \in 0 .. Len(values) - 1 :
              [Given(table, values, i) EXCEPT !.values = Append(@, Value(values[i + 1]))] = Given(table, values, i + 1)
         /\ Given(table, values, 0) = InsertingInto(table)
         /\ [Given(table, values, Len(values)) EXCEPT !.value_count = Len(values)] = GivenAll(table, values)
<1> DEFINE n == Len(values)
           x == Literal(values)
           T == {Value(t) : t \in AnyToken}
<1>1. values \in Seq(AnyToken) /\ n \in Nat
  BY ValuesAre
<1>2. x \in Seq(T) /\ Len(x) = n /\ \A i \in 1 .. n : x[i] = Value(values[i])
  <2> DEFINE V(t) == Value(t)
             A == AnyToken
  <2>1. DOMAIN values = 1 .. n /\ \A i \in 1 .. n : values[i] \in A
    BY <1>1, LenProperties, ElementOfSeq
  <2>2. x = [i \in 1 .. n |-> V(values[i])] /\ \A t \in A : V(t) \in T
    BY <2>1, Zenon DEF Literal
  <2> HIDE DEF V, A, T, x, n
  <2>3. x \in [1 .. n -> T]
    BY <2>1, <2>2
  <2>4. \A i \in 1 .. n : x[i] = V(values[i])
    BY <2>2
  <2>5. x \in Seq(T) /\ Len(x) = n
    BY <1>1, <2>3, LenProperties
  <2> QED BY <2>4, <2>5 DEF V
<1> HIDE DEF T, x
<1>3. /\ SubSeq(x, 1, 0) = <<>> /\ SubSeq(x, 1, n) = x
      /\ \A i \in 0 .. n : Len(SubSeq(x, 1, i)) = i
      /\ \A i \in 0 .. n - 1 : SubSeq(x, 1, i + 1) = Append(SubSeq(x, 1, i), x[i + 1])
  <2>1. /\ SubSeq(x, 1, 0) = <<>> /\ SubSeq(x, 1, Len(x)) = x
        /\ \A i \in 0 .. Len(x) : Len(SubSeq(x, 1, i)) = i
        /\ \A i \in 0 .. Len(x) - 1 : SubSeq(x, 1, i + 1) = Append(SubSeq(x, 1, i), x[i + 1])
    BY <1>2, PrefixIs, Zenon
  <2> HIDE DEF n
  <2> QED BY <1>2, <2>1
<1>4. \A i \in 0 .. n - 1 : SubSeq(x, 1, i + 1) = Append(SubSeq(x, 1, i), Value(values[i + 1]))
  <2>1. \A i \in 0 .. n - 1 : i + 1 \in 1 .. n
    BY <1>1
  <2> QED BY <1>2, <1>3, <2>1, Zenon
<1>5. \A i : Given(table, values, i).values = SubSeq(x, 1, i)
  BY Zenon DEF Given, BlankStatement, x
<1>6. \A i \in 0 .. n : Len(Given(table, values, i).values) = i
  BY <1>3, <1>5, Zenon
<1> DEFINE b == InsertingInto(table)
<1>a. b.values = <<>> /\ "values" \in DOMAIN b /\ b = [k \in DOMAIN b |-> b[k]]
  <2>1. b.values = <<>>
    BY Zenon DEF InsertingInto, BlankStatement
  <2>2. "values" \in DOMAIN b
    BY Zenon DEF InsertingInto, BlankStatement
  <2>3. b = [k \in DOMAIN b |-> b[k]]
    BY Zenon DEF InsertingInto
  <2> QED BY <2>1, <2>2, <2>3
<1>b. \A i : Given(table, values, i) = [b EXCEPT !.values = SubSeq(x, 1, i)]
  BY DEF Given, InsertingInto, x
<1> HIDE DEF b
<1>7. \A a, e : [[b EXCEPT !.values = a] EXCEPT !.values = Append(@, e)] = [b EXCEPT !.values = Append(a, e)]
  BY <1>a
<1>8. \A i \in 0 .. n - 1 :
        [Given(table, values, i) EXCEPT !.values = Append(@, Value(values[i + 1]))] = Given(table, values, i + 1)
  <2> SUFFICES ASSUME NEW i \in 0 .. n - 1
               PROVE  [Given(table, values, i) EXCEPT !.values = Append(@, Value(values[i + 1]))]
                      = Given(table, values, i + 1)
    OBVIOUS
  <2> DEFINE e == Value(values[i + 1])
             p == SubSeq(x, 1, i)
             g == Given(table, values, i)
  <2>1. g = [b EXCEPT !.values = p] /\ Given(table, values, i + 1) = [b EXCEPT !.values = Append(p, e)]
    <3>1. SubSeq(x, 1, i + 1) = Append(p, e)
      BY <1>4
    <3> QED BY <1>b, <3>1, Zenon
  <2> HIDE DEF e, p, g
  <2>2. [g EXCEPT !.values = Append(@, e)] = Given(table, values, i + 1)
    BY <1>7, <2>1
  <2> QED BY <2>2 DEF e, g
<1>9. Given(table, values, 0) = InsertingInto(table)
  <2>1. [b EXCEPT !.values = <<>>] = b
    BY <1>a
  <2> QED BY <1>3, <1>b, <2>1, Zenon DEF b
<1>10. [Given(table, values, n) EXCEPT !.value_count = n] = GivenAll(table, values)
  BY <1>3, Zenon DEF Given, GivenAll, x
<1> QED BY <1>6, <1>8, <1>9, <1>10, Zenon

\* The texts of an INSERT.
LEMMA InsertTexts ==
  ASSUME NEW values \in ValueLists
  PROVE  /\ ListEnd \in Seq(Spelt) /\ ListEnd = <<")">> \o End /\ ListRead(values, ListEnd)
         /\ FromOpen(values) \in Seq(Spelt) /\ FromValues(values) \in Seq(Spelt)
         /\ Commas(Listed(values)) \o ListEnd \in Seq(Spelt)
         /\ Len(ListEnd) >= 1
<1> DEFINE open == "("
           close == ")"
           word == "VALUES"
           f == ListEnd
           c == Commas(Listed(values)) \o f
           o == <<open>> \o c
<1>1. open \in Spelt /\ close \in Spelt /\ word \in Spelt /\ End \in Seq(Spelt)
  BY SpeltWords, EndIs, Zenon
<1>2. f = <<close>> \o End
  BY DEF ListEnd
<1> HIDE DEF open, close, word, f
<1>3. f \in Seq(Spelt) /\ Len(f) >= 1
  <2>1. f \in Seq(Spelt) /\ Len(f) = Len(End) + 1 /\ Len(End) \in Nat
    BY <1>1, <1>2, TokenFirst
  <2> QED BY <2>1
<1>4. ListRead(values, f)
  BY <1>3, ValuesAre, ListText
<1>5. c \in Seq(Spelt)
  <2>1. c = <<values[1]>> \o (More(Listed(values), 1) \o f) /\ 1 \in 1 .. Len(values)
    BY <1>4, Zenon DEF ListRead
  <2>2. \A i \in 1 .. Len(values) : <<values[i]>> \o (More(Listed(values), i) \o f) \in Seq(Spelt)
    BY <1>4, Zenon DEF ListRead
  <2> QED BY <2>1, <2>2, Zenon
<1> HIDE DEF c
<1>6. o \in Seq(Spelt)
  BY <1>1, <1>5, TokenFirst
<1> HIDE DEF o
<1>7. <<word>> \o o \in Seq(Spelt)
  BY <1>1, <1>6, TokenFirst
<1> QED BY <1>2, <1>3, <1>4, <1>5, <1>6, <1>7, Zenon DEF FromOpen, FromValues, open, close, word, f, c, o

\* parse_insert and parse_value_list.
LEMMA InsertStep ==
  ASSUME TypeOK, Next, NEW names \in SkippedLists, NEW table \in TableNames, NEW values \in ValueLists,
         InsertScript(names, table, values, Now)
  PROVE  InsertScript(names, table, values, Now')
<1> DEFINE x == Listed(values)
           n == Len(values)
           fv == FromValues(values)
           fo == FromOpen(values)
           k == Skipped(names) \o fv
           c == Commas(Listed(names)) \o (<<")">> \o fv)
           s == InsertingInto(table)
           g(i) == Given(table, values, i)
           more(i) == More(x, i) \o ListEnd
           Goal == InsertScript(names, table, values, Now')
<1>0. SUFFICES Goal
  OBVIOUS
<1>1. /\ ListEnd \in Seq(Spelt) /\ fo \in Seq(Spelt) /\ fv \in Seq(Spelt) /\ End \in Seq(Spelt)
      /\ Commas(x) \o ListEnd \in Seq(Spelt)
      /\ fv = <<"VALUES">> \o fo /\ fo = <<"(">> \o (Commas(x) \o ListEnd) /\ ListEnd = <<")">> \o End
  BY InsertTexts, EndIs, Zenon DEF FromValues, FromOpen
<1>2. /\ names = <<>> => k = fv
      /\ names # <<>> => k = <<"(">> \o c
      /\ k \in Seq(Spelt) /\ c \in Seq(Spelt) /\ <<")">> \o fv \in Seq(Spelt)
      /\ Commas(Listed(names)) \in Seq(Skippable)
  <2> HIDE DEF fv
  <2> QED BY <1>1, SkippedText, SkippedAre, Zenon
<1>3. /\ n \in Nat /\ n >= 1 /\ 1 \in 1 .. n
      /\ \A i \in 1 .. n : values[i] \in Spelt /\ more(i) \in Seq(Spelt)
      /\ \A i \in 1 .. n : <<values[i]>> \o more(i) \in Seq(Spelt)
      /\ Commas(x) \o ListEnd = <<values[1]>> \o more(1)
      /\ \A i \in 1 .. n - 1 : more(i) = <<",">> \o (<<values[i + 1]>> \o more(i + 1))
      /\ more(n) = ListEnd
      /\ \A i \in 1 .. n : Len(more(i)) >= 1
  BY InsertTexts, Zenon DEF ListRead
<1>4. \A i \in 1 .. n : values[i] # NULL
  BY ValuesAre
<1>5. /\ \A i \in 0 .. n : Len(g(i).values) = i
      /\ \A i \in 0 .. n - 1 : [g(i) EXCEPT !.values = Append(@, Value(values[i + 1]))] = g(i + 1)
      /\ g(0) = s
      /\ [g(n) EXCEPT !.value_count = n] = GivenAll(table, values)
  BY GivenIs, Zenon
<1>6. MaxColumns \in Nat /\ MaxColumns >= 1 /\ n \in Nat
  <2>1. n \in Nat
    BY <1>3, Zenon
  <2> QED BY <2>1, ParserAssumption
<1>7. table \in AnyToken /\ table \in Spelt /\ table # NULL
  BY FromTextIs, WrittenAssumption, SpeltWords, NoNull, Zenon
<1>8. /\ "INTO" \in Spelt /\ "VALUES" \in Spelt /\ "(" \in Spelt /\ ")" \in Spelt /\ "," \in Spelt
      /\ "INTO" # NULL /\ "VALUES" # NULL /\ "(" # NULL /\ ")" # NULL /\ "," # NULL
  BY SpeltWords, NoNull, Zenon
<1>9. /\ \/ Now' = Reading("insert", <<"INTO">> \o (<<table>> \o k), Inserting)
         \/ Now' = Reading("name", <<table>> \o k, Inserting)
         \/ Now' = Reading("insert_columns", k, s)
         \/ Now' = Reading("values", fv, s)
         \/ Now' = Reading("values_open", fo, s)
         => Goal
      /\ \A u \in Seq(Skippable) : Now' = Reading("skip", u \o (<<")">> \o fv), s) => Goal
      /\ \A i \in 0 .. n - 1 : i <= MaxColumns /\ Now' = Reading("value", <<values[i + 1]>> \o more(i + 1), g(i)) => Goal
      /\ \A i \in 1 .. n : i <= MaxColumns /\ Now' = Reading("value_next", more(i), g(i)) => Goal
      /\ n > MaxColumns /\ (TooMuch(Now') \/ Rejected(Now')) => Goal
      /\ n <= MaxColumns /\ EndScript(GivenAll(table, values), Now') => Goal
  BY Zenon DEF InsertScript
<1>10. \/ Now = Reading("start", <<"INSERT">> \o (<<"INTO">> \o (<<table>> \o k)), BlankStatement)
       \/ Now = Reading("insert", <<"INTO">> \o (<<table>> \o k), Inserting)
       \/ Now = Reading("name", <<table>> \o k, Inserting)
       \/ Now = Reading("insert_columns", k, s)
       \/ \E u \in Seq(Skippable) : Now = Reading("skip", u \o (<<")">> \o fv), s)
       \/ Now = Reading("values", fv, s)
       \/ Now = Reading("values_open", fo, s)
       \/ \E i \in 0 .. n - 1 : i <= MaxColumns /\ Now = Reading("value", <<values[i + 1]>> \o more(i + 1), g(i))
       \/ \E i \in 1 .. n : i <= MaxColumns /\ Now = Reading("value_next", more(i), g(i))
       \/ n > MaxColumns /\ (TooMuch(Now) \/ Rejected(Now))
       \/ n <= MaxColumns /\ EndScript(GivenAll(table, values), Now)
  BY Zenon DEF InsertScript
<1>11. <<table>> \o k \in Seq(Spelt)
  <2> HIDE DEF k
  <2> QED BY <1>2, <1>7, TokenFirst
<1>12. <<"INTO">> \o (<<table>> \o k) \in Seq(Spelt)
  <2> DEFINE t == <<table>> \o k
  <2> HIDE DEF t
  <2>1. t \in Seq(Spelt)
    BY <1>11 DEF t
  <2>2. <<"INTO">> \o t \in Seq(Spelt)
    BY <1>8, <2>1, TokenFirst
  <2> QED BY <2>2 DEF t
<1> HIDE DEF x, n, fv, fo, k, c, s, g, more, Goal
<1>13. CASE Now = Reading("start", <<"INSERT">> \o (<<"INTO">> \o (<<table>> \o k)), BlankStatement)
  <2> DEFINE t == <<"INTO">> \o (<<table>> \o k)
  <2>1. t \in Seq(Spelt) /\ Now = Reading("start", <<"INSERT">> \o t, BlankStatement)
    BY <1>12, <1>13
  <2> HIDE DEF t
  <2>2. Now' = Reading("insert", t, [BlankStatement EXCEPT !.type = "INSERT"])
    BY <2>1, FirstWord
  <2> QED BY <1>9, <2>2, Zenon DEF Inserting, t
<1>14. CASE Now = Reading("insert", <<"INTO">> \o (<<table>> \o k), Inserting)
  <2> DEFINE t == <<table>> \o k
             b == Inserting
  <2>1. Expected["insert"] = <<"INTO", "name">> /\ "insert" \in DOMAIN Expected
    BY Zenon DEF Expected
  <2>2. t \in Seq(Spelt) /\ Now = Reading("insert", <<"INTO">> \o t, b)
    BY <1>11, <1>14
  <2> HIDE DEF t, b
  <2>3. Now' = Reading("name", t, b)
    BY <1>8, <2>1, <2>2, ExpectTaken
  <2> QED BY <1>9, <2>3, Zenon DEF t, b
<1>15. CASE Now = Reading("name", <<table>> \o k, Inserting)
  <2> DEFINE b == Inserting
  <2>1. b.type = "INSERT" /\ [b EXCEPT !.table = AsTable(table)] = s
    BY Zenon DEF Inserting, InsertingInto, BlankStatement, s
  <2> HIDE DEF b
  <2>2. Now' = Reading(AfterName[b.type], k, [b EXCEPT !.table = AsTable(table)])
    BY <1>2, <1>7, <1>15, NameTaken DEF b
  <2>3. AfterName["INSERT"] = "insert_columns"
    BY Zenon DEF AfterName
  <2>4. Now' = Reading("insert_columns", k, s)
    BY <2>1, <2>2, <2>3, Zenon
  <2> QED BY <1>9, <2>4, Zenon
<1>16. CASE Now = Reading("insert_columns", k, s) /\ names = <<>>
  <2> DEFINE word == "VALUES"
  <2>1. Now = Reading("insert_columns", <<word>> \o fo, s) /\ word \in Spelt /\ fo \in Seq(Spelt)
    BY <1>1, <1>2, <1>8, <1>16, Zenon
  <2>2. word # NULL /\ word # "("
    BY <1>8, Zenon
  <2> HIDE DEF word
  <2>3. at = "insert_columns" /\ Tok = word /\ stmt = s /\ \A q3, s3 : Peek(q3, s3) => Now' = Reading(q3, <<word>> \o fo, s3)
    BY <2>1, Taking
  <2>4. InsertColumns
    BY <2>2, <2>3, ByPlace, Zenon
  <2>5. Peek("values", s)
    BY <2>2, <2>3, <2>4, Zenon DEF InsertColumns
  <2>6. Now' = Reading("values", fv, s)
    BY <1>1, <2>3, <2>5, Zenon DEF word
  <2> QED BY <1>9, <2>6, Zenon
<1>17. CASE Now = Reading("insert_columns", k, s) /\ names # <<>>
  <2> DEFINE open == "("
  <2>1. Now = Reading("insert_columns", <<open>> \o c, s) /\ open \in Spelt /\ c \in Seq(Spelt)
    BY <1>2, <1>8, <1>17, Zenon
  <2> HIDE DEF open
  <2>3. at = "insert_columns" /\ Tok = open /\ stmt = s /\ \A q3, s3 : Take(q3, s3) => Now' = Reading(q3, c, s3)
    BY <2>1, Taking
  <2>4. InsertColumns
    BY <1>8, <2>3, ByPlace, Zenon DEF open
  <2>5. Take("skip", s)
    BY <2>3, <2>4, Zenon DEF InsertColumns, open
  <2>6. Now' = Reading("skip", Commas(Listed(names)) \o (<<")">> \o fv), s)
    BY <2>3, <2>5, Zenon DEF c
  <2> QED BY <1>2, <1>9, <2>6, Zenon
<1>18. CASE \E u \in Seq(Skippable) : Now = Reading("skip", u \o (<<")">> \o fv), s)
  <2> DEFINE close == ")"
             f == <<close>> \o fv
  <2>1. PICK u \in Seq(Skippable) : Now = Reading("skip", u \o f, s)
    BY <1>18
  <2>2. f \in Seq(Spelt) /\ close \in Spelt /\ close # NULL
    BY <1>2, <1>8, Zenon
  <2> HIDE DEF close
  <2>3. CASE u = <<>>
    <3>1. u \o f = f
      <4> HIDE DEF f
      <4> QED BY <2>2, <2>3, ConcatEmptySeq
    <3>2. Now = Reading("skip", <<close>> \o fv, s) /\ close \in Spelt /\ fv \in Seq(Spelt)
      BY <1>1, <2>1, <2>2, <3>1
    <3>3. at = "skip" /\ Tok = close /\ stmt = s /\ \A q3, s3 : Take(q3, s3) => Now' = Reading(q3, fv, s3)
      BY <3>2, Taking
    <3>4. InsertColumns
      BY <2>2, <3>3, ByPlace, Zenon
    <3>5. Take("values", s)
      BY <3>3, <3>4, Zenon DEF InsertColumns, close
    <3>6. Now' = Reading("values", fv, s)
      BY <3>3, <3>5
    <3> QED BY <1>9, <3>6, Zenon
  <2>4. CASE u # <<>>
    <3> DEFINE a == u[1]
               v == Tail(u)
               t == v \o f
    <3>1. a \in Skippable /\ v \in Seq(Skippable) /\ u \o f = <<a>> \o t
      <4>1. Skippable \subseteq Spelt
        BY SkippableIs, Zenon
      <4> HIDE DEF f
      <4> QED BY <2>2, <2>4, <4>1, FirstOff
    <3>2. a \in Spelt /\ a # close /\ a # NULL
      BY <3>1, SkippableIs, Zenon DEF close
    <3>3. t \in Seq(Spelt)
      <4>1. Skippable \subseteq Spelt
        BY SkippableIs, Zenon
      <4>2. v \in Seq(Spelt)
        <5> HIDE DEF v, f, t, a
        <5> QED BY <3>1, <4>1, SeqMonotonic
      <4> HIDE DEF v, f
      <4> QED BY <2>2, <4>2, ConcatProperties
    <3>4. Now = Reading("skip", <<a>> \o t, s)
      BY <2>1, <3>1
    <3> HIDE DEF a, t, v, f
    <3>5. at = "skip" /\ Tok = a /\ stmt = s /\ \A q3, s3 : Take(q3, s3) => Now' = Reading(q3, t, s3)
      BY <3>2, <3>3, <3>4, Taking
    <3>6. InsertColumns
      BY <3>2, <3>5, ByPlace, Zenon
    <3>7. Take("skip", s)
      BY <3>2, <3>5, <3>6, Zenon DEF InsertColumns, close
    <3>8. Now' = Reading("skip", v \o (<<")">> \o fv), s)
      BY <3>5, <3>7, Zenon DEF t, f, close
    <3> QED BY <1>9, <3>1, <3>8, Zenon
  <2> QED BY <2>3, <2>4
<1>19. CASE Now = Reading("values", fv, s)
  <2> DEFINE word == "VALUES"
  <2>1. Expected["values"] = <<word, "values_open">> /\ "values" \in DOMAIN Expected
    BY Zenon DEF Expected
  <2>2. Now = Reading("values", <<word>> \o fo, s) /\ word \in Spelt /\ word # NULL /\ fo \in Seq(Spelt)
    BY <1>1, <1>8, <1>19, Zenon
  <2> HIDE DEF word
  <2>3. Now' = Reading("values_open", fo, s)
    BY <2>1, <2>2, ExpectTaken
  <2> QED BY <1>9, <2>3, Zenon
<1>20. CASE Now = Reading("values_open", fo, s)
  <2> DEFINE open == "("
             t == Commas(x) \o ListEnd
  <2>1. Expected["values_open"] = <<open, "value">> /\ "values_open" \in DOMAIN Expected
    BY Zenon DEF Expected
  <2>2. Now = Reading("values_open", <<open>> \o t, s) /\ open \in Spelt /\ open # NULL /\ t \in Seq(Spelt)
    BY <1>1, <1>8, <1>20, Zenon
  <2> HIDE DEF open, t
  <2>3. Now' = Reading("value", t, s)
    BY <2>1, <2>2, ExpectTaken
  <2>4. Now' = Reading("value", <<values[1]>> \o more(1), g(0))
    BY <1>3, <1>5, <2>3, Zenon DEF t
  <2>5. 0 \in 0 .. n - 1 /\ 0 + 1 = 1 /\ 0 <= MaxColumns
    <3>1. n >= 1
      BY <1>3, Zenon
    <3> QED BY <1>6, <3>1
  <2>6. Now' = Reading("value", <<values[0 + 1]>> \o more(0 + 1), g(0))
    BY <2>4, <2>5, Zenon
  <2> QED BY <1>9, <2>5, <2>6, Zenon
<1>21. CASE \E i \in 0 .. n - 1 : i <= MaxColumns /\ Now = Reading("value", <<values[i + 1]>> \o more(i + 1), g(i))
  <2>1. PICK i \in 0 .. n - 1 : i <= MaxColumns /\ Now = Reading("value", <<values[i + 1]>> \o more(i + 1), g(i))
    BY <1>21
  <2> DEFINE a == values[i + 1]
             m == more(i + 1)
             p == g(i)
             q == g(i + 1)
  <2>2. i + 1 \in 1 .. n /\ i \in 0 .. n /\ i \in 0 .. n - 1 /\ i \in Nat
    BY <1>6, <2>1
  <2>3. a \in Spelt /\ m \in Seq(Spelt) /\ Now = Reading("value", <<a>> \o m, p) /\ Len(m) >= 1
    BY <1>3, <2>1, <2>2, Zenon
  <2>4. a # NULL /\ <<a>> \o m \in Seq(Spelt)
    BY <1>3, <1>4, <2>2, Zenon
  <2>5. Len(p.values) = i /\ [p EXCEPT !.values = Append(@, Value(a))] = q
    BY <1>5, <2>2, Zenon
  <2> HIDE DEF a, m, p, q
  <2>6. at = "value" /\ Tok = a /\ stmt = p
        /\ (\A q3, s3 : Take(q3, s3) => Now' = Reading(q3, m, s3))
        /\ (\A q3, s3 : Peek(q3, s3) => Now' = Reading(q3, <<a>> \o m, s3))
    BY <2>3, Taking
  <2>7. InsertValue
    BY <2>4, <2>6, ByPlace, Zenon
  <2>8. IF i = MaxColumns THEN Peek("end", [p EXCEPT !.value_count = MaxColumns]) ELSE Take("value_next", q)
    BY <2>5, <2>6, <2>7, Zenon DEF InsertValue, ValuesFull
  <2>9. CASE i = MaxColumns
    <3> DEFINE t == <<a>> \o m
    <3>1. t \in Seq(Spelt) /\ Len(t) >= 2
      <4>1. Len(t) = Len(m) + 1 /\ Len(m) \in Nat /\ t \in Seq(Spelt)
        BY <2>3, TokenFirst
      <4> HIDE DEF t
      <4> QED BY <2>3, <4>1
    <3> HIDE DEF t
    <3>2. Now' = Reading("end", t, [p EXCEPT !.value_count = MaxColumns])
      BY <2>6, <2>8, <2>9, Zenon DEF t
    <3>3. TooMuch(Now')
      BY <3>1, <3>2, Zenon DEF TooMuch
    <3>4. n > MaxColumns
      BY <1>6, <2>2, <2>9
    <3> QED BY <1>9, <3>3, <3>4, Zenon
  <2>10. CASE i # MaxColumns
    <3>1. Now' = Reading("value_next", more(i + 1), g(i + 1))
      BY <2>6, <2>8, <2>10, Zenon DEF m, q
    <3>2. i + 1 <= MaxColumns
      BY <1>6, <2>1, <2>2, <2>10
    <3> QED BY <1>9, <2>2, <3>1, <3>2, Zenon
  <2> QED BY <2>9, <2>10
<1>22. CASE \E i \in 1 .. n : i <= MaxColumns /\ Now = Reading("value_next", more(i), g(i))
  <2>1. PICK i \in 1 .. n : i <= MaxColumns /\ Now = Reading("value_next", more(i), g(i))
    BY <1>22
  <2> DEFINE p == g(i)
  <2>2. CASE i = n
    <3> DEFINE close == ")"
    <3>1. Now = Reading("value_next", <<close>> \o End, p) /\ close \in Spelt /\ close # NULL /\ close # ","
      BY <1>1, <1>3, <1>8, <2>1, <2>2, Zenon
    <3>2. Len(p.values) = n /\ [p EXCEPT !.value_count = n] = GivenAll(table, values) /\ n <= MaxColumns
      <4>1. n \in 0 .. n
        BY <1>6
      <4> QED BY <1>5, <2>1, <2>2, <4>1, Zenon
    <3> HIDE DEF close, p
    <3>3. at = "value_next" /\ Tok = close /\ stmt = p /\ \A q3, s3 : Take(q3, s3) => Now' = Reading(q3, End, s3)
      BY <1>1, <3>1, Taking
    <3>4. InsertNext
      BY <3>1, <3>3, ByPlace, Zenon
    <3>5. Take("end", [p EXCEPT !.value_count = Len(p.values)])
      BY <3>1, <3>3, <3>4, Zenon DEF InsertNext, close
    <3>6. Now' = Reading("end", End, GivenAll(table, values))
      BY <3>2, <3>3, <3>5, Zenon
    <3> QED BY <1>9, <3>2, <3>6, Zenon DEF EndScript
  <2>3. CASE i # n
    <3> DEFINE comma == ","
               t == <<values[i + 1]>> \o more(i + 1)
    <3>0. i \in 1 .. n - 1 /\ i + 1 \in 1 .. n /\ i \in 0 .. n - 1
      BY <1>6, <2>1, <2>3
    <3>1. Now = Reading("value_next", <<comma>> \o t, p) /\ t \in Seq(Spelt) /\ comma \in Spelt /\ comma # NULL
      BY <1>3, <1>8, <2>1, <3>0, Zenon
    <3> HIDE DEF t, p, comma
    <3>2. at = "value_next" /\ Tok = comma /\ stmt = p /\ \A q3, s3 : Take(q3, s3) => Now' = Reading(q3, t, s3)
      BY <3>1, Taking
    <3>3. InsertNext
      BY <3>1, <3>2, ByPlace, Zenon
    <3>4. Take("value", p)
      BY <3>2, <3>3, Zenon DEF InsertNext, comma
    <3>5. Now' = Reading("value", <<values[i + 1]>> \o more(i + 1), g(i))
      BY <3>2, <3>4, Zenon DEF t, p
    <3> QED BY <1>9, <2>1, <3>0, <3>5, Zenon
  <2> QED BY <2>2, <2>3
<1>23. CASE n > MaxColumns /\ (TooMuch(Now) \/ Rejected(Now))
  <2>1. Rejected(Now')
    BY <1>23, RejectedStep, TooMuchStep
  <2> QED BY <1>9, <1>23, <2>1, Zenon
<1>24. CASE n <= MaxColumns /\ EndScript(GivenAll(table, values), Now)
  <2>1. EndScript(GivenAll(table, values), Now')
    BY <1>24, EndStep
  <2> QED BY <1>9, <1>24, <2>1, Zenon
<1> QED BY <1>10, <1>13, <1>14, <1>15, <1>16, <1>17, <1>18, <1>19, <1>20, <1>21, <1>22, <1>23, <1>24, Zenon

-----------------------------------------------------------------------------
(* DROP TABLE: TABLE is taken for the table's name.                        *)

\* A DROP, as far as it is read.
Dropping == [BlankStatement EXCEPT !.type = "DROP"]
DropScript(table, now) ==
  \/ now = Reading("start", <<"DROP">> \o (<<"TABLE">> \o (<<table>> \o End)), BlankStatement)
  \/ now = Reading("name", <<"TABLE">> \o (<<table>> \o End), Dropping)
  \/ TooMuch(now)
  \/ Rejected(now)

\* parse_drop_table.
LEMMA DropStep ==
  ASSUME TypeOK, Next, NEW table \in TableNames, DropScript(table, Now)
  PROVE  DropScript(table, Now')
<1> DEFINE r == <<table>> \o End
           word == "TABLE"
           q == <<word>> \o r
<1>1. table \in Spelt /\ word \in Spelt /\ word # NULL /\ End \in Seq(Spelt) /\ Len(End) = 1
  BY WrittenAssumption, SpeltWords, NoNull, EndIs, Zenon
<1> HIDE DEF word
<1>2. r \in Seq(Spelt) /\ Len(r) >= 2
  <2>1. r \in Seq(Spelt) /\ Len(r) = Len(End) + 1
    BY <1>1, TokenFirst
  <2> HIDE DEF r
  <2> QED BY <1>1, <2>1
<1> HIDE DEF r
<1>3. q \in Seq(Spelt)
  BY <1>1, <1>2, TokenFirst
<1>4. CASE Now = Reading("start", <<"DROP">> \o q, BlankStatement)
  <2> HIDE DEF q
  <2>1. Now' = Reading("name", q, Dropping)
    BY <1>3, <1>4, FirstWord DEF Dropping
  <2> QED BY <2>1, Zenon DEF DropScript, q, r, word
<1>5. CASE Now = Reading("name", q, Dropping)
  <2> DEFINE s == Dropping
  <2>1. s.type = "DROP" /\ AfterName["DROP"] = "end"
    BY Zenon DEF Dropping, BlankStatement, AfterName
  <2> HIDE DEF s
  <2>2. at = "name" /\ Tok = word /\ stmt = s /\ \A q3, s3 : Take(q3, s3) => Now' = Reading(q3, r, s3)
    BY <1>1, <1>2, <1>5, Taking DEF s
  <2>3. TableName
    BY <1>1, <2>2, ByPlace, Zenon
  <2>4. Take("end", [s EXCEPT !.table = AsTable(word)])
    BY <2>1, <2>2, <2>3, Zenon DEF TableName
  <2>5. Now' = Reading("end", r, [s EXCEPT !.table = AsTable(word)])
    BY <2>2, <2>4, Zenon
  <2> QED BY <1>2, <2>5, Zenon DEF DropScript, TooMuch
<1>6. CASE TooMuch(Now)
  BY <1>6, TooMuchStep, Zenon DEF DropScript
<1>7. CASE Rejected(Now)
  BY <1>7, RejectedStep, Zenon DEF DropScript
<1> QED BY <1>4, <1>5, <1>6, <1>7, Zenon DEF DropScript, q, r, word

-----------------------------------------------------------------------------
(* UPDATE: what is set, and why only one without WHERE that fills its      *)
(* array is taken.                                                         *)

SetTexts(sets) == [i \in DOMAIN sets |-> SetText(sets[i])]
SetNames(sets) == [i \in DOMAIN sets |-> AsColumn(sets[i][1])]
SetLiterals(sets) == [i \in DOMAIN sets |-> Value(sets[i][2])]

\* An UPDATE with i columns and j values read.
Updating == [BlankStatement EXCEPT !.type = "UPDATE"]
UpdatingTable(table) == [BlankStatement EXCEPT !.type = "UPDATE", !.table = AsTable(table)]
Setting(table, sets, i, j) ==
  [BlankStatement EXCEPT !.type = "UPDATE", !.table = AsTable(table),
     !.set_columns = SubSeq(SetNames(sets), 1, i), !.set_values = SubSeq(SetLiterals(sets), 1, j)]
AllSet(table, sets) ==
  [BlankStatement EXCEPT !.type = "UPDATE", !.table = AsTable(table),
     !.set_columns = SetNames(sets), !.set_values = SetLiterals(sets), !.set_count = Len(sets)]

\* What follows the i-th item; its value and what follows; its equals sign and those.
AfterSet(sets, w, i) == More(SetTexts(sets), i) \o FilterText(w)
FromSetValue(sets, w, i) == <<sets[i][2]>> \o AfterSet(sets, w, i)
FromEquals(sets, w, i) == <<"=">> \o FromSetValue(sets, w, i)
FromSets(sets, w) == Commas(SetTexts(sets)) \o FilterText(w)

\* It can only end well without WHERE, and with the array full.
Fits(sets, w) == w = <<>> /\ Len(sets) = MaxColumns

\* No WHERE stands where another one is looked for.
OffTrack(now) ==
  \E a \in Spelt, r \in Seq(Spelt) : \E s :
    a # NULL /\ a # "WHERE" /\ Len(r) >= 1 /\ now = Reading("where_or_end", <<a>> \o r, s)

UpdateScript(table, sets, w, now) ==
  \/ now = Reading("start", <<"UPDATE">> \o (<<table>> \o (<<"SET">> \o FromSets(sets, w))), BlankStatement)
  \/ now = Reading("name", <<table>> \o (<<"SET">> \o FromSets(sets, w)), Updating)
  \/ now = Reading("set", <<"SET">> \o FromSets(sets, w), UpdatingTable(table))
  \/ \E i \in 1 .. Len(sets) :
       /\ i <= MaxColumns + 1
       /\ now = Reading("set_column", <<sets[i][1]>> \o FromEquals(sets, w, i), Setting(table, sets, i - 1, i - 1))
  \/ \E i \in 1 .. Len(sets) :
       /\ i <= MaxColumns
       /\ \/ now = Reading("set_equals", FromEquals(sets, w, i), Setting(table, sets, i, i - 1))
          \/ now = Reading("set_value", FromSetValue(sets, w, i), Setting(table, sets, i, i - 1))
          \/ now = Reading("set_next", AfterSet(sets, w, i), Setting(table, sets, i, i))
  \/ /\ w = <<>> /\ Len(sets) <= MaxColumns
     /\ now = Reading("set_column", End, Setting(table, sets, Len(sets), Len(sets)))
  \/ /\ ~Fits(sets, w)
     /\ \/ OffTrack(now)
        \/ TooMuch(now)
        \/ \E s : now = Reading("set_equals", <<>>, s)
        \/ Rejected(now)
  \/ Fits(sets, w) /\ FilterScript(w, AllSet(table, sets), now)

\* The items of SET, token by token.
LEMMA SetsAre ==
  ASSUME NEW sets \in SetLists
  PROVE  /\ Len(sets) \in Nat /\ Len(sets) >= 1 /\ DOMAIN sets = 1 .. Len(sets)
         /\ \A i \in 1 .. Len(sets) :
              /\ sets[i][1] \in Spelt /\ sets[i][1] # NULL /\ sets[i][1] # "WHERE"
              /\ sets[i][2] \in Spelt /\ sets[i][2] # NULL
         /\ SetTexts(sets) \in Seq(Seq(Spelt)) /\ Len(SetTexts(sets)) = Len(sets) /\ SetTexts(sets) # <<>>
         /\ \A i \in 1 .. Len(sets) : SetTexts(sets)[i] = <<sets[i][1], "=", sets[i][2]>>
<1> DEFINE A == AnyToken \ {"WHERE"}
           B == AnyToken
           n == Len(sets)
           x == SetTexts(sets)
           equals == "="
<1>1. sets \in Seq(A \X B) /\ sets # <<>>
  BY WrittenAssumption, Zenon
<1>2. /\ A \subseteq Spelt /\ B \subseteq Spelt /\ equals \in Spelt
      /\ \A t \in A : t # NULL /\ t # "WHERE"
      /\ \A t \in B : t # NULL
  BY SpeltWords, NoNull, Zenon
<1>3. \A i : SetText(sets[i]) = <<sets[i][1], equals, sets[i][2]>>
  BY DEF SetText
<1> HIDE DEF A, B, equals
<1>4. n \in Nat /\ DOMAIN sets = 1 .. n /\ \A i \in 1 .. n : sets[i] \in A \X B
  BY <1>1, LenProperties, ElementOfSeq
<1>5. n >= 1
  <2>1. n # 0
    BY <1>1, EmptySeq
  <2> QED BY <1>4, <2>1
<1>6. \A i \in 1 .. n : sets[i][1] \in A /\ sets[i][2] \in B
  BY <1>4
<1>7. \A i \in 1 .. n : <<sets[i][1], equals, sets[i][2]>> \in Seq(Spelt)
  <2>1. \A a, b \in Spelt : <<a, equals, b>> \in Seq(Spelt)
    BY <1>2
  <2>2. \A i \in 1 .. n : sets[i][1] \in Spelt /\ sets[i][2] \in Spelt
    BY <1>2, <1>6, Zenon
  <2> QED BY <2>1, <2>2, Zenon
<1>8. x = [i \in 1 .. n |-> <<sets[i][1], equals, sets[i][2]>>]
  BY <1>3, <1>4, Zenon DEF SetTexts
<1>9. \A i \in 1 .. n : x[i] = <<sets[i][1], equals, sets[i][2]>> /\ x[i] \in Seq(Spelt)
  <2> HIDE DEF n
  <2> QED BY <1>7, <1>8
<1>10. x \in [1 .. n -> Seq(Spelt)]
  BY <1>8, <1>7
<1> HIDE DEF x, n
<1>11. x \in Seq(Seq(Spelt)) /\ Len(x) = n
  BY <1>4, <1>10, LenProperties
<1>12. x # <<>>
  BY <1>5, <1>11, EmptySeq
<1>13. \A i \in 1 .. n : x[i] = <<sets[i][1], "=", sets[i][2]>>
  BY <1>9, Zenon DEF equals
<1> QED BY <1>2, <1>4, <1>5, <1>6, <1>11, <1>12, <1>13, Zenon DEF n, x

\* What is left of an UPDATE, place by place.
LEMMA SetsText ==
  ASSUME NEW sets \in SetLists, NEW w \in Filters
  PROVE  /\ FilterText(w) \in Seq(Spelt) /\ Len(FilterText(w)) >= 1
         /\ \A i \in 1 .. Len(sets) :
              /\ AfterSet(sets, w, i) \in Seq(Spelt) /\ Len(AfterSet(sets, w, i)) >= 1
              /\ FromSetValue(sets, w, i) \in Seq(Spelt) /\ FromEquals(sets, w, i) \in Seq(Spelt)
              /\ Len(FromEquals(sets, w, i)) >= 1
              /\ <<sets[i][1]>> \o FromEquals(sets, w, i) \in Seq(Spelt)
         /\ FromSets(sets, w) = <<sets[1][1]>> \o FromEquals(sets, w, 1)
         /\ FromSets(sets, w) \in Seq(Spelt)
         /\ \A i \in 1 .. Len(sets) - 1 :
              AfterSet(sets, w, i) = <<",">> \o (<<sets[i + 1][1]>> \o FromEquals(sets, w, i + 1))
         /\ AfterSet(sets, w, Len(sets)) = FilterText(w)
<1> DEFINE x == SetTexts(sets)
           n == Len(sets)
           f == FilterText(w)
           equals == "="
           comma == ","
           a(i) == AfterSet(sets, w, i)
           v(i) == FromSetValue(sets, w, i)
           e(i) == FromEquals(sets, w, i)
           t(i) == <<sets[i][1]>> \o e(i)
<1>0. \A k \in Nat : k + 1 >= 1
  OBVIOUS
<1>1. f \in Seq(Spelt) /\ Len(f) >= 1
  <2>1. PICK c \in {";", "WHERE"}, r \in Seq(Spelt) : f = <<c>> \o r
    BY FilterFirst, Zenon
  <2>2. c \in Spelt
    BY <2>1, SpeltWords, Zenon
  <2> HIDE DEF f
  <2>3. f \in Seq(Spelt) /\ Len(f) = Len(r) + 1 /\ Len(r) \in Nat
    BY <2>1, <2>2, TokenFirst
  <2> QED BY <1>0, <2>3, Zenon
<1>2. /\ n \in Nat /\ n >= 1
      /\ \A i \in 1 .. n : sets[i][1] \in Spelt /\ sets[i][2] \in Spelt
      /\ x \in Seq(Seq(Spelt)) /\ Len(x) = n /\ x # <<>>
      /\ \A i \in 1 .. n : x[i] = <<sets[i][1], equals, sets[i][2]>>
  BY SetsAre, Zenon
<1>3. equals \in Spelt /\ comma \in Spelt
  BY SpeltWords, Zenon
<1>4. /\ \A i \in 1 .. n : a(i) \in Seq(Spelt) /\ Len(a(i)) >= 1
      /\ FromSets(sets, w) = x[1] \o a(1)
      /\ \A i \in 1 .. n - 1 : a(i) = <<comma>> \o (x[i + 1] \o a(i + 1))
      /\ a(n) = f
  <2> HIDE DEF x, f, n
  <2>1. /\ \A i \in 1 .. n : More(x, i) \o f \in Seq(Spelt)
        /\ Commas(x) \o f = x[1] \o (More(x, 1) \o f)
        /\ \A i \in 1 .. n - 1 : More(x, i) \o f = <<comma>> \o (x[i + 1] \o (More(x, i + 1) \o f))
        /\ More(x, n) \o f = f
        /\ \A i \in 1 .. n : Len(More(x, i) \o f) >= 1
    BY <1>1, <1>2, ItemsText, Zenon
  <2> QED BY <2>1, Zenon DEF x, f, AfterSet, FromSets
<1>5. \A i : v(i) = <<sets[i][2]>> \o a(i) /\ e(i) = <<equals>> \o v(i)
  BY Zenon DEF FromSetValue, FromEquals
<1> HIDE DEF x, n, f, equals, comma, a, v, e
<1>6. ASSUME NEW i \in 1 .. n
      PROVE  /\ v(i) \in Seq(Spelt) /\ e(i) \in Seq(Spelt) /\ Len(e(i)) >= 1 /\ t(i) \in Seq(Spelt)
             /\ x[i] \o a(i) = t(i)
  <2> DEFINE b == sets[i][1]
             c == sets[i][2]
  <2>1. b \in Spelt /\ c \in Spelt /\ a(i) \in Seq(Spelt) /\ x[i] = <<b, equals, c>>
    BY <1>2, <1>4
  <2>2. v(i) = <<c>> \o a(i) /\ e(i) = <<equals>> \o v(i) /\ t(i) = <<b>> \o e(i)
    BY <1>5
  <2> HIDE DEF b, c, t
  <2>3. v(i) \in Seq(Spelt) /\ Len(v(i)) \in Nat
    BY <2>1, <2>2, TokenFirst, LenProperties
  <2>4. e(i) \in Seq(Spelt) /\ Len(e(i)) = Len(v(i)) + 1
    BY <1>3, <2>2, <2>3, TokenFirst
  <2>5. t(i) \in Seq(Spelt)
    BY <2>1, <2>2, <2>4, TokenFirst
  <2>6. <<b, equals, c>> \o a(i) = <<b>> \o (<<equals>> \o (<<c>> \o a(i)))
    BY <1>3, <2>1, ThreeFirst, SMTT(60)
  <2> QED BY <2>1, <2>2, <2>3, <2>4, <2>5, <2>6
<1>7. 1 \in 1 .. n /\ \A i \in 1 .. n - 1 : i + 1 \in 1 .. n
  BY <1>2
<1>8. FromSets(sets, w) = t(1) /\ FromSets(sets, w) \in Seq(Spelt)
  BY <1>4, <1>6, <1>7, Zenon
<1>9. \A i \in 1 .. n - 1 : a(i) = <<comma>> \o t(i + 1)
  BY <1>4, <1>6, <1>7, Zenon
<1> QED BY <1>1, <1>4, <1>6, <1>8, <1>9, Zenon DEF n, f, a, v, e, t, comma

\* Each item that is read is one more of what is set.
LEMMA SettingIs ==
  ASSUME NEW sets \in SetLists, NEW table
  PROVE  /\ \A i \in 1 .. Len(sets) :
              /\ Len(Setting(table, sets, i - 1, i - 1).set_columns) = i - 1
              /\ [Setting(table, sets, i - 1, i - 1) EXCEPT !.set_columns = Append(@, AsColumn(sets[i][1]))]
                 = Setting(table, sets, i, i - 1)
              /\ [Setting(table, sets, i, i - 1) EXCEPT !.set_values = Append(@, Value(sets[i][2]))]
                 = Setting(table, sets, i, i)
         /\ Len(Setting(table, sets, Len(sets), Len(sets)).set_columns) = Len(sets)
         /\ Setting(table, sets, 0, 0) = UpdatingTable(table)
         /\ [Setting(table, sets, Len(sets), Len(sets)) EXCEPT !.set_count = Len(sets)] = AllSet(table, sets)
<1> DEFINE n == Len(sets)
           x == SetNames(sets)
           y == SetLiterals(sets)
           b == UpdatingTable(table)
           U(c, v) == [b EXCEPT !.set_columns = c, !.set_values = v]
           AddColumn(f, d) == [f EXCEPT !.set_columns = Append(@, d)]
           AddValue(f, d) == [f EXCEPT !.set_values = Append(@, d)]
           N(f, m) == [f EXCEPT !.set_count = m]
           C(f) == f.set_columns
           X(i) == SubSeq(x, 1, i)
           Y(i) == SubSeq(y, 1, i)
           s(i, j) == Setting(table, sets, i, j)
<1>1. n \in Nat /\ n >= 1 /\ DOMAIN sets = 1 .. n
  BY SetsAre, Zenon
<1>2. ASSUME NEW S, NEW z \in [1 .. n -> S]
      PROVE  /\ SubSeq(z, 1, 0) = <<>> /\ SubSeq(z, 1, n) = z
             /\ \A i \in 1 .. n : Len(SubSeq(z, 1, i - 1)) = i - 1
             /\ Len(SubSeq(z, 1, n)) = n
             /\ \A i \in 1 .. n : SubSeq(z, 1, i) = Append(SubSeq(z, 1, i - 1), z[i])
  <2> HIDE DEF n
  <2>2. z \in Seq(S) /\ Len(z) = n
    BY <1>1, <1>2, LenProperties
  <2>3. /\ SubSeq(z, 1, 0) = <<>> /\ SubSeq(z, 1, n) = z
        /\ \A i \in 0 .. n : Len(SubSeq(z, 1, i)) = i
        /\ \A i \in 0 .. n - 1 : SubSeq(z, 1, i + 1) = Append(SubSeq(z, 1, i), z[i + 1])
    <3>1. /\ SubSeq(z, 1, 0) = <<>> /\ SubSeq(z, 1, Len(z)) = z
          /\ \A i \in 0 .. Len(z) : Len(SubSeq(z, 1, i)) = i
          /\ \A i \in 0 .. Len(z) - 1 : SubSeq(z, 1, i + 1) = Append(SubSeq(z, 1, i), z[i + 1])
      BY <2>2, PrefixIs, Zenon
    <3> QED BY <2>2, <3>1
  <2>4. n \in 0 .. n /\ \A i \in 1 .. n : i - 1 \in 0 .. n /\ i - 1 \in 0 .. n - 1 /\ (i - 1) + 1 = i
    BY <1>1
  <2>5. \A i \in 1 .. n : SubSeq(z, 1, i) = Append(SubSeq(z, 1, i - 1), z[i])
    <3> SUFFICES ASSUME NEW i \in 1 .. n PROVE SubSeq(z, 1, i) = Append(SubSeq(z, 1, i - 1), z[i])
      OBVIOUS
    <3>1. i - 1 \in 0 .. n - 1 /\ (i - 1) + 1 = i
      BY <2>4
    <3>2. SubSeq(z, 1, (i - 1) + 1) = Append(SubSeq(z, 1, i - 1), z[(i - 1) + 1])
      BY <2>3, <3>1, Zenon
    <3> QED BY <3>1, <3>2
  <2> QED BY <2>3, <2>4, <2>5, Zenon
<1>3. x = [i \in 1 .. n |-> AsColumn(sets[i][1])] /\ y = [i \in 1 .. n |-> Value(sets[i][2])]
  BY <1>1, Zenon DEF SetNames, SetLiterals
<1> DEFINE A(i) == AsColumn(sets[i][1])
           E(i) == Value(sets[i][2])
<1>a. x = [i \in 1 .. n |-> A(i)] /\ y = [i \in 1 .. n |-> E(i)]
  BY <1>3
<1> HIDE DEF x, y, n, A, E
<1>b. x \in [1 .. n -> {A(i) : i \in 1 .. n}] /\ \A i \in 1 .. n : x[i] = A(i)
  BY <1>a
<1>c. y \in [1 .. n -> {E(i) : i \in 1 .. n}] /\ \A i \in 1 .. n : y[i] = E(i)
  BY <1>a
<1>4. /\ X(0) = <<>> /\ X(n) = x /\ (\A i \in 1 .. n : Len(X(i - 1)) = i - 1) /\ Len(X(n)) = n
      /\ \A i \in 1 .. n : X(i) = Append(X(i - 1), x[i])
  BY <1>2, <1>b, Zenon
<1>5. /\ Y(0) = <<>> /\ Y(n) = y
      /\ \A i \in 1 .. n : Y(i) = Append(Y(i - 1), y[i])
  BY <1>2, <1>c, Zenon
<1>6. (\A i, j : s(i, j) = U(X(i), Y(j))) /\ AllSet(table, sets) = N(U(x, y), n)
  BY DEF Setting, AllSet, UpdatingTable, x, y, n
<1>7. /\ b.set_columns = <<>> /\ b.set_values = <<>>
      /\ "set_columns" \in DOMAIN b /\ "set_values" \in DOMAIN b
      /\ b = [k \in DOMAIN b |-> b[k]]
  <2>1. b.set_columns = <<>> /\ b.set_values = <<>>
    BY Zenon DEF UpdatingTable, BlankStatement
  <2>2. "set_columns" \in DOMAIN b /\ "set_values" \in DOMAIN b
    BY Zenon DEF UpdatingTable, BlankStatement
  <2>3. b = [k \in DOMAIN b |-> b[k]]
    BY Zenon DEF UpdatingTable
  <2> QED BY <2>1, <2>2, <2>3
<1> HIDE DEF b, X, Y
<1>8. \A c, v : C(U(c, v)) = c
  BY <1>7
<1>9. \A c, v, d : AddColumn(U(c, v), d) = U(Append(c, d), v)
  BY <1>7
<1>10. \A c, v, d : AddValue(U(c, v), d) = U(c, Append(v, d))
  BY <1>7
<1>11. U(<<>>, <<>>) = b
  BY <1>7
<1> HIDE DEF U, AddColumn, AddValue, N, C, s
<1>12. \A i \in 1 .. n : /\ Len(C(s(i - 1, i - 1))) = i - 1
                        /\ AddColumn(s(i - 1, i - 1), A(i)) = s(i, i - 1)
                        /\ AddValue(s(i, i - 1), E(i)) = s(i, i)
  <2> SUFFICES ASSUME NEW i \in 1 .. n
               PROVE  /\ Len(C(s(i - 1, i - 1))) = i - 1
                      /\ AddColumn(s(i - 1, i - 1), A(i)) = s(i, i - 1)
                      /\ AddValue(s(i, i - 1), E(i)) = s(i, i)
    OBVIOUS
  <2> DEFINE j == i - 1
  <2>1. Len(X(j)) = j /\ X(i) = Append(X(j), A(i)) /\ Y(i) = Append(Y(j), E(i))
    BY <1>4, <1>5, <1>b, <1>c
  <2> HIDE DEF j
  <2>2. Len(C(s(j, j))) = j
    BY <1>6, <1>8, <2>1, Zenon
  <2>3. AddColumn(s(j, j), A(i)) = s(i, j)
    <3>1. AddColumn(U(X(j), Y(j)), A(i)) = U(Append(X(j), A(i)), Y(j))
      BY <1>9
    <3>2. s(j, j) = U(X(j), Y(j)) /\ s(i, j) = U(X(i), Y(j))
      BY <1>6
    <3> QED BY <2>1, <3>1, <3>2
  <2>4. AddValue(s(i, j), E(i)) = s(i, i)
    <3>1. AddValue(U(X(i), Y(j)), E(i)) = U(X(i), Append(Y(j), E(i)))
      BY <1>10
    <3>2. s(i, j) = U(X(i), Y(j)) /\ s(i, i) = U(X(i), Y(i))
      BY <1>6
    <3> QED BY <2>1, <3>1, <3>2
  <2> QED BY <2>2, <2>3, <2>4 DEF j
<1>13. Len(C(s(n, n))) = n
  BY <1>4, <1>6, <1>8, Zenon
<1>14. s(0, 0) = b
  BY <1>4, <1>5, <1>6, <1>11, Zenon
<1>15. N(s(n, n), n) = AllSet(table, sets)
  BY <1>4, <1>5, <1>6, Zenon
<1>16. \A i \in 1 .. n :
         /\ Len(Setting(table, sets, i - 1, i - 1).set_columns) = i - 1
         /\ [Setting(table, sets, i - 1, i - 1) EXCEPT !.set_columns = Append(@, AsColumn(sets[i][1]))]
            = Setting(table, sets, i, i - 1)
         /\ [Setting(table, sets, i, i - 1) EXCEPT !.set_values = Append(@, Value(sets[i][2]))]
            = Setting(table, sets, i, i)
  BY <1>12 DEF C, AddColumn, AddValue, s, A, E
<1>17. Len(Setting(table, sets, n, n).set_columns) = n
  BY <1>13 DEF C, s
<1>18. Setting(table, sets, 0, 0) = UpdatingTable(table)
  BY <1>14 DEF s, b
<1>19. [Setting(table, sets, n, n) EXCEPT !.set_count = n] = AllSet(table, sets)
  BY <1>15 DEF N, s
<1> QED BY <1>16, <1>17, <1>18, <1>19, Zenon DEF n

\* Behind the last token there is none.
LEMMA RestOver ==
  ASSUME TypeOK, Rest = <<>>
  PROVE  Tok = NULL
<1> DEFINE x == text.tokens
           n == Len(x)
<1>1. x \in Seq(Vocabulary) /\ n \in Nat /\ pos \in 1 .. n + 1
  BY LenProperties DEF TypeOK
<1>2. ASSUME pos <= n PROVE FALSE
  <2>1. \A i \in pos .. n : x[i] \in Vocabulary
    <3>1. \A i \in pos .. n : i \in 1 .. n
      BY <1>1
    <3> QED BY <1>1, <3>1, ElementOfSeq
  <2>2. pos \in Int /\ n \in Int
    BY <1>1
  <2> HIDE DEF x, n
  <2>3. Len(SubSeq(x, pos, n)) = n - pos + 1
    BY <1>2, <2>1, <2>2, SubSeqProperties
  <2>4. SubSeq(x, pos, n) = <<>>
    BY Zenon DEF Rest, x, n
  <2>5. Len(<<>>) = 0
    OBVIOUS
  <2>6. n - pos + 1 = 0
    BY <2>3, <2>4, <2>5, Zenon
  <2> QED BY <1>2, <2>2, <2>6
<1> QED BY <1>2 DEF Tok

\* A text that ends where an equals sign should be is an error.
LEMMA NoEquals ==
  ASSUME TypeOK, Next, NEW s, Now = Reading("set_equals", <<>>, s)
  PROVE  Rejected(Now')
<1>1. at = "set_equals" /\ Rest = <<>>
  BY DEF Now, Reading
<1>2. Tok = NULL
  BY <1>1, RestOver
<1>3. "set_equals" \in DOMAIN Expected /\ "set_equals" \notin Peeks
  BY Zenon DEF Expected, Peeks
<1>4. EndOfText
  <2>1. ~Begin /\ ~Show /\ ~Expect /\ ~TableName /\ ~Finish /\ ~Execute
    BY <1>1, <1>2, Zenon DEF Begin, Show, Expect, TableName, Finish, Execute
  <2>2. ~WhereOrEnd /\ ~WhereColumn /\ ~WhereOperator /\ ~WhereValue
    BY <1>1, Zenon DEF WhereOrEnd, WhereColumn, WhereOperator, WhereValue
  <2>3. ~ColumnName /\ ~ColumnType /\ ~ColumnLength /\ ~Constraint /\ ~ConstraintWord
    BY <1>1, Zenon DEF ColumnName, ColumnType, ColumnLength, Constraint, ConstraintWord
  <2>4. ~SelectStar /\ ~SelectColumns /\ ~FromAfterStar /\ ~JoinOrWhere /\ ~JoinName
    BY <1>1, Zenon DEF SelectStar, SelectColumns, FromAfterStar, JoinOrWhere, JoinName
  <2>5. ~InsertColumns /\ ~InsertValue /\ ~InsertNext /\ ~SetColumn /\ ~SetValue /\ ~SetNext
    BY <1>1, Zenon DEF InsertColumns, InsertValue, InsertNext, SetColumn, SetValue, SetNext
  <2> QED BY <2>1, <2>2, <2>3, <2>4, <2>5, Zenon DEF Next
<1>5. Peek("done", Error)
  BY <1>1, <1>3, <1>4, Zenon DEF EndOfText
<1>6. at' = "done" /\ stmt' = Error
  BY <1>5, Zenon DEF Peek, Go
<1>7. Error.has_error
  BY DEF TypeOK, Statements, Error
<1>8. Now' = <<"done", Rest', Error, parse_success'>>
  BY <1>6 DEF Now
<1> QED BY <1>7, <1>8, Zenon DEF Rejected, Nothing

\* Without the WHERE that is looked for, more follows than may.
LEMMA OffTrackStep ==
  ASSUME TypeOK, Next, OffTrack(Now)
  PROVE  TooMuch(Now')
<1>0. PICK a \in Spelt, r \in Seq(Spelt) : \E s :
        a # NULL /\ a # "WHERE" /\ Len(r) >= 1 /\ Now = Reading("where_or_end", <<a>> \o r, s)
  BY Zenon DEF OffTrack
<1>1. PICK s : a # NULL /\ a # "WHERE" /\ Len(r) >= 1 /\ Now = Reading("where_or_end", <<a>> \o r, s)
  BY <1>0, Zenon
<1>2. at = "where_or_end" /\ Tok = a /\ stmt = s
      /\ \A q3, s3 : Peek(q3, s3) => Now' = Reading(q3, <<a>> \o r, s3)
  BY <1>1, Taking
<1>3. WhereOrEnd
  BY <1>1, <1>2, ByPlace, Zenon
<1>4. Peek("end", s)
  BY <1>1, <1>2, <1>3, Zenon DEF WhereOrEnd
<1> DEFINE t == <<a>> \o r
<1>5. t \in Seq(Spelt) /\ Len(t) >= 2
  <2>1. t \in Seq(Spelt) /\ Len(t) = Len(r) + 1 /\ Len(r) \in Nat /\ Len(r) >= 1
    BY <1>1, TokenFirst
  <2> HIDE DEF t
  <2>2. \A k \in Nat : k >= 1 => k + 1 >= 2
    OBVIOUS
  <2> QED BY <2>1, <2>2, Zenon
<1>6. Now' = Reading("end", t, s)
  BY <1>2, <1>4, Zenon
<1> QED BY <1>5, <1>6, Zenon DEF TooMuch

\* parse_update.
LEMMA UpdateStep ==
  ASSUME TypeOK, Next, NEW table \in TableNames, NEW sets \in SetLists, NEW w \in Filters,
         UpdateScript(table, sets, w, Now)
  PROVE  UpdateScript(table, sets, w, Now')
<1> DEFINE n == Len(sets)
           f == FilterText(w)
           all == FromSets(sets, w)
           k == <<"SET">> \o all
           a(i) == AfterSet(sets, w, i)
           v(i) == FromSetValue(sets, w, i)
           e(i) == FromEquals(sets, w, i)
           s(i, j) == Setting(table, sets, i, j)
           bad == ~Fits(sets, w)
           Goal == UpdateScript(table, sets, w, Now')
<1>0. SUFFICES Goal
  OBVIOUS
<1>1. /\ f \in Seq(Spelt)
      /\ \A i \in 1 .. n :
           /\ a(i) \in Seq(Spelt) /\ v(i) \in Seq(Spelt) /\ e(i) \in Seq(Spelt) /\ Len(e(i)) >= 1
           /\ <<sets[i][1]>> \o e(i) \in Seq(Spelt)
           /\ v(i) = <<sets[i][2]>> \o a(i) /\ e(i) = <<"=">> \o v(i)
      /\ all = <<sets[1][1]>> \o e(1) /\ all \in Seq(Spelt)
      /\ \A i \in 1 .. n - 1 : a(i) = <<",">> \o (<<sets[i + 1][1]>> \o e(i + 1))
      /\ a(n) = f
  BY SetsText, Zenon DEF FromSetValue, FromEquals
<1>2. /\ n \in Nat /\ n >= 1
      /\ \A i \in 1 .. n :
           /\ sets[i][1] \in Spelt /\ sets[i][1] # NULL /\ sets[i][1] # "WHERE"
           /\ sets[i][2] \in Spelt /\ sets[i][2] # NULL
  BY SetsAre, Zenon
<1>3. /\ \A i \in 1 .. n :
           /\ Len(s(i - 1, i - 1).set_columns) = i - 1
           /\ [s(i - 1, i - 1) EXCEPT !.set_columns = Append(@, AsColumn(sets[i][1]))] = s(i, i - 1)
           /\ [s(i, i - 1) EXCEPT !.set_values = Append(@, Value(sets[i][2]))] = s(i, i)
      /\ Len(s(n, n).set_columns) = n
      /\ s(0, 0) = UpdatingTable(table)
      /\ [s(n, n) EXCEPT !.set_count = n] = AllSet(table, sets)
  BY SettingIs, Zenon
<1>4. MaxColumns \in Nat /\ MaxColumns >= 1 /\ n \in Nat /\ n >= 1
  <2>1. n \in Nat /\ n >= 1
    BY <1>2, Zenon
  <2> QED BY <2>1, ParserAssumption
<1>5. table \in AnyToken /\ table \in Spelt /\ table # NULL
  BY WrittenAssumption, SpeltWords, NoNull, Zenon
<1>6. /\ "SET" \in Spelt /\ "=" \in Spelt /\ "," \in Spelt /\ ";" \in Spelt /\ "WHERE" \in Spelt
      /\ "SET" # NULL /\ "=" # NULL /\ "," # NULL /\ ";" # NULL /\ "WHERE" # NULL
  BY SpeltWords, NoNull, Zenon
<1>7. /\ \/ Now' = Reading("name", <<table>> \o k, Updating)
         \/ Now' = Reading("set", k, UpdatingTable(table))
         => Goal
      /\ \A i \in 1 .. n : i <= MaxColumns + 1
                           /\ Now' = Reading("set_column", <<sets[i][1]>> \o e(i), s(i - 1, i - 1)) => Goal
      /\ \A i \in 1 .. n : i <= MaxColumns /\ (\/ Now' = Reading("set_equals", e(i), s(i, i - 1))
                                              \/ Now' = Reading("set_value", v(i), s(i, i - 1))
                                              \/ Now' = Reading("set_next", a(i), s(i, i))) => Goal
      /\ w = <<>> /\ n <= MaxColumns /\ Now' = Reading("set_column", End, s(n, n)) => Goal
      /\ bad /\ (\/ OffTrack(Now') \/ TooMuch(Now')
                 \/ (\E s3 : Now' = Reading("set_equals", <<>>, s3))
                 \/ Rejected(Now')) => Goal
      /\ ~bad /\ FilterScript(w, AllSet(table, sets), Now') => Goal
  BY Zenon DEF UpdateScript
<1>8. \/ Now = Reading("start", <<"UPDATE">> \o (<<table>> \o k), BlankStatement)
      \/ Now = Reading("name", <<table>> \o k, Updating)
      \/ Now = Reading("set", k, UpdatingTable(table))
      \/ \E i \in 1 .. n : i <= MaxColumns + 1
                           /\ Now = Reading("set_column", <<sets[i][1]>> \o e(i), s(i - 1, i - 1))
      \/ \E i \in 1 .. n : i <= MaxColumns /\ Now = Reading("set_equals", e(i), s(i, i - 1))
      \/ \E i \in 1 .. n : i <= MaxColumns /\ Now = Reading("set_value", v(i), s(i, i - 1))
      \/ \E i \in 1 .. n : i <= MaxColumns /\ Now = Reading("set_next", a(i), s(i, i))
      \/ w = <<>> /\ n <= MaxColumns /\ Now = Reading("set_column", End, s(n, n))
      \/ bad /\ OffTrack(Now)
      \/ bad /\ TooMuch(Now)
      \/ bad /\ \E s3 : Now = Reading("set_equals", <<>>, s3)
      \/ bad /\ Rejected(Now)
      \/ ~bad /\ FilterScript(w, AllSet(table, sets), Now)
  BY Zenon DEF UpdateScript
<1>9. bad <=> ~(w = <<>> /\ n = MaxColumns)
  BY Zenon DEF Fits
<1>10. k \in Seq(Spelt)
  <2> HIDE DEF all
  <2> QED BY <1>1, <1>6, TokenFirst
<1> HIDE DEF k
<1>11. <<table>> \o k \in Seq(Spelt)
  BY <1>5, <1>10, TokenFirst
<1> HIDE DEF n, f, all, a, v, e, s, bad, Goal
<1>12. CASE Now = Reading("start", <<"UPDATE">> \o (<<table>> \o k), BlankStatement)
  <2> DEFINE t == <<table>> \o k
  <2>1. t \in Seq(Spelt) /\ Now = Reading("start", <<"UPDATE">> \o t, BlankStatement)
    BY <1>11, <1>12
  <2> HIDE DEF t
  <2>2. Now' = Reading("name", t, [BlankStatement EXCEPT !.type = "UPDATE"])
    BY <2>1, FirstWord
  <2> QED BY <1>7, <2>2, Zenon DEF Updating, t
<1>13. CASE Now = Reading("name", <<table>> \o k, Updating)
  <2> DEFINE b == Updating
  <2>1. b.type = "UPDATE" /\ [b EXCEPT !.table = AsTable(table)] = UpdatingTable(table)
    BY Zenon DEF Updating, UpdatingTable, BlankStatement
  <2> HIDE DEF b
  <2>2. Now' = Reading(AfterName[b.type], k, [b EXCEPT !.table = AsTable(table)])
    BY <1>5, <1>10, <1>13, NameTaken DEF b
  <2>3. AfterName["UPDATE"] = "set"
    BY Zenon DEF AfterName
  <2>4. Now' = Reading("set", k, UpdatingTable(table))
    BY <2>1, <2>2, <2>3, Zenon
  <2> QED BY <1>7, <2>4, Zenon
<1>14. CASE Now = Reading("set", k, UpdatingTable(table))
  <2> DEFINE b == UpdatingTable(table)
             word == "SET"
  <2>1. Expected["set"] = <<word, "set_column">> /\ "set" \in DOMAIN Expected
    BY Zenon DEF Expected
  <2>2. Now = Reading("set", <<word>> \o all, b) /\ word \in Spelt /\ word # NULL /\ all \in Seq(Spelt)
    BY <1>1, <1>6, <1>14, Zenon DEF k
  <2> HIDE DEF b, word
  <2>3. Now' = Reading("set_column", all, b)
    BY <2>1, <2>2, ExpectTaken
  <2>4. 1 \in 1 .. n /\ 1 <= MaxColumns + 1 /\ 1 - 1 = 0
    BY <1>4
  <2>5. Now' = Reading("set_column", <<sets[1][1]>> \o e(1), s(1 - 1, 1 - 1))
    BY <1>1, <1>3, <2>3, <2>4, Zenon DEF b
  <2> QED BY <1>7, <2>4, <2>5, Zenon
<1>15. CASE \E i \in 1 .. n : i <= MaxColumns + 1
              /\ Now = Reading("set_column", <<sets[i][1]>> \o e(i), s(i - 1, i - 1))
  <2>1. PICK i \in 1 .. n : i <= MaxColumns + 1
              /\ Now = Reading("set_column", <<sets[i][1]>> \o e(i), s(i - 1, i - 1))
    BY <1>15
  <2> DEFINE c == sets[i][1]
             p == s(i - 1, i - 1)
             q == s(i, i - 1)
             m == e(i)
             where == "WHERE"
  <2>2. /\ c \in Spelt /\ c # NULL /\ c # where
        /\ m \in Seq(Spelt) /\ Len(m) >= 1
        /\ Len(p.set_columns) = i - 1 /\ [p EXCEPT !.set_columns = Append(@, AsColumn(c))] = q
    BY <1>1, <1>2, <1>3, Zenon
  <2>3. Now = Reading("set_column", <<c>> \o m, p)
    BY <2>1
  <2> HIDE DEF c, p, q, m, where
  <2>4. at = "set_column" /\ Tok = c /\ stmt = p
        /\ (\A q3, s3 : Take(q3, s3) => Now' = Reading(q3, m, s3))
        /\ (\A q3, s3 : Peek(q3, s3) => Now' = Reading(q3, <<c>> \o m, s3))
    BY <2>2, <2>3, Taking
  <2>5. SetColumn
    BY <2>2, <2>4, ByPlace, Zenon
  <2>6. IF i - 1 = MaxColumns THEN Peek("where_or_end", [p EXCEPT !.set_count = MaxColumns]) ELSE Take("set_equals", q)
    BY <2>2, <2>4, <2>5, Zenon DEF SetColumn, SetFull
  <2>7. CASE i - 1 = MaxColumns
    <3>1. Now' = Reading("where_or_end", <<c>> \o m, [p EXCEPT !.set_count = MaxColumns])
      BY <2>4, <2>6, <2>7, Zenon
    <3>2. OffTrack(Now')
      BY <2>2, <3>1, Zenon DEF OffTrack, where
    <3>3. n # MaxColumns
      BY <1>4, <2>1, <2>7
    <3> QED BY <1>7, <1>9, <3>2, <3>3, Zenon
  <2>8. CASE i - 1 # MaxColumns
    <3>1. Now' = Reading("set_equals", e(i), s(i, i - 1))
      BY <2>4, <2>6, <2>8, Zenon DEF m, q
    <3>2. i <= MaxColumns
      BY <1>4, <2>1, <2>8
    <3> QED BY <1>7, <2>1, <3>1, <3>2, Zenon
  <2> QED BY <2>7, <2>8
<1>16. CASE \E i \in 1 .. n : i <= MaxColumns /\ Now = Reading("set_equals", e(i), s(i, i - 1))
  <2>1. PICK i \in 1 .. n : i <= MaxColumns /\ Now = Reading("set_equals", e(i), s(i, i - 1))
    BY <1>16
  <2> DEFINE b == s(i, i - 1)
             m == v(i)
             equals == "="
  <2>2. Expected["set_equals"] = <<equals, "set_value">> /\ "set_equals" \in DOMAIN Expected
    BY Zenon DEF Expected
  <2>3. Now = Reading("set_equals", <<equals>> \o m, b) /\ equals \in Spelt /\ equals # NULL /\ m \in Seq(Spelt)
    BY <1>1, <1>6, <2>1, Zenon
  <2> HIDE DEF b, m, equals
  <2>4. Now' = Reading("set_value", m, b)
    BY <2>2, <2>3, ExpectTaken
  <2> QED BY <1>7, <2>1, <2>4, Zenon DEF m, b
<1>17. CASE \E i \in 1 .. n : i <= MaxColumns /\ Now = Reading("set_value", v(i), s(i, i - 1))
  <2>1. PICK i \in 1 .. n : i <= MaxColumns /\ Now = Reading("set_value", v(i), s(i, i - 1))
    BY <1>17
  <2> DEFINE c == sets[i][2]
             p == s(i, i - 1)
             m == a(i)
  <2>2. /\ c \in Spelt /\ c # NULL /\ m \in Seq(Spelt)
        /\ Now = Reading("set_value", <<c>> \o m, p)
        /\ [p EXCEPT !.set_values = Append(@, Value(c))] = s(i, i)
    BY <1>1, <1>2, <1>3, <2>1, Zenon
  <2> HIDE DEF c, p, m
  <2>3. at = "set_value" /\ Tok = c /\ stmt = p /\ \A q3, s3 : Take(q3, s3) => Now' = Reading(q3, m, s3)
    BY <2>2, Taking
  <2>4. SetValue
    BY <2>2, <2>3, ByPlace, Zenon
  <2>5. Take("set_next", [p EXCEPT !.set_values = Append(@, Value(c))])
    BY <2>3, <2>4, Zenon DEF SetValue
  <2>6. Now' = Reading("set_next", a(i), s(i, i))
    BY <2>2, <2>3, <2>5, Zenon DEF m
  <2> QED BY <1>7, <2>1, <2>6, Zenon
<1>18. CASE \E i \in 1 .. n : i <= MaxColumns /\ Now = Reading("set_next", a(i), s(i, i))
  <2>1. PICK i \in 1 .. n : i <= MaxColumns /\ Now = Reading("set_next", a(i), s(i, i))
    BY <1>18
  <2> DEFINE p == s(i, i)
  <2>2. CASE i = n /\ w = <<>>
    <3> DEFINE semicolon == ";"
               none == <<>>
    <3>1. Now = Reading("set_next", <<semicolon>> \o none, p) /\ none \in Seq(Spelt) /\ End = <<semicolon>> \o none
      BY <1>1, <2>1, <2>2, EndIs, FilterTextIs, Zenon DEF f
    <3>2. semicolon \in Spelt /\ semicolon # NULL /\ semicolon # "," /\ semicolon # "WHERE"
      BY <1>6, Zenon
    <3> HIDE DEF p, semicolon, none
    <3>3. at = "set_next" /\ Tok = semicolon /\ stmt = p
          /\ \A q3, s3 : Peek(q3, s3) => Now' = Reading(q3, <<semicolon>> \o none, s3)
      BY <3>1, <3>2, Taking
    <3>4. SetNext
      BY <3>2, <3>3, ByPlace, Zenon
    <3>5. Peek("set_column", p)
      BY <3>2, <3>3, <3>4, Zenon DEF SetNext
    <3>6. Now' = Reading("set_column", End, s(n, n))
      BY <2>2, <3>1, <3>3, <3>5, Zenon DEF p
    <3> QED BY <1>7, <2>1, <2>2, <3>6, Zenon
  <2>3. CASE i = n /\ w # <<>>
    <3> DEFINE r3 == <<w[3]>> \o End
               r2 == <<w[2]>> \o r3
               r1 == <<w[1]>> \o r2
               where == "WHERE"
               c == w[1]
    <3>1. /\ r2 \in Seq(Spelt) /\ r1 \in Seq(Spelt) /\ r3 \in Seq(Spelt)
          /\ c \in Spelt /\ c # NULL /\ c # where /\ w[2] \in Spelt
          /\ f = <<where>> \o r1
      BY <2>3, FilterTextIs, NoNull, Zenon DEF f
    <3>2. Now = Reading("set_next", <<where>> \o r1, p) /\ where \in Spelt /\ where # NULL /\ where # ","
      BY <1>1, <1>6, <2>1, <2>3, <3>1, Zenon
    <3>3. r1 = <<c>> \o r2
      OBVIOUS
    <3> HIDE DEF r1, c, p, where
    <3>4. at = "set_next" /\ Tok = where /\ stmt = p /\ \A q3, s3 : Take(q3, s3) => Now' = Reading(q3, r1, s3)
      BY <3>1, <3>2, Taking
    <3>5. SetNext
      BY <3>2, <3>4, ByPlace, Zenon
    <3>6. Take("where_or_end", [p EXCEPT !.set_count = Len(p.set_values)])
      BY <3>2, <3>4, <3>5, Zenon DEF SetNext, where
    <3>7. Now' = Reading("where_or_end", <<c>> \o r2, [p EXCEPT !.set_count = Len(p.set_values)])
      BY <3>3, <3>4, <3>6, Zenon
    <3>8. Len(r2) >= 1
      <4> HIDE DEF r3
      <4>1. Len(r2) = Len(r3) + 1 /\ Len(r3) \in Nat
        BY <3>1, TokenFirst
      <4> HIDE DEF r2
      <4> QED BY <4>1
    <3> HIDE DEF r2
    <3>9. OffTrack(Now')
      BY <3>1, <3>7, <3>8, Zenon DEF OffTrack, where
    <3> QED BY <1>7, <1>9, <2>3, <3>9, Zenon
  <2>4. CASE i # n
    <3> DEFINE comma == ","
               t == <<sets[i + 1][1]>> \o e(i + 1)
    <3>0. i \in 1 .. n - 1 /\ i + 1 \in 1 .. n /\ i + 1 <= MaxColumns + 1 /\ (i + 1) - 1 = i
      BY <1>4, <2>1, <2>4
    <3>1. Now = Reading("set_next", <<comma>> \o t, p) /\ t \in Seq(Spelt) /\ comma \in Spelt /\ comma # NULL
      BY <1>1, <1>6, <2>1, <3>0, Zenon
    <3> HIDE DEF t, p, comma
    <3>2. at = "set_next" /\ Tok = comma /\ stmt = p /\ \A q3, s3 : Take(q3, s3) => Now' = Reading(q3, t, s3)
      BY <3>1, Taking
    <3>3. SetNext
      BY <3>1, <3>2, ByPlace, Zenon
    <3>4. Take("set_column", p)
      BY <3>2, <3>3, Zenon DEF SetNext, comma
    <3>5. Now' = Reading("set_column", <<sets[i + 1][1]>> \o e(i + 1), s((i + 1) - 1, (i + 1) - 1))
      BY <3>0, <3>2, <3>4, Zenon DEF t, p
    <3> QED BY <1>7, <3>0, <3>5, Zenon
  <2> QED BY <2>2, <2>3, <2>4
<1>19. CASE w = <<>> /\ n <= MaxColumns /\ Now = Reading("set_column", End, s(n, n))
  <2> DEFINE semicolon == ";"
             none == <<>>
             p == s(n, n)
  <2>1. /\ Now = Reading("set_column", <<semicolon>> \o none, p)
        /\ none \in Seq(Spelt) /\ End = <<semicolon>> \o none /\ semicolon \in Spelt /\ semicolon # NULL
    BY <1>6, <1>19, EndIs, Zenon
  <2>2. Len(p.set_columns) = n /\ [p EXCEPT !.set_count = n] = AllSet(table, sets)
    BY <1>3
  <2> HIDE DEF semicolon, none, p
  <2>3. at = "set_column" /\ Tok = semicolon /\ stmt = p
        /\ (\A q3, s3 : Take(q3, s3) => Now' = Reading(q3, none, s3))
        /\ (\A q3, s3 : Peek(q3, s3) => Now' = Reading(q3, <<semicolon>> \o none, s3))
    BY <2>1, Taking
  <2>4. SetColumn
    BY <2>1, <2>3, ByPlace, Zenon
  <2>5. IF n = MaxColumns THEN Peek("where_or_end", [p EXCEPT !.set_count = MaxColumns])
        ELSE Take("set_equals", [p EXCEPT !.set_columns = Append(@, AsColumn(semicolon))])
    BY <2>2, <2>3, <2>4, Zenon DEF SetColumn, SetFull
  <2>6. CASE n = MaxColumns
    <3>1. Now' = Reading("where_or_end", End, AllSet(table, sets))
      BY <2>1, <2>2, <2>3, <2>5, <2>6, Zenon
    <3>2. Now' = Reading("where_or_end", FilterText(w), AllSet(table, sets))
      BY <1>19, <3>1, FilterTextIs, Zenon
    <3>3. FilterScript(w, AllSet(table, sets), Now')
      BY <3>2, Zenon DEF FilterScript
    <3> QED BY <1>7, <1>9, <1>19, <2>6, <3>3, Zenon
  <2>7. CASE n # MaxColumns
    <3>1. Now' = Reading("set_equals", none, [p EXCEPT !.set_columns = Append(@, AsColumn(semicolon))])
      BY <2>3, <2>5, <2>7, Zenon
    <3> QED BY <1>7, <1>9, <2>7, <3>1, Zenon DEF none
  <2> QED BY <2>6, <2>7
<1>20. CASE bad /\ OffTrack(Now)
  BY <1>7, <1>20, OffTrackStep, Zenon
<1>21. CASE bad /\ TooMuch(Now)
  BY <1>7, <1>21, TooMuchStep, Zenon
<1>22. CASE bad /\ \E s3 : Now = Reading("set_equals", <<>>, s3)
  BY <1>7, <1>22, NoEquals, Zenon
<1>23. CASE bad /\ Rejected(Now)
  BY <1>7, <1>23, RejectedStep, Zenon
<1>24. CASE ~bad /\ FilterScript(w, AllSet(table, sets), Now)
  BY <1>7, <1>24, FilterStep, Zenon
<1> QED BY <1>8, <1>12, <1>13, <1>14, <1>15, <1>16, <1>17, <1>18, <1>19, <1>20, <1>21, <1>22, <1>23, <1>24, Zenon

-----------------------------------------------------------------------------
(* CREATE TABLE: a column under construction, and the columns before it.   *)

\* A CREATE, as far as it has been read.
Building(table, cs, k) ==
  [BlankStatement EXCEPT !.type = "CREATE", !.table = AsTable(table), !.columns = cs, !.primary_key_index = k]
Creating == [BlankStatement EXCEPT !.type = "CREATE", !.primary_key_index = -1]
Created(table, cs, k) ==
  [BlankStatement EXCEPT !.type = "CREATE", !.table = AsTable(table), !.columns = cs, !.column_count = Len(cs),
                         !.primary_key_index = k]

WithColumns(s, cs) == [s EXCEPT !.columns = cs]
WithColumnsAndKey(s, cs, k) == [s EXCEPT !.columns = cs, !.primary_key_index = k]

Built(table, cs, k) ==
  /\ Building(table, cs, k).columns = cs
  /\ \A d : WithColumns(Building(table, cs, k), d) = Building(table, d, k)
  /\ \A d, i : WithColumnsAndKey(Building(table, cs, k), d, i) = Building(table, d, i)
  /\ Creating.type = "CREATE" /\ [Creating EXCEPT !.table = AsTable(table)] = Building(table, <<>>, -1)
  /\ [Building(table, cs, k) EXCEPT !.column_count = Len(cs)] = Created(table, cs, k)

\* They are the fields that are set on the way.
LEMMA BuildingIs ==
  ASSUME NEW table, NEW cs, NEW k
  PROVE  Built(table, cs, k)
<1> DEFINE a == [BlankStatement EXCEPT !.type = "CREATE"]
           T(f, t) == [f EXCEPT !.table = AsTable(t)]
           C(f, d) == [f EXCEPT !.columns = d]
           N(f, m) == [f EXCEPT !.column_count = m]
           K(f, i) == [f EXCEPT !.primary_key_index = i]
           b == T(a, table)
<1>1. "table" \in DOMAIN a /\ "columns" \in DOMAIN a /\ "primary_key_index" \in DOMAIN a /\ a.columns = <<>>
  <2>1. "table" \in DOMAIN a /\ "columns" \in DOMAIN a /\ "primary_key_index" \in DOMAIN a
    BY Zenon DEF BlankStatement
  <2>2. a.columns = <<>>
    BY Zenon DEF BlankStatement
  <2> QED BY <2>1, <2>2
<1>2. /\ \A d, i : Building(table, d, i) = K(C(b, d), i)
      /\ Creating = K(a, -1)
      /\ Created(table, cs, k) = K(N(C(b, cs), Len(cs)), k)
  BY DEF Building, Creating, Created
<1>3. Creating.type = "CREATE"
  BY Zenon DEF Creating, BlankStatement
<1>4. C(b, <<>>) = b /\ \A d, i : K(C(b, d), i).columns = d
  <2> HIDE DEF a
  <2>1. b.columns = <<>> /\ "columns" \in DOMAIN b
    BY <1>1
  <2>2. b = [f \in DOMAIN b |-> b[f]]
    BY Zenon
  <2>3. \A d, i : K(C(b, d), i).columns = d
    <3> HIDE DEF b
    <3> QED BY <2>1, Zenon
  <2> HIDE DEF b
  <2> QED BY <2>1, <2>2, <2>3
<1> HIDE DEF a, b
<1>5. /\ \A f, d, e, i : C(K(C(f, d), i), e) = K(C(f, e), i)
      /\ \A f, i, j : K(K(f, i), j) = K(f, j)
      /\ \A f, i, t : T(K(f, i), t) = K(T(f, t), i)
      /\ \A f, i, m : N(K(f, i), m) = K(N(f, m), i)
  <2>1. \A f, d, e, i : C(K(C(f, d), i), e) = K(C(f, e), i)
    BY Zenon
  <2>2. \A f, i, j : K(K(f, i), j) = K(f, j)
    BY Zenon
  <2>3. \A f, i, t : T(K(f, i), t) = K(T(f, t), i)
    BY Zenon
  <2>4. \A f, i, m : N(K(f, i), m) = K(N(f, m), i)
    BY Zenon
  <2> QED BY <2>1, <2>2, <2>3, <2>4, Zenon
<1>6. b = T(a, table)
  BY DEF b
<1> DEFINE B(d, i) == Building(table, d, i)
<1> HIDE DEF T, C, N, K
<1>7. \A d : C(B(cs, k), d) = B(d, k)
  BY <1>2, <1>5
<1>8. \A d, i : K(C(B(cs, k), d), i) = B(d, i)
  BY <1>2, <1>5
<1>9. T(Creating, table) = B(<<>>, -1)
  BY <1>2, <1>4, <1>5, <1>6
<1>10. N(B(cs, k), Len(cs)) = Created(table, cs, k)
  BY <1>2, <1>5
<1>11. B(cs, k).columns = cs
  BY <1>2, <1>4
<1>12. \A d : WithColumns(Building(table, cs, k), d) = Building(table, d, k)
  BY <1>7, Zenon DEF C, WithColumns
<1>13. \A d, i : WithColumnsAndKey(Building(table, cs, k), d, i) = Building(table, d, i)
  BY <1>8, Zenon DEF C, K, WithColumnsAndKey
<1>14. [Creating EXCEPT !.table = AsTable(table)] = Building(table, <<>>, -1)
  BY <1>9, Zenon DEF T
<1>15. [Building(table, cs, k) EXCEPT !.column_count = Len(cs)] = Created(table, cs, k)
  BY <1>10, Zenon DEF N
<1> HIDE DEF B
<1> QED BY <1>3, <1>11, <1>12, <1>13, <1>14, <1>15, Zenon DEF B, Built

\* Of the sequence.
LEMMA LastOf ==
  ASSUME NEW S, NEW cs \in Seq(S), NEW e \in S, NEW d \in S
  PROVE  /\ Len(Append(cs, e)) = Len(cs) + 1 /\ Append(cs, e) \in Seq(S) /\ Len(cs) \in Nat
         /\ Append(cs, e)[Len(cs) + 1] = e
         /\ [Append(cs, e) EXCEPT ![Len(cs) + 1] = d] = Append(cs, d)
<1> DEFINE n == Len(cs) + 1
           x == Append(cs, e)
           y == Append(cs, d)
           z == [x EXCEPT ![n] = d]
<1>1. /\ Len(cs) \in Nat /\ n \in Nat
      /\ x \in Seq(S) /\ Len(x) = n /\ x[n] = e /\ \A i \in 1 .. Len(cs) : x[i] = cs[i]
      /\ y \in Seq(S) /\ Len(y) = n /\ y[n] = d /\ \A i \in 1 .. Len(cs) : y[i] = cs[i]
  BY AppendProperties, LenProperties
<1>2. z \in Seq(S) /\ Len(z) = n /\ \A i \in 1 .. n : z[i] = IF i = n THEN d ELSE x[i]
  <2>1. n \in 1 .. Len(x)
    BY <1>1
  <2> HIDE DEF x
  <2> QED BY <1>1, <2>1, ExceptSeq
<1> HIDE DEF x, y, z
<1>3. \A i \in 1 .. n : z[i] = y[i]
  <2> SUFFICES ASSUME NEW i \in 1 .. n PROVE z[i] = y[i]
    OBVIOUS
  <2>1. i = n \/ i \in 1 .. Len(cs)
    BY <1>1
  <2> QED BY <1>1, <1>2, <2>1
<1>4. z = y
  <2> HIDE DEF n
  <2> QED BY <1>1, <1>2, <1>3, SeqEqual
<1> QED BY <1>1, <1>4 DEF x, y, z

\* The statement while a column is read.
WithType(s, v) == [s EXCEPT !.columns[Len(s.columns)].type = v]
WithLength(s, v) == [s EXCEPT !.columns[Len(s.columns)].length = v]
WithUnique(s) == [s EXCEPT !.columns[Len(s.columns)].is_unique = TRUE]
WithKey(s) == [s EXCEPT !.columns[Len(s.columns)].is_primary = TRUE, !.primary_key_index = Len(s.columns) - 1]

\* The same for a column.
OfType(e, v) == [e EXCEPT !.type = v]
OfLength(e, v) == [e EXCEPT !.length = v]
Unique(e) == [e EXCEPT !.is_unique = TRUE]
Primary(e) == [e EXCEPT !.is_primary = TRUE]

\* The last column is changed in its place, in the statement s.
Changes(S, cs, e, table, k, s) ==
  /\ \A v : OfType(e, v) \in S => WithType(s, v) = Building(table, Append(cs, OfType(e, v)), k)
  /\ \A v : OfLength(e, v) \in S => WithLength(s, v) = Building(table, Append(cs, OfLength(e, v)), k)
  /\ Unique(e) \in S => WithUnique(s) = Building(table, Append(cs, Unique(e)), k)
  /\ Primary(e) \in S => WithKey(s) = Building(table, Append(cs, Primary(e)), Len(cs))

\* The last of the columns is the one that changes.
LEMMA BuildingLast ==
  ASSUME NEW S, NEW cs \in Seq(S), NEW e \in S, NEW table, NEW k, NEW s, s = Building(table, Append(cs, e), k)
  PROVE  Changes(S, cs, e, table, k, s)
<1> DEFINE n == Len(cs) + 1
           x == Append(cs, e)
           B(d, i) == Building(table, d, i)
<1>1. /\ s.columns = x /\ \A d : [s EXCEPT !.columns = d] = B(d, k)
      /\ \A d, i : [s EXCEPT !.columns = d, !.primary_key_index = i] = B(d, i)
  <2>0. Built(table, x, k)
    BY BuildingIs, Zenon
  <2>1. \A d : WithColumns(s, d) = B(d, k)
    BY <2>0, Zenon DEF Built
  <2>2. \A d, i : WithColumnsAndKey(s, d, i) = B(d, i)
    BY <2>0, Zenon DEF Built
  <2>3. s.columns = x
    BY Zenon DEF Building, BlankStatement
  <2>4. \A d : [s EXCEPT !.columns = d] = B(d, k)
    BY <2>1, Zenon DEF WithColumns
  <2>5. \A d, i : [s EXCEPT !.columns = d, !.primary_key_index = i] = B(d, i)
    BY <2>2, Zenon DEF WithColumnsAndKey
  <2> HIDE DEF B, x
  <2> QED BY <2>3, <2>4, <2>5, Zenon
<1>2. Len(x) = n /\ x[n] = e /\ Len(cs) \in Nat /\ n - 1 = Len(cs) /\ n \in DOMAIN x
  <2>1. Len(x) = n /\ x[n] = e /\ Len(cs) \in Nat /\ x \in Seq(S)
    BY LastOf
  <2>2. DOMAIN x = 1 .. n
    BY <2>1, LenProperties
  <2> QED BY <2>1, <2>2
<1>3. \A d \in S : [x EXCEPT ![n] = d] = Append(cs, d)
  BY LastOf
<1>4. "columns" \in DOMAIN s
  BY Zenon DEF Building, BlankStatement
<1>5. Len(s.columns) = n
  BY <1>1, <1>2
<1> HIDE DEF x, n, B
<1>6. \A v : [s EXCEPT !.columns[n].type = v] = [s EXCEPT !.columns = [x EXCEPT ![n] = [e EXCEPT !.type = v]]]
  BY <1>1, <1>2, <1>4
<1>7. \A v : [s EXCEPT !.columns[n].length = v] = [s EXCEPT !.columns = [x EXCEPT ![n] = [e EXCEPT !.length = v]]]
  BY <1>1, <1>2, <1>4
<1>8. [s EXCEPT !.columns[n].is_unique = TRUE] = [s EXCEPT !.columns = [x EXCEPT ![n] = [e EXCEPT !.is_unique = TRUE]]]
  BY <1>1, <1>2, <1>4
<1>9. [s EXCEPT !.columns[n].is_primary = TRUE, !.primary_key_index = n - 1]
      = [s EXCEPT !.columns = [x EXCEPT ![n] = [e EXCEPT !.is_primary = TRUE]], !.primary_key_index = n - 1]
  BY <1>1, <1>2, <1>4
<1>10. \A v : [e EXCEPT !.type = v] \in S =>
         [s EXCEPT !.columns[n].type = v] = B(Append(cs, [e EXCEPT !.type = v]), k)
  <2> SUFFICES ASSUME NEW v, [e EXCEPT !.type = v] \in S
               PROVE  [s EXCEPT !.columns[n].type = v] = B(Append(cs, [e EXCEPT !.type = v]), k)
    OBVIOUS
  <2> DEFINE d == [e EXCEPT !.type = v]
  <2>1. [s EXCEPT !.columns[n].type = v] = [s EXCEPT !.columns = [x EXCEPT ![n] = d]]
    BY <1>6
  <2> HIDE DEF d
  <2>2. [x EXCEPT ![n] = d] = Append(cs, d)
    BY <1>3 DEF d
  <2> QED BY <1>1, <2>1, <2>2, Zenon DEF d
<1>11. \A v : [e EXCEPT !.length = v] \in S =>
         [s EXCEPT !.columns[n].length = v] = B(Append(cs, [e EXCEPT !.length = v]), k)
  <2> SUFFICES ASSUME NEW v, [e EXCEPT !.length = v] \in S
               PROVE  [s EXCEPT !.columns[n].length = v] = B(Append(cs, [e EXCEPT !.length = v]), k)
    OBVIOUS
  <2> DEFINE d == [e EXCEPT !.length = v]
  <2>1. [s EXCEPT !.columns[n].length = v] = [s EXCEPT !.columns = [x EXCEPT ![n] = d]]
    BY <1>7
  <2> HIDE DEF d
  <2>2. [x EXCEPT ![n] = d] = Append(cs, d)
    BY <1>3 DEF d
  <2> QED BY <1>1, <2>1, <2>2, Zenon DEF d
<1>12. [e EXCEPT !.is_unique = TRUE] \in S =>
         [s EXCEPT !.columns[n].is_unique = TRUE] = B(Append(cs, [e EXCEPT !.is_unique = TRUE]), k)
  <2> DEFINE d == [e EXCEPT !.is_unique = TRUE]
  <2>1. [s EXCEPT !.columns[n].is_unique = TRUE] = [s EXCEPT !.columns = [x EXCEPT ![n] = d]]
    BY <1>8
  <2> HIDE DEF d
  <2>2. d \in S => [x EXCEPT ![n] = d] = Append(cs, d)
    BY <1>3
  <2> QED BY <1>1, <2>1, <2>2, Zenon DEF d
<1>13. [e EXCEPT !.is_primary = TRUE] \in S =>
         [s EXCEPT !.columns[n].is_primary = TRUE, !.primary_key_index = n - 1]
         = B(Append(cs, [e EXCEPT !.is_primary = TRUE]), n - 1)
  <2> DEFINE d == [e EXCEPT !.is_primary = TRUE]
  <2>1. [s EXCEPT !.columns[n].is_primary = TRUE, !.primary_key_index = n - 1]
        = [s EXCEPT !.columns = [x EXCEPT ![n] = d], !.primary_key_index = n - 1]
    BY <1>9
  <2> HIDE DEF d
  <2>2. d \in S => [x EXCEPT ![n] = d] = Append(cs, d)
    BY <1>3
  <2> QED BY <1>1, <2>1, <2>2, Zenon DEF d
<1>14. Len(s.columns) = n /\ n = Len(cs) + 1 /\ n - 1 = Len(cs)
  BY <1>2, <1>5 DEF n
<1>15. /\ \A v : WithType(s, v) = [s EXCEPT !.columns[n].type = v]
       /\ \A v : WithLength(s, v) = [s EXCEPT !.columns[n].length = v]
       /\ WithUnique(s) = [s EXCEPT !.columns[n].is_unique = TRUE]
       /\ WithKey(s) = [s EXCEPT !.columns[n].is_primary = TRUE, !.primary_key_index = n - 1]
  BY <1>5, Zenon DEF WithType, WithLength, WithUnique, WithKey
<1>16. \A v : [e EXCEPT !.type = v] \in S => WithType(s, v) = B(Append(cs, [e EXCEPT !.type = v]), k)
  BY <1>10, <1>15, Zenon
<1>17. \A v : [e EXCEPT !.length = v] \in S => WithLength(s, v) = B(Append(cs, [e EXCEPT !.length = v]), k)
  BY <1>11, <1>15, Zenon
<1>18. [e EXCEPT !.is_unique = TRUE] \in S => WithUnique(s) = B(Append(cs, [e EXCEPT !.is_unique = TRUE]), k)
  BY <1>12, <1>15, Zenon
<1>19. [e EXCEPT !.is_primary = TRUE] \in S => WithKey(s) = B(Append(cs, [e EXCEPT !.is_primary = TRUE]), Len(cs))
  BY <1>13, <1>14, <1>15, Zenon
<1>20. \A v : OfType(e, v) \in S => WithType(s, v) = B(Append(cs, OfType(e, v)), k)
  BY <1>16, Zenon DEF OfType
<1>21. \A v : OfLength(e, v) \in S => WithLength(s, v) = B(Append(cs, OfLength(e, v)), k)
  BY <1>17, Zenon DEF OfLength
<1>22. Unique(e) \in S => WithUnique(s) = B(Append(cs, Unique(e)), k)
  BY <1>18, Zenon DEF Unique
<1>23. Primary(e) \in S => WithKey(s) = B(Append(cs, Primary(e)), Len(cs))
  BY <1>19, Zenon DEF Primary
<1> QED BY <1>20, <1>21, <1>22, <1>23, Zenon DEF B, Changes

\* A column, as far as it has been read.
Drawn == [name : Spelt, type : {"INT", "FLOAT", "STRING", "BOOL"}, length : Int, is_primary : BOOLEAN, is_unique : BOOLEAN]
Begun(c) == [name |-> AsColumn(c.name), type |-> "INT", length |-> 0, is_primary |-> FALSE, is_unique |-> FALSE]
Typed(c) == [name |-> AsColumn(c.name), type |-> c.type, length |-> 0, is_primary |-> FALSE, is_unique |-> FALSE]
\* A column whose length, if it has one, is one token of a string.
LengthOK(c) == c.length = <<>> \/ (c.type = "STRING" /\ Len(c.length) = 1)

\* A length is a number, whatever the token.
LEMMA AtoiIs == ASSUME NEW t PROVE Atoi(t) \in Int
BY ParserAssumption DEF Atoi

\* The tokens of a column.
LEMMA WrittenColumnIs ==
  ASSUME NEW c \in WrittenColumns
  PROVE  /\ c.name \in Spelt /\ c.name # NULL /\ AsColumn(c.name) \in Spelt
         /\ c.type \in {"INT", "FLOAT", "STRING", "BOOL"} /\ c.type \in Spelt /\ c.type # NULL
         /\ c.constraints \in Seq(Constraints) /\ Len(c.constraints) \in Nat
         /\ \A j \in 1 .. Len(c.constraints) : c.constraints[j] \in {"PRIMARY KEY", "NOT NULL", "UNIQUE"}
         /\ DOMAIN c.constraints = 1 .. Len(c.constraints)
         /\ LengthOK(c) /\ c.length # <<>> => c.length = <<c.length[1]>> /\ c.length[1] \in Spelt /\ c.length[1] # NULL
<1> DEFINE A == AnyToken
           C == Constraints
<1>1. A \subseteq Spelt /\ \A t \in A : t # NULL
  BY SpeltWords, NoNull, Zenon
<1>2. c.name \in A /\ c.type \in {"INT", "FLOAT", "STRING", "BOOL"} /\ c.length \in Seq(A) /\ c.constraints \in Seq(C)
  BY DEF WrittenColumns
<1>3. c.type \in Spelt /\ c.type # NULL
  BY <1>2, SpeltWords, NoNull, Zenon
<1>7. AsColumn(c.name) \in Spelt
  BY <1>2, NameKept, Zenon DEF AnyToken, Spelt
<1> HIDE DEF A, C
<1>4. /\ Len(c.constraints) \in Nat /\ DOMAIN c.constraints = 1 .. Len(c.constraints)
      /\ \A j \in 1 .. Len(c.constraints) : c.constraints[j] \in C
  BY <1>2, LenProperties, ElementOfSeq
<1>5. \A j \in 1 .. Len(c.constraints) : c.constraints[j] \in {"PRIMARY KEY", "NOT NULL", "UNIQUE"}
  BY <1>4, Zenon DEF C, Constraints
<1>6. LengthOK(c) /\ c.length # <<>> => c.length = <<c.length[1]>> /\ c.length[1] \in A
  BY <1>2 DEF LengthOK
<1> QED BY <1>1, <1>2, <1>3, <1>4, <1>5, <1>6, <1>7, Zenon DEF C

\* A column as it becomes: its name, its type, its length.
LEMMA UpToIs ==
  ASSUME NEW c \in WrittenColumns, LengthOK(c)
  PROVE  /\ Begun(c) \in Drawn /\ Typed(c) \in Drawn /\ \A m : ColumnUpTo(c, m) \in Drawn
         /\ OfType(Begun(c), c.type) = Typed(c) /\ DataType(c.type) = c.type
         /\ c.type # "STRING" => Typed(c) = ColumnUpTo(c, 0) /\ c.length = <<>>
         /\ c.type = "STRING" /\ c.length = <<>> => OfLength(Typed(c), MaxStringLen) = ColumnUpTo(c, 0)
         /\ c.length # <<>> => c.type = "STRING" /\ OfLength(Typed(c), Atoi(c.length[1])) = ColumnUpTo(c, 0)
<1>1. AsColumn(c.name) \in Spelt /\ c.type \in {"INT", "FLOAT", "STRING", "BOOL"}
  BY WrittenColumnIs, Zenon
<1>2. Atoi(c.length[1]) \in Int /\ MaxStringLen \in Int /\ 0 \in Int
  BY AtoiIs, ParserAssumption
<1> DEFINE K(m) == \E j \in 1 .. m : c.constraints[j] = "PRIMARY KEY"
           U(m) == \E j \in 1 .. m : c.constraints[j] = "UNIQUE"
           L == IF c.type # "STRING" THEN 0 ELSE IF c.length = <<>> THEN MaxStringLen ELSE Atoi(c.length[1])
<1>3. \A m : ColumnUpTo(c, m) = [name |-> AsColumn(c.name), type |-> c.type, length |-> L, is_primary |-> K(m), is_unique |-> U(m)]
  BY DEF ColumnUpTo
<1>4. \A m : K(m) \in BOOLEAN /\ U(m) \in BOOLEAN
  BY Zenon
<1>5. ~K(0) /\ ~U(0)
  <2> DEFINE key == "PRIMARY KEY"
             unique == "UNIQUE"
  <2> HIDE DEF key, unique
  <2>1. ~(\E j \in 1 .. 0 : c.constraints[j] = key) /\ ~(\E j \in 1 .. 0 : c.constraints[j] = unique)
    OBVIOUS
  <2> QED BY <2>1, Zenon DEF key, unique
<1>6. L \in Int
  BY <1>2
<1>7. /\ c.type # "STRING" => L = 0
      /\ c.type = "STRING" /\ c.length = <<>> => L = MaxStringLen
      /\ c.type = "STRING" /\ c.length # <<>> => L = Atoi(c.length[1])
  BY Zenon
<1> HIDE DEF K, U, L
<1>8. Begun(c) \in Drawn
  BY <1>1, <1>2 DEF Begun, Drawn
<1>9. Typed(c) \in Drawn
  BY <1>1, <1>2 DEF Typed, Drawn
<1>10. \A m : ColumnUpTo(c, m) \in Drawn
  BY <1>1, <1>3, <1>4, <1>6 DEF Drawn
<1> DEFINE no == FALSE
           R(t, l) == [name |-> AsColumn(c.name), type |-> t, length |-> l, is_primary |-> no, is_unique |-> no]
           T(r, v) == [r EXCEPT !.type = v]
           H(r, v) == [r EXCEPT !.length = v]
<1> HIDE DEF no
<1>a. \A t, l, v : T(R(t, l), v) = R(v, l)
  BY SMT
<1>b. \A t, l, v : H(R(t, l), v) = R(t, v)
  BY SMT
<1>c. Begun(c) = R("INT", 0) /\ Typed(c) = R(c.type, 0)
  BY DEF Begun, Typed, no
<1> HIDE DEF R, T, H
<1>d. T(Begun(c), c.type) = Typed(c)
  BY <1>a, <1>c, Zenon
<1>11. OfType(Begun(c), c.type) = Typed(c)
  BY <1>d, Zenon DEF T, OfType
<1>12. DataType(c.type) = c.type
  BY <1>1, Zenon DEF DataType
<1>13. ColumnUpTo(c, 0) = [name |-> AsColumn(c.name), type |-> c.type, length |-> L, is_primary |-> FALSE, is_unique |-> FALSE]
  <2>1. K(0) = FALSE /\ U(0) = FALSE
    BY <1>4, <1>5, Zenon
  <2> QED BY <1>3, <2>1, Zenon
<1>e. \A v : H(Typed(c), v) = R(c.type, v)
  BY <1>b, <1>c, Zenon
<1>14. \A v : H(Typed(c), v)
              = [name |-> AsColumn(c.name), type |-> c.type, length |-> v, is_primary |-> FALSE, is_unique |-> FALSE]
  BY <1>e, Zenon DEF R, no
<1>15. L = 0 => Typed(c) = ColumnUpTo(c, 0)
  BY <1>13, Zenon DEF Typed
<1>f. \A v : L = v => H(Typed(c), v) = ColumnUpTo(c, 0)
  BY <1>13, <1>14, Zenon
<1>16. \A v : L = v => OfLength(Typed(c), v) = ColumnUpTo(c, 0)
  BY <1>f, Zenon DEF H, OfLength
<1>17. c.type # "STRING" => c.length = <<>>
  BY Zenon DEF LengthOK
<1> QED BY <1>7, <1>8, <1>9, <1>10, <1>11, <1>12, <1>15, <1>16, <1>17, Zenon

\* One constraint more.
LEMMA UpToNext ==
  ASSUME NEW c \in WrittenColumns, NEW m \in 0 .. Len(c.constraints) - 1
  PROVE  /\ c.constraints[m + 1] = "PRIMARY KEY" =>
              Primary(ColumnUpTo(c, m)) = ColumnUpTo(c, m + 1)
         /\ c.constraints[m + 1] = "UNIQUE" =>
              Unique(ColumnUpTo(c, m)) = ColumnUpTo(c, m + 1)
         /\ c.constraints[m + 1] = "NOT NULL" => ColumnUpTo(c, m) = ColumnUpTo(c, m + 1)
<1> DEFINE key == "PRIMARY KEY"
           unique == "UNIQUE"
           null == "NOT NULL"
           x == c.constraints
           K(i) == \E j \in 1 .. i : x[j] = key
           U(i) == \E j \in 1 .. i : x[j] = unique
           L == IF c.type # "STRING" THEN 0 ELSE IF c.length = <<>> THEN MaxStringLen ELSE Atoi(c.length[1])
<1>1. \A i : ColumnUpTo(c, i) = [name |-> AsColumn(c.name), type |-> c.type, length |-> L, is_primary |-> K(i), is_unique |-> U(i)]
  BY DEF ColumnUpTo
<1>2. key # unique /\ key # null /\ unique # null
  BY Zenon
<1>3. m \in Nat
  <2>1. Len(c.constraints) \in Nat
    BY WrittenColumnIs, Zenon
  <2> QED BY <2>1
<1> HIDE DEF key, unique, null, x, L
<1>4. 1 .. m + 1 = (1 .. m) \cup {m + 1}
  BY <1>3
<1>5. (K(m + 1) <=> K(m) \/ x[m + 1] = key) /\ (U(m + 1) <=> U(m) \/ x[m + 1] = unique)
  BY <1>4, Zenon
<1>6. /\ K(m) \in BOOLEAN /\ U(m) \in BOOLEAN /\ K(m + 1) \in BOOLEAN /\ U(m + 1) \in BOOLEAN
  BY Zenon
<1> HIDE DEF K, U
<1>7. x[m + 1] = key => K(m + 1) = TRUE /\ U(m + 1) = U(m)
  BY <1>2, <1>5, <1>6
<1>8. x[m + 1] = unique => U(m + 1) = TRUE /\ K(m + 1) = K(m)
  BY <1>2, <1>5, <1>6
<1>9. x[m + 1] = null => U(m + 1) = U(m) /\ K(m + 1) = K(m)
  BY <1>2, <1>5, <1>6
<1> DEFINE R(k, u) == [name |-> AsColumn(c.name), type |-> c.type, length |-> L, is_primary |-> k, is_unique |-> u]
           P(r, v) == [r EXCEPT !.is_primary = v]
           Q(r, v) == [r EXCEPT !.is_unique = v]
<1>10. \A k, u, v : P(R(k, u), v) = R(v, u)
  BY SMT
<1>11. \A k, u, v : Q(R(k, u), v) = R(k, v)
  BY SMT
<1>12. ColumnUpTo(c, m) = R(K(m), U(m)) /\ ColumnUpTo(c, m + 1) = R(K(m + 1), U(m + 1))
  BY <1>1, Zenon
<1> HIDE DEF R, P, Q
<1>a. x[m + 1] = key => P(ColumnUpTo(c, m), TRUE) = ColumnUpTo(c, m + 1)
  BY <1>7, <1>10, <1>12, ZenonT(60)
<1>b. x[m + 1] = unique => Q(ColumnUpTo(c, m), TRUE) = ColumnUpTo(c, m + 1)
  <2> SUFFICES ASSUME x[m + 1] = unique PROVE Q(ColumnUpTo(c, m), TRUE) = ColumnUpTo(c, m + 1)
    OBVIOUS
  <2>1. Q(R(K(m), U(m)), TRUE) = R(K(m), TRUE)
    BY <1>11, Zenon
  <2>2. R(K(m + 1), U(m + 1)) = R(K(m), TRUE)
    BY <1>8
  <2> QED BY <1>12, <2>1, <2>2, Zenon
<1>13. x[m + 1] = key => Primary(ColumnUpTo(c, m)) = ColumnUpTo(c, m + 1)
  BY <1>a, Zenon DEF P, Primary
<1>14. x[m + 1] = unique => Unique(ColumnUpTo(c, m)) = ColumnUpTo(c, m + 1)
  BY <1>b, Zenon DEF Q, Unique
<1>15. x[m + 1] = null => ColumnUpTo(c, m) = ColumnUpTo(c, m + 1)
  BY <1>9, <1>12, Zenon
<1> QED BY <1>13, <1>14, <1>15, Zenon DEF key, unique, null, x

\* What is left of a column's text, before t.
ConstraintTexts(c) == [j \in DOMAIN c.constraints |-> ConstraintText[c.constraints[j]]]
Constrained(c, m, t) == Left(ConstraintTexts(c), m) \o t
Lengthened(c, t) == LengthText(c) \o Constrained(c, 0, t)

\* One token or two are a text.
LEMMA FewTokens ==
  ASSUME NEW S
  PROVE  \A a, b \in S : <<a>> \in Seq(S) /\ <<a, b>> \in Seq(S)
OBVIOUS

\* A constraint is one token or two.
LEMMA ConstraintTextIs ==
  ASSUME NEW k \in {"PRIMARY KEY", "NOT NULL", "UNIQUE"}, NEW r \in Seq(Spelt)
  PROVE  /\ ConstraintText[k] \in Seq(Spelt)
         /\ k = "PRIMARY KEY" => ConstraintText[k] \o r = <<"PRIMARY">> \o (<<"KEY">> \o r)
         /\ k = "NOT NULL" => ConstraintText[k] \o r = <<"NOT">> \o (<<"NULL">> \o r)
         /\ k = "UNIQUE" => ConstraintText[k] \o r = <<"UNIQUE">> \o r
         /\ <<"KEY">> \o r \in Seq(Spelt) /\ <<"NULL">> \o r \in Seq(Spelt)
<1> DEFINE p == "PRIMARY"
           y == "KEY"
           o == "NOT"
           l == "NULL"
           u == "UNIQUE"
           ct == ConstraintText[k]
<1>1. p \in Spelt /\ y \in Spelt /\ o \in Spelt /\ l \in Spelt /\ u \in Spelt
  BY SpeltWords, Zenon
<1>2. /\ k = "PRIMARY KEY" => ct = <<p, y>>
      /\ k = "NOT NULL" => ct = <<o, l>>
      /\ k = "UNIQUE" => ct = <<u>>
  <2>1. ct = CASE k = "PRIMARY KEY" -> <<"PRIMARY", "KEY">> [] k = "NOT NULL" -> <<"NOT", "NULL">> [] k = "UNIQUE" -> <<"UNIQUE">>
    BY Zenon DEF ConstraintText, Constraints
  <2> QED BY <2>1, Zenon
<1>3. k = "PRIMARY KEY" \/ k = "NOT NULL" \/ k = "UNIQUE"
  BY Zenon
<1> HIDE DEF p, y, o, l, u, ct
<1>4. <<p, y>> \in Seq(Spelt) /\ <<o, l>> \in Seq(Spelt) /\ <<u>> \in Seq(Spelt)
  BY <1>1, FewTokens, Zenon
<1>5. <<p, y>> \o r = <<p>> \o (<<y>> \o r) /\ <<o, l>> \o r = <<o>> \o (<<l>> \o r)
  BY <1>1, TwoFirst
<1>6. <<y>> \o r \in Seq(Spelt) /\ <<l>> \o r \in Seq(Spelt)
  BY <1>1, TokenFirst
<1>7. ct \in Seq(Spelt)
  BY <1>2, <1>3, <1>4, Zenon
<1> QED BY <1>2, <1>5, <1>6, <1>7, Zenon DEF p, y, o, l, u, ct

\* It is one constraint shorter with each that is read.
LEMMA ConstrainedIs ==
  ASSUME NEW c \in WrittenColumns, NEW t \in Seq(Spelt)
  PROVE  /\ \A m \in 0 .. Len(c.constraints) : Constrained(c, m, t) \in Seq(Spelt)
         /\ Constrained(c, Len(c.constraints), t) = t
         /\ FlattenSeq(ConstraintTexts(c)) \in Seq(Spelt) /\ Constrained(c, 0, t) = FlattenSeq(ConstraintTexts(c)) \o t
         /\ \A m \in 0 .. Len(c.constraints) - 1 :
              Constrained(c, m, t) = ConstraintText[c.constraints[m + 1]] \o Constrained(c, m + 1, t)
<1> DEFINE x == c.constraints
           n == Len(x)
           y == ConstraintTexts(c)
<1>1. n \in Nat /\ DOMAIN x = 1 .. n
  BY WrittenColumnIs, Zenon
<1>2. \A j \in 1 .. n : ConstraintText[x[j]] \in Seq(Spelt)
  <2>1. <<>> \in Seq(Spelt)
    BY EndIs, Zenon
  <2>2. \A j \in 1 .. n : x[j] \in {"PRIMARY KEY", "NOT NULL", "UNIQUE"}
    BY WrittenColumnIs, Zenon
  <2> QED BY <2>1, <2>2, ConstraintTextIs, Zenon
<1>3. y = [j \in 1 .. n |-> ConstraintText[x[j]]]
  BY <1>1, Zenon DEF ConstraintTexts
<1> HIDE DEF x, n, y
<1>4. y \in Seq(Seq(Spelt)) /\ Len(y) = n
  <2>1. y \in [1 .. n -> Seq(Spelt)]
    BY <1>2, <1>3
  <2> QED BY <1>1, <2>1, LenProperties
<1>5. /\ \A i \in 0 .. n : Left(y, i) \in Seq(Spelt)
      /\ FlattenSeq(y) = Left(y, 0) /\ Left(y, n) = <<>>
      /\ \A i \in 0 .. n - 1 : y[i + 1] \in Seq(Spelt) /\ Left(y, i) = y[i + 1] \o Left(y, i + 1)
  <2>1. /\ \A i \in 0 .. Len(y) : Left(y, i) \in Seq(Spelt)
        /\ FlattenSeq(y) = Left(y, 0) /\ Left(y, Len(y)) = <<>>
        /\ \A i \in 0 .. Len(y) - 1 : y[i + 1] \in Seq(Spelt) /\ Left(y, i) = y[i + 1] \o Left(y, i + 1)
    BY <1>4, LeftIs, Zenon
  <2> QED BY <1>4, <2>1
<1>6. \A m \in 0 .. n : Constrained(c, m, t) \in Seq(Spelt)
  <2> SUFFICES ASSUME NEW m \in 0 .. n PROVE Constrained(c, m, t) \in Seq(Spelt)
    OBVIOUS
  <2> DEFINE a == Left(y, m)
  <2>1. a \in Seq(Spelt)
    BY <1>5
  <2> HIDE DEF a
  <2>2. a \o t \in Seq(Spelt)
    BY <2>1, ConcatProperties
  <2> QED BY <2>2 DEF Constrained, a, y
<1>7. Constrained(c, n, t) = t
  <2>1. <<>> \o t = t
    BY ConcatEmptySeq
  <2> QED BY <1>5, <2>1, Zenon DEF Constrained, y
<1>8. FlattenSeq(y) \in Seq(Spelt) /\ Constrained(c, 0, t) = FlattenSeq(y) \o t
  <2>1. 0 \in 0 .. n
    BY <1>1
  <2> QED BY <1>5, <2>1, Zenon DEF Constrained, y
<1>9. \A m \in 0 .. n - 1 : Constrained(c, m, t) = ConstraintText[x[m + 1]] \o Constrained(c, m + 1, t)
  <2> SUFFICES ASSUME NEW m \in 0 .. n - 1
               PROVE  Constrained(c, m, t) = ConstraintText[x[m + 1]] \o Constrained(c, m + 1, t)
    OBVIOUS
  <2> DEFINE a == y[m + 1]
             b == Left(y, m + 1)
  <2>1. m + 1 \in 1 .. n /\ m + 1 \in 0 .. n
    BY <1>1
  <2>2. a \in Seq(Spelt) /\ b \in Seq(Spelt) /\ Left(y, m) = a \o b
    BY <1>5, <2>1
  <2>3. a = ConstraintText[x[m + 1]]
    BY <1>3, <2>1
  <2> HIDE DEF a, b
  <2>4. (a \o b) \o t = a \o (b \o t)
    <3>1. a \in Seq(Spelt) /\ b \in Seq(Spelt) /\ t \in Seq(Spelt)
      BY <2>2
    <3> QED BY <3>1, ConcatAssociative, SMTT(60)
  <2>5. Constrained(c, m, t) = Left(y, m) \o t /\ Constrained(c, m + 1, t) = b \o t
    BY Zenon DEF Constrained, b, y
  <2> QED BY <2>2, <2>3, <2>4, <2>5, Zenon
<1> QED BY <1>6, <1>7, <1>8, <1>9, Zenon DEF x, n, y

\* The next constraint, or what follows the last.
Following == {",", ")"}

\* So the next token is one that Constraint knows.
LEMMA ConstrainedFirst ==
  ASSUME NEW c \in WrittenColumns, NEW t \in Seq(Spelt), NEW e \in Following, NEW r \in Seq(Spelt), t = <<e>> \o r
  PROVE  \A m \in 0 .. Len(c.constraints) :
           \E a \in {"PRIMARY", "NOT", "UNIQUE", ",", ")"}, q \in Seq(Spelt) : Constrained(c, m, t) = <<a>> \o q
<1> DEFINE n == Len(c.constraints)
<1>0. n \in Nat
  BY WrittenColumnIs, Zenon
<1>1. \A j \in 1 .. n : c.constraints[j] \in {"PRIMARY KEY", "NOT NULL", "UNIQUE"}
  BY WrittenColumnIs, Zenon
<1> DEFINE Firsts == {"PRIMARY", "NOT", "UNIQUE", ",", ")"}
<1> HIDE DEF Firsts
<1> SUFFICES ASSUME NEW m \in 0 .. n
             PROVE  \E a \in Firsts, q \in Seq(Spelt) : Constrained(c, m, t) = <<a>> \o q
  BY DEF Firsts
<1>2. CASE m = n
  <2>1. Constrained(c, m, t) = <<e>> \o r
    BY <1>2, ConstrainedIs, Zenon
  <2> QED BY <2>1, Zenon DEF Firsts, Following
<1>3. CASE m # n
  <2> HIDE DEF n
  <2>1. m \in 0 .. n - 1 /\ m + 1 \in 0 .. n /\ m + 1 \in 1 .. n
    BY <1>0, <1>3
  <2> DEFINE k == c.constraints[m + 1]
             z == Constrained(c, m + 1, t)
  <2>2. k \in {"PRIMARY KEY", "NOT NULL", "UNIQUE"} /\ z \in Seq(Spelt) /\ Constrained(c, m, t) = ConstraintText[k] \o z
    BY <1>1, <2>1, ConstrainedIs, Zenon DEF n
  <2> HIDE DEF k, z
  <2>3. /\ k = "PRIMARY KEY" => ConstraintText[k] \o z = <<"PRIMARY">> \o (<<"KEY">> \o z)
        /\ k = "NOT NULL" => ConstraintText[k] \o z = <<"NOT">> \o (<<"NULL">> \o z)
        /\ k = "UNIQUE" => ConstraintText[k] \o z = <<"UNIQUE">> \o z
        /\ <<"KEY">> \o z \in Seq(Spelt) /\ <<"NULL">> \o z \in Seq(Spelt)
    BY <2>2, ConstraintTextIs, ZenonT(60)
  <2> QED BY <2>2, <2>3, Zenon DEF Firsts
<1> QED BY <1>2, <1>3

\* The whole column.
LEMMA ColumnTextIs ==
  ASSUME NEW c \in WrittenColumns, LengthOK(c), NEW t \in Seq(Spelt)
  PROVE  /\ ColumnText(c) \in Seq(Spelt) /\ Lengthened(c, t) \in Seq(Spelt)
         /\ <<c.type>> \o Lengthened(c, t) \in Seq(Spelt)
         /\ ColumnText(c) \o t = <<c.name>> \o (<<c.type>> \o Lengthened(c, t))
         /\ c.length = <<>> => Lengthened(c, t) = Constrained(c, 0, t)
         /\ c.length # <<>> =>
              /\ Lengthened(c, t) = <<"(">> \o (<<c.length[1]>> \o (<<")">> \o Constrained(c, 0, t)))
              /\ <<")">> \o Constrained(c, 0, t) \in Seq(Spelt)
              /\ <<c.length[1]>> \o (<<")">> \o Constrained(c, 0, t)) \in Seq(Spelt)
<1> DEFINE open == "("
           close == ")"
           a == c.name
           b == c.type
           d == c.length[1]
           f == FlattenSeq(ConstraintTexts(c))
           z == Constrained(c, 0, t)
           L == LengthText(c)
<1>1. a \in Spelt /\ b \in Spelt /\ (c.length # <<>> => d \in Spelt) /\ open \in Spelt /\ close \in Spelt
  BY WrittenColumnIs, SpeltWords, Zenon
<1>2. f \in Seq(Spelt) /\ z = f \o t /\ z \in Seq(Spelt)
  <2>1. f \in Seq(Spelt) /\ z = f \o t
    BY ConstrainedIs, Zenon
  <2> HIDE DEF f, z
  <2> QED BY <2>1, ConcatProperties
<1>3. ColumnText(c) = <<a, b>> \o L \o f
  BY Zenon DEF ColumnText, ConstraintTexts
<1>4. L = IF c.length = <<>> THEN <<>> ELSE <<open, d, close>>
  BY Zenon DEF LengthText
<1>5. Lengthened(c, t) = L \o z
  BY DEF Lengthened
<1> HIDE DEF open, close, a, b, d, f, z, L
<1>6. L \in Seq(Spelt) /\ <<a, b>> \in Seq(Spelt)
  BY <1>1, <1>4
<1>7. c.length = <<>> => L \o z = z
  BY <1>2, <1>4, ConcatEmptySeq
<1>8. c.length # <<>> =>
        /\ L \o z = <<open>> \o (<<d>> \o (<<close>> \o z))
        /\ <<close>> \o z \in Seq(Spelt)
        /\ <<d>> \o (<<close>> \o z) \in Seq(Spelt)
  <2> SUFFICES ASSUME c.length # <<>>
               PROVE  /\ L \o z = <<open>> \o (<<d>> \o (<<close>> \o z))
                      /\ <<close>> \o z \in Seq(Spelt)
                      /\ <<d>> \o (<<close>> \o z) \in Seq(Spelt)
    OBVIOUS
  <2>1. <<open, d, close>> \o z = <<open>> \o (<<d>> \o (<<close>> \o z))
    <3>1. open \in Spelt /\ d \in Spelt /\ close \in Spelt /\ z \in Seq(Spelt)
      BY <1>1, <1>2
    <3> QED BY <3>1, ThreeFirst, SMTT(60)
  <2> DEFINE q == <<close>> \o z
  <2>2. q \in Seq(Spelt)
    BY <1>1, <1>2, TokenFirst
  <2> HIDE DEF q
  <2>3. <<d>> \o q \in Seq(Spelt)
    BY <1>1, <2>2, TokenFirst
  <2> QED BY <1>4, <2>1, <2>2, <2>3, Zenon DEF q
<1>9. L \o z \in Seq(Spelt)
  BY <1>2, <1>6, ConcatProperties
<1> DEFINE h == <<a, b>> \o L
           m == L \o z
<1>10. h \in Seq(Spelt) /\ h \o f \in Seq(Spelt)
  <2>1. h \in Seq(Spelt)
    BY <1>6, ConcatProperties
  <2> HIDE DEF h
  <2> QED BY <1>2, <2>1, ConcatProperties
<1>11. (h \o f) \o t = h \o (f \o t)
  <2> HIDE DEF h
  <2>1. h \in Seq(Spelt) /\ f \in Seq(Spelt) /\ t \in Seq(Spelt)
    BY <1>2, <1>10
  <2> QED BY <2>1, ConcatAssociative, SMTT(60)
<1>12. (<<a, b>> \o L) \o z = <<a, b>> \o (L \o z)
  <2> DEFINE g == <<a, b>>
  <2>1. g \in Seq(Spelt)
    BY <1>6
  <2> HIDE DEF g
  <2>2. (g \o L) \o z = g \o (L \o z)
    <3>1. g \in Seq(Spelt) /\ L \in Seq(Spelt) /\ z \in Seq(Spelt)
      BY <1>2, <1>6, <2>1
    <3> QED BY <3>1, ConcatAssociative, SMTT(60)
  <2> QED BY <2>2 DEF g
<1>13. <<a, b>> \o m = <<a>> \o (<<b>> \o m) /\ <<b>> \o m \in Seq(Spelt)
  <2>1. m \in Seq(Spelt)
    BY <1>9
  <2> HIDE DEF m
  <2> QED BY <1>1, <2>1, TwoFirst, TokenFirst
<1>14. ColumnText(c) \o t = <<a>> \o (<<b>> \o m)
  BY <1>2, <1>3, <1>11, <1>12, <1>13, Zenon
<1> QED BY <1>3, <1>5, <1>7, <1>8, <1>9, <1>10, <1>13, <1>14, Zenon DEF open, close, a, b, d, z

\* The key's index when m constraints of a column at i have been read.
KeyWith(c, m, k, i) == IF \E j \in 1 .. m : c.constraints[j] = "PRIMARY KEY" THEN i ELSE k

Keyed(c, k, i) ==
  /\ KeyWith(c, 0, k, i) = k
  /\ \A m \in 0 .. Len(c.constraints) - 1 :
       /\ c.constraints[m + 1] = "PRIMARY KEY" => KeyWith(c, m + 1, k, i) = i
       /\ c.constraints[m + 1] # "PRIMARY KEY" => KeyWith(c, m + 1, k, i) = KeyWith(c, m, k, i)

\* Only PRIMARY KEY changes it.
LEMMA KeyWithIs ==
  ASSUME NEW c \in WrittenColumns, NEW k, NEW i
  PROVE  Keyed(c, k, i)
<1> DEFINE key == "PRIMARY KEY"
           x == c.constraints
<1>1. Len(x) \in Nat
  BY WrittenColumnIs, Zenon
<1>2. \A m : KeyWith(c, m, k, i) = IF \E j \in 1 .. m : x[j] = key THEN i ELSE k
  BY DEF KeyWith
<1> HIDE DEF key, x
<1>3. KeyWith(c, 0, k, i) = k
  <2>1. ~(\E j \in 1 .. 0 : x[j] = key)
    OBVIOUS
  <2> QED BY <1>2, <2>1
<1>4. \A m \in 0 .. Len(x) - 1 :
        (\E j \in 1 .. m + 1 : x[j] = key) <=> ((\E j \in 1 .. m : x[j] = key) \/ x[m + 1] = key)
  <2> SUFFICES ASSUME NEW m \in 0 .. Len(x) - 1
               PROVE  (\E j \in 1 .. m + 1 : x[j] = key) <=> ((\E j \in 1 .. m : x[j] = key) \/ x[m + 1] = key)
    OBVIOUS
  <2>1. 1 .. m + 1 = (1 .. m) \cup {m + 1}
    BY <1>1
  <2> QED BY <2>1, Zenon
<1>5. \A m \in 0 .. Len(x) - 1 :
        /\ x[m + 1] = key => KeyWith(c, m + 1, k, i) = i
        /\ x[m + 1] # key => KeyWith(c, m + 1, k, i) = KeyWith(c, m, k, i)
  BY <1>2, <1>4, Zenon
<1> QED BY <1>3, <1>5, Zenon DEF key, x, Keyed

\* A column being read, its text followed by t: the columns before it are cs.
ColumnScript(c, t, table, cs, k, now) ==
  \/ now = Reading("type", <<c.type>> \o Lengthened(c, t), Building(table, Append(cs, Begun(c)), k))
  \/ c.type = "STRING" /\ now = Reading("length", Lengthened(c, t), Building(table, Append(cs, Typed(c)), k))
  \/ /\ c.length # <<>>
     /\ \/ now = Reading("length_number", <<c.length[1]>> \o (<<")">> \o Constrained(c, 0, t)),
                         Building(table, Append(cs, Typed(c)), k))
        \/ now = Reading("length_end", <<")">> \o Constrained(c, 0, t), Building(table, Append(cs, ColumnUpTo(c, 0)), k))
  \/ \E m \in 0 .. Len(c.constraints) :
       now = Reading("constraint", Constrained(c, m, t),
                     Building(table, Append(cs, ColumnUpTo(c, m)), KeyWith(c, m, k, Len(cs))))
  \/ \E m \in 0 .. Len(c.constraints) - 1 :
       \/ /\ c.constraints[m + 1] = "PRIMARY KEY"
          /\ now = Reading("primary_key", <<"KEY">> \o Constrained(c, m + 1, t),
                           Building(table, Append(cs, ColumnUpTo(c, m)), KeyWith(c, m, k, Len(cs))))
       \/ /\ c.constraints[m + 1] = "NOT NULL"
          /\ now = Reading("not_null", <<"NULL">> \o Constrained(c, m + 1, t),
                           Building(table, Append(cs, ColumnUpTo(c, m)), KeyWith(c, m, k, Len(cs))))

\* It has been read.
ColumnRead(c, t, table, cs, k, now) ==
  now = Reading("constraint", t, Building(table, Append(cs, Column(c)), KeyWith(c, Len(c.constraints), k, Len(cs))))

\* A column is read to its end, and is the one that was written.
LEMMA ColumnStep ==
  ASSUME TypeOK, Next, NEW c \in WrittenColumns, LengthOK(c),
         NEW e \in Following, NEW r \in Seq(Spelt), NEW t, t = <<e>> \o r,
         NEW table, NEW cs \in Seq(Drawn), NEW k,
         ColumnScript(c, t, table, cs, k, Now)
  PROVE  ColumnRead(c, t, table, cs, k, Now) \/ ColumnScript(c, t, table, cs, k, Now')
<1> DEFINE n == Len(c.constraints)
           x == c.constraints
           z(m) == Constrained(c, m, t)
           l == Lengthened(c, t)
           A(d, i) == Building(table, Append(cs, d), i)
           K(m) == KeyWith(c, m, k, Len(cs))
           B(m) == A(ColumnUpTo(c, m), K(m))
           d == c.length[1]
           close == ")"
           Goal == ColumnRead(c, t, table, cs, k, Now) \/ ColumnScript(c, t, table, cs, k, Now')
<1>0. SUFFICES Goal
  OBVIOUS
<1>1. t \in Seq(Spelt) /\ e \in Spelt /\ e # NULL
  <2>1. e \in Spelt /\ e # NULL
    BY SpeltWords, NoNull, Zenon DEF Following
  <2> QED BY <2>1, TokenFirst
<1>2. /\ n \in Nat /\ c.type \in Spelt /\ c.type # NULL
      /\ \A m \in 0 .. n : z(m) \in Seq(Spelt)
      /\ z(n) = t
      /\ \A m \in 0 .. n - 1 : z(m) = ConstraintText[x[m + 1]] \o z(m + 1)
  <2>1. n \in Nat /\ c.type \in Spelt /\ c.type # NULL
    BY WrittenColumnIs, Zenon
  <2>2. /\ \A m \in 0 .. n : z(m) \in Seq(Spelt)
        /\ z(n) = t
        /\ \A m \in 0 .. n - 1 : z(m) = ConstraintText[x[m + 1]] \o z(m + 1)
    BY <1>1, ConstrainedIs, Zenon
  <2> QED BY <2>1, <2>2, Zenon
<1>3. \A m \in 0 .. n : \E a \in {"PRIMARY", "NOT", "UNIQUE", ",", ")"}, q \in Seq(Spelt) : z(m) = <<a>> \o q
  BY <1>1, ConstrainedFirst, Zenon
<1>4. /\ l \in Seq(Spelt)
      /\ <<c.type>> \o l \in Seq(Spelt)
      /\ c.length = <<>> => l = z(0)
      /\ c.length # <<>> =>
           /\ l = <<"(">> \o (<<d>> \o (<<close>> \o z(0)))
           /\ <<close>> \o z(0) \in Seq(Spelt)
           /\ <<d>> \o (<<close>> \o z(0)) \in Seq(Spelt)
           /\ d \in Spelt /\ d # NULL
  BY <1>1, ColumnTextIs, WrittenColumnIs, Zenon
<1>5. /\ Begun(c) \in Drawn /\ Typed(c) \in Drawn /\ \A m : ColumnUpTo(c, m) \in Drawn
      /\ OfType(Begun(c), c.type) = Typed(c) /\ DataType(c.type) = c.type
      /\ c.type # "STRING" => Typed(c) = ColumnUpTo(c, 0) /\ c.length = <<>>
      /\ c.type = "STRING" /\ c.length = <<>> => OfLength(Typed(c), MaxStringLen) = ColumnUpTo(c, 0)
      /\ c.length # <<>> => c.type = "STRING" /\ OfLength(Typed(c), Atoi(c.length[1])) = ColumnUpTo(c, 0)
  BY UpToIs, Zenon
<1>6. K(0) = k /\ \A m \in 0 .. n - 1 :
        /\ x[m + 1] = "PRIMARY KEY" => K(m + 1) = Len(cs)
        /\ x[m + 1] # "PRIMARY KEY" => K(m + 1) = K(m)
  <2>1. Keyed(c, k, Len(cs))
    BY KeyWithIs, Zenon
  <2> QED BY <2>1, Zenon DEF Keyed
<1>7. /\ \/ c.type = "STRING" /\ Now' = Reading("length", l, A(Typed(c), k))
         \/ c.length # <<>> /\ Now' = Reading("length_number", <<d>> \o (<<close>> \o z(0)), A(Typed(c), k))
         \/ c.length # <<>> /\ Now' = Reading("length_end", <<close>> \o z(0), A(ColumnUpTo(c, 0), k))
         => Goal
      /\ \A m \in 0 .. n : Now' = Reading("constraint", z(m), B(m)) => Goal
      /\ \A m \in 0 .. n - 1 : x[m + 1] = "PRIMARY KEY" /\ Now' = Reading("primary_key", <<"KEY">> \o z(m + 1), B(m)) => Goal
      /\ \A m \in 0 .. n - 1 : x[m + 1] = "NOT NULL" /\ Now' = Reading("not_null", <<"NULL">> \o z(m + 1), B(m)) => Goal
      /\ Now = Reading("constraint", t, B(n)) => Goal
  <2>1. Now = Reading("constraint", t, B(n)) => Goal
    BY Zenon DEF ColumnRead, Column
  <2> QED BY <2>1, Zenon DEF ColumnScript
<1>8. \/ Now = Reading("type", <<c.type>> \o l, A(Begun(c), k))
      \/ c.type = "STRING" /\ Now = Reading("length", l, A(Typed(c), k))
      \/ c.length # <<>> /\ Now = Reading("length_number", <<d>> \o (<<close>> \o z(0)), A(Typed(c), k))
      \/ c.length # <<>> /\ Now = Reading("length_end", <<close>> \o z(0), A(ColumnUpTo(c, 0), k))
      \/ \E m \in 0 .. n : Now = Reading("constraint", z(m), B(m))
      \/ \E m \in 0 .. n - 1 : x[m + 1] = "PRIMARY KEY" /\ Now = Reading("primary_key", <<"KEY">> \o z(m + 1), B(m))
      \/ \E m \in 0 .. n - 1 : x[m + 1] = "NOT NULL" /\ Now = Reading("not_null", <<"NULL">> \o z(m + 1), B(m))
  BY Zenon DEF ColumnScript
<1>9. \A a \in Drawn : \A i : Changes(Drawn, cs, a, table, i, A(a, i))
  <2> HIDE DEF n, x, z, l, K, B, d, close, Goal
  <2> SUFFICES ASSUME NEW a \in Drawn, NEW i PROVE Changes(Drawn, cs, a, table, i, A(a, i))
    OBVIOUS
  <2> DEFINE s == Building(table, Append(cs, a), i)
  <2>1. a \in Drawn /\ cs \in Seq(Drawn) /\ s = Building(table, Append(cs, a), i)
    OBVIOUS
  <2> HIDE DEF s
  <2>2. Changes(Drawn, cs, a, table, i, s)
    BY <2>1, BuildingLast
  <2> QED BY <2>2 DEF s
<1>10. B(0) = A(ColumnUpTo(c, 0), k) /\ 0 \in 0 .. n
  <2>1. 0 \in 0 .. n
    BY <1>2
  <2> QED BY <1>6, <2>1, Zenon
<1> HIDE DEF z, l, A, K, d, close, Goal, x, n, B
<1>11. CASE Now = Reading("type", <<c.type>> \o l, A(Begun(c), k))
  <2> DEFINE s == A(Begun(c), k)
             v == c.type
  <2>1. v \in Spelt /\ v # NULL /\ l \in Seq(Spelt) /\ Now = Reading("type", <<v>> \o l, s)
    BY <1>2, <1>4, <1>11
  <2>2. WithType(s, v) = A(Typed(c), k) /\ DataType(v) = v
    <3>1. WithType(s, v) = Building(table, Append(cs, OfType(Begun(c), v)), k)
      BY <1>5, <1>9, Zenon DEF Changes
    <3> QED BY <1>5, <3>1, Zenon DEF A
  <2> HIDE DEF s, v
  <2>3. at = "type" /\ Tok = v /\ stmt = s /\ \A q3, s3 : Take(q3, s3) => Now' = Reading(q3, l, s3)
    BY <2>1, Taking
  <2>4. ColumnType
    BY <2>1, <2>3, ByPlace, Zenon
  <2>5. Take(IF DataType(Tok) = "STRING" THEN "length" ELSE "constraint", WithType(stmt, DataType(Tok)))
    BY <2>4, Zenon DEF ColumnType, WithType, LastColumn
  <2>6. Now' = Reading(IF v = "STRING" THEN "length" ELSE "constraint", l, A(Typed(c), k))
    BY <2>2, <2>3, <2>5, Zenon
  <2>7. CASE v = "STRING"
    BY <1>7, <2>6, <2>7, Zenon DEF v
  <2>8. CASE v # "STRING"
    <3>1. Now' = Reading("constraint", z(0), B(0))
      BY <1>4, <1>5, <1>10, <2>6, <2>8, Zenon DEF v
    <3> QED BY <1>7, <1>10, <3>1, Zenon
  <2> QED BY <2>7, <2>8
<1>12. CASE c.type = "STRING" /\ Now = Reading("length", l, A(Typed(c), k))
  <2> DEFINE s == A(Typed(c), k)
             open == "("
             q == <<d>> \o (<<close>> \o z(0))
  <2>1. CASE c.length = <<>>
    <3>0. \E a \in {"PRIMARY", "NOT", "UNIQUE", ",", ")"}, y \in Seq(Spelt) : z(0) = <<a>> \o y
      BY <1>3, <1>10, Zenon
    <3>1. PICK a \in {"PRIMARY", "NOT", "UNIQUE", ",", ")"}, y \in Seq(Spelt) : z(0) = <<a>> \o y
      BY <3>0, Zenon
    <3>2. a \in Spelt /\ a # NULL /\ a # "(" /\ y \in Seq(Spelt) /\ Now = Reading("length", <<a>> \o y, s)
      BY <1>4, <1>12, <2>1, <3>1, SpeltWords, NoNull, Zenon
    <3> HIDE DEF s
    <3>3. at = "length" /\ Tok = a /\ stmt = s /\ \A q3, s3 : Peek(q3, s3) => Now' = Reading(q3, <<a>> \o y, s3)
      BY <3>2, Taking, Zenon
    <3>4. ColumnLength
      BY <3>2, <3>3, ByPlace, Zenon
    <3>5. Peek("constraint", WithLength(stmt, MaxStringLen))
      BY <3>2, <3>3, <3>4, Zenon DEF ColumnLength, WithLength, LastColumn
    <3>6. WithLength(s, MaxStringLen) = A(ColumnUpTo(c, 0), k)
      <4>1. OfLength(Typed(c), MaxStringLen) = ColumnUpTo(c, 0)
        BY <1>5, <1>12, <2>1, Zenon
      <4>2. WithLength(A(Typed(c), k), MaxStringLen) = A(OfLength(Typed(c), MaxStringLen), k)
        BY <1>5, <1>9, <4>1, ZenonT(60) DEF A, Changes
      <4> QED BY <4>1, <4>2, Zenon DEF s
    <3>7. Now' = Reading("constraint", z(0), B(0))
      BY <1>10, <3>1, <3>3, <3>5, <3>6, Zenon
    <3> QED BY <1>7, <1>10, <3>7, Zenon
  <2>2. CASE c.length # <<>>
    <3>1. Now = Reading("length", <<open>> \o q, s) /\ q \in Seq(Spelt) /\ open \in Spelt /\ open # NULL
      BY <1>4, <1>12, <2>2, SpeltWords, NoNull, Zenon
    <3> HIDE DEF s, open, q
    <3>2. at = "length" /\ Tok = open /\ stmt = s /\ \A q3, s3 : Take(q3, s3) => Now' = Reading(q3, q, s3)
      BY <3>1, Taking
    <3>3. ColumnLength
      BY <3>1, <3>2, ByPlace, Zenon
    <3>4. Take("length_number", s)
      BY <3>2, <3>3, Zenon DEF ColumnLength, open
    <3>5. Now' = Reading("length_number", q, s)
      BY <3>2, <3>4
    <3> QED BY <1>7, <2>2, <3>5, Zenon DEF q, s
  <2> QED BY <2>1, <2>2
<1>13. CASE c.length # <<>> /\ Now = Reading("length_number", <<d>> \o (<<close>> \o z(0)), A(Typed(c), k))
  <2> DEFINE s == A(Typed(c), k)
             q == <<close>> \o z(0)
  <2>1. d \in Spelt /\ d # NULL /\ q \in Seq(Spelt) /\ Now = Reading("length_number", <<d>> \o q, s)
    BY <1>4, <1>13
  <2>2. WithLength(s, Atoi(d)) = A(ColumnUpTo(c, 0), k)
    <3>1. OfLength(Typed(c), Atoi(d)) = ColumnUpTo(c, 0)
      BY <1>5, <1>13, Zenon DEF d
    <3>2. WithLength(A(Typed(c), k), Atoi(d)) = A(OfLength(Typed(c), Atoi(d)), k)
      BY <1>5, <1>9, <3>1, ZenonT(60) DEF A, Changes
    <3> QED BY <3>1, <3>2, Zenon
  <2> HIDE DEF s, q
  <2>3. at = "length_number" /\ Tok = d /\ stmt = s /\ \A q3, s3 : Take(q3, s3) => Now' = Reading(q3, q, s3)
    BY <2>1, Taking
  <2>4. ColumnLength
    BY <2>1, <2>3, ByPlace, Zenon
  <2>5. Take("length_end", WithLength(stmt, Atoi(Tok)))
    BY <2>3, <2>4, Zenon DEF ColumnLength, WithLength, LastColumn
  <2>6. Now' = Reading("length_end", q, A(ColumnUpTo(c, 0), k))
    BY <2>2, <2>3, <2>5, Zenon
  <2> QED BY <1>7, <1>13, <2>6, Zenon DEF q
<1>14. CASE c.length # <<>> /\ Now = Reading("length_end", <<close>> \o z(0), A(ColumnUpTo(c, 0), k))
  <2>1. Expected["length_end"] = <<close, "constraint">> /\ "length_end" \in DOMAIN Expected
    BY Zenon DEF Expected, close
  <2>2. close \in Spelt /\ close # NULL
    BY SpeltWords, NoNull, Zenon DEF close
  <2>3. z(0) \in Seq(Spelt)
    BY <1>2, <1>10
  <2>4. Now' = Reading("constraint", z(0), A(ColumnUpTo(c, 0), k))
    BY <1>14, <2>1, <2>2, <2>3, ExpectTaken
  <2> QED BY <1>7, <1>10, <2>4, Zenon
<1>15. CASE \E m \in 0 .. n : Now = Reading("constraint", z(m), B(m))
  <2>1. PICK m \in 0 .. n : Now = Reading("constraint", z(m), B(m))
    BY <1>15
  <2>2. CASE m = n
    BY <1>2, <1>7, <2>1, <2>2, Zenon
  <2>3. CASE m # n
    <3>1. m \in 0 .. n - 1 /\ m + 1 \in 0 .. n /\ m + 1 \in 1 .. n
      BY <1>2, <2>3
    <3> DEFINE w == z(m + 1)
               g == x[m + 1]
               s == B(m)
    <3>2. w \in Seq(Spelt) /\ z(m) = ConstraintText[g] \o w
      BY <1>2, <3>1
    <3>3. g \in {"PRIMARY KEY", "NOT NULL", "UNIQUE"}
      BY <3>1, WrittenColumnIs, Zenon DEF x, n
    <3>4. /\ g = "PRIMARY KEY" => z(m) = <<"PRIMARY">> \o (<<"KEY">> \o w)
          /\ g = "NOT NULL" => z(m) = <<"NOT">> \o (<<"NULL">> \o w)
          /\ g = "UNIQUE" => z(m) = <<"UNIQUE">> \o w
          /\ <<"KEY">> \o w \in Seq(Spelt) /\ <<"NULL">> \o w \in Seq(Spelt)
      <4> HIDE DEF w, g
      <4> QED BY <3>2, <3>3, ConstraintTextIs, ZenonT(60)
    <3>5. CASE g = "PRIMARY KEY"
      <4> DEFINE q == <<"KEY">> \o w
      <4>1. q \in Seq(Spelt) /\ "PRIMARY" \in Spelt /\ "PRIMARY" # NULL /\ Now = Reading("constraint", <<"PRIMARY">> \o q, s)
        BY <2>1, <3>4, <3>5, SpeltWords, NoNull, Zenon
      <4> HIDE DEF q, s
      <4>2. at = "constraint" /\ Tok = "PRIMARY" /\ stmt = s /\ \A q3, s3 : Take(q3, s3) => Now' = Reading(q3, q, s3)
        BY <4>1, Taking, Zenon
      <4>3. Constraint
        BY <4>1, <4>2, ByPlace, Zenon
      <4>4. Take("primary_key", s)
        BY <4>2, <4>3, Zenon DEF Constraint
      <4>5. Now' = Reading("primary_key", q, s)
        BY <4>2, <4>4, Zenon
      <4> QED BY <1>7, <3>1, <3>5, <4>5, Zenon DEF q, s
    <3>6. CASE g = "NOT NULL"
      <4> DEFINE q == <<"NULL">> \o w
      <4>1. q \in Seq(Spelt) /\ "NOT" \in Spelt /\ "NOT" # NULL /\ Now = Reading("constraint", <<"NOT">> \o q, s)
        BY <2>1, <3>4, <3>6, SpeltWords, NoNull, Zenon
      <4> HIDE DEF q, s
      <4>2. at = "constraint" /\ Tok = "NOT" /\ stmt = s /\ \A q3, s3 : Take(q3, s3) => Now' = Reading(q3, q, s3)
        BY <4>1, Taking, Zenon
      <4>3. Constraint
        BY <4>1, <4>2, ByPlace, Zenon
      <4>4. Take("not_null", s)
        BY <4>2, <4>3, Zenon DEF Constraint
      <4>5. Now' = Reading("not_null", q, s)
        BY <4>2, <4>4, Zenon
      <4> QED BY <1>7, <3>1, <3>6, <4>5, Zenon DEF q, s
    <3>7. CASE g = "UNIQUE"
      <4>1. "UNIQUE" \in Spelt /\ "UNIQUE" # NULL /\ Now = Reading("constraint", <<"UNIQUE">> \o w, s)
        BY <2>1, <3>4, <3>7, SpeltWords, NoNull, Zenon
      <4>2. WithUnique(s) = B(m + 1)
        <5>1. Unique(ColumnUpTo(c, m)) = ColumnUpTo(c, m + 1)
          BY <3>1, <3>7, UpToNext, Zenon DEF x, n
        <5>2. K(m + 1) = K(m)
          BY <1>6, <3>1, <3>7, Zenon
        <5>3. WithUnique(A(ColumnUpTo(c, m), K(m))) = A(ColumnUpTo(c, m + 1), K(m))
          <6>1. Changes(Drawn, cs, ColumnUpTo(c, m), table, K(m), A(ColumnUpTo(c, m), K(m)))
            BY <1>5, <1>9, Zenon
          <6>2. Unique(ColumnUpTo(c, m)) \in Drawn
            BY <1>5, <5>1, Zenon
          <6> QED BY <5>1, <6>1, <6>2, Zenon DEF A, Changes
        <5> QED BY <5>2, <5>3, Zenon DEF B
      <4> HIDE DEF w, s
      <4>3. at = "constraint" /\ Tok = "UNIQUE" /\ stmt = s /\ \A q3, s3 : Take(q3, s3) => Now' = Reading(q3, w, s3)
        BY <3>2, <4>1, Taking, Zenon
      <4>4. Constraint
        BY <4>1, <4>3, ByPlace, Zenon
      <4>5. Take("constraint", WithUnique(stmt))
        BY <4>3, <4>4, Zenon DEF Constraint, WithUnique, LastColumn
      <4>6. Now' = Reading("constraint", z(m + 1), B(m + 1))
        BY <4>2, <4>3, <4>5, Zenon DEF w
      <4> QED BY <1>7, <3>1, <4>6, Zenon
    <3> QED BY <3>3, <3>5, <3>6, <3>7, Zenon
  <2> QED BY <2>2, <2>3
<1>16. CASE \E m \in 0 .. n - 1 : x[m + 1] = "PRIMARY KEY" /\ Now = Reading("primary_key", <<"KEY">> \o z(m + 1), B(m))
  <2>1. PICK m \in 0 .. n - 1 : x[m + 1] = "PRIMARY KEY" /\ Now = Reading("primary_key", <<"KEY">> \o z(m + 1), B(m))
    BY <1>16, Zenon
  <2> DEFINE w == z(m + 1)
             s == B(m)
  <2>2. m + 1 \in 0 .. n
    <3>1. m \in 0 .. n - 1
      BY <2>1, Zenon
    <3> QED BY <1>2, <3>1
  <2>3. w \in Seq(Spelt) /\ "KEY" \in Spelt /\ "KEY" # NULL /\ Now = Reading("primary_key", <<"KEY">> \o w, s)
    BY <1>2, <2>1, <2>2, SpeltWords, NoNull, Zenon
  <2>4. WithKey(s) = B(m + 1)
    <3>1. Primary(ColumnUpTo(c, m)) = ColumnUpTo(c, m + 1)
      BY <2>1, UpToNext, Zenon DEF x, n
    <3>2. K(m + 1) = Len(cs)
      BY <1>6, <2>1, Zenon
    <3>3. WithKey(A(ColumnUpTo(c, m), K(m))) = A(ColumnUpTo(c, m + 1), Len(cs))
      BY <1>5, <1>9, <3>1, ZenonT(60) DEF A, Changes
    <3> QED BY <3>2, <3>3, Zenon DEF B
  <2> HIDE DEF w, s
  <2>5. at = "primary_key" /\ Tok = "KEY" /\ stmt = s /\ \A q3, s3 : Take(q3, s3) => Now' = Reading(q3, w, s3)
    BY <2>3, Taking, Zenon
  <2>6. ConstraintWord
    BY <2>3, <2>5, ByPlace, Zenon
  <2>7. Take("constraint", WithKey(stmt))
    BY <2>5, <2>6, Zenon DEF ConstraintWord, WithKey, LastColumn
  <2>8. Now' = Reading("constraint", z(m + 1), B(m + 1))
    BY <2>4, <2>5, <2>7, Zenon DEF w
  <2> QED BY <1>7, <2>2, <2>8, Zenon
<1>17. CASE \E m \in 0 .. n - 1 : x[m + 1] = "NOT NULL" /\ Now = Reading("not_null", <<"NULL">> \o z(m + 1), B(m))
  <2>1. PICK m \in 0 .. n - 1 : x[m + 1] = "NOT NULL" /\ Now = Reading("not_null", <<"NULL">> \o z(m + 1), B(m))
    BY <1>17, Zenon
  <2> DEFINE w == z(m + 1)
             s == B(m)
  <2>2. m + 1 \in 0 .. n
    <3>1. m \in 0 .. n - 1
      BY <2>1, Zenon
    <3> QED BY <1>2, <3>1
  <2>3. w \in Seq(Spelt) /\ "NULL" \in Spelt /\ "NULL" # NULL /\ Now = Reading("not_null", <<"NULL">> \o w, s)
    BY <1>2, <2>1, <2>2, SpeltWords, NoNull, Zenon
  <2>4. s = B(m + 1)
    <3>1. ColumnUpTo(c, m) = ColumnUpTo(c, m + 1)
      BY <2>1, UpToNext, Zenon DEF x, n
    <3>2. K(m + 1) = K(m)
      BY <1>6, <2>1, Zenon
    <3> QED BY <3>1, <3>2, Zenon DEF B
  <2> HIDE DEF w, s
  <2>5. at = "not_null" /\ Tok = "NULL" /\ stmt = s /\ \A q3, s3 : Take(q3, s3) => Now' = Reading(q3, w, s3)
    BY <2>3, Taking, Zenon
  <2>6. ConstraintWord
    BY <2>3, <2>5, ByPlace, Zenon
  <2>7. Take("constraint", s)
    BY <2>5, <2>6, Zenon DEF ConstraintWord
  <2>8. Now' = Reading("constraint", z(m + 1), B(m + 1))
    BY <2>4, <2>5, <2>7, Zenon DEF w
  <2> QED BY <1>7, <2>2, <2>8, Zenon
<1> QED BY <1>8, <1>11, <1>12, <1>13, <1>14, <1>15, <1>16, <1>17, Zenon

\* The columns as they become, and their texts.
Drawings(columns) == [i \in DOMAIN columns |-> Column(columns[i])]
ColumnTexts(columns) == [i \in DOMAIN columns |-> ColumnText(columns[i])]
DrawnTo(columns, i) == SubSeq(Drawings(columns), 1, i)
AfterColumn(columns, i) == More(ColumnTexts(columns), i) \o ListEnd
FromColumn(columns, i) == ColumnText(columns[i]) \o AfterColumn(columns, i)

\* The columns of a CREATE: at least one, and at most one key among them.
LEMMA ColumnsAre ==
  ASSUME NEW columns \in ColumnLists
  PROVE  /\ Len(columns) \in Nat /\ Len(columns) >= 1 /\ DOMAIN columns = 1 .. Len(columns)
         /\ \A i \in 1 .. Len(columns) : columns[i] \in WrittenColumns /\ LengthOK(columns[i])
         /\ \A i, j \in 1 .. Len(columns) : IsKey(columns[i]) /\ IsKey(columns[j]) => i = j
<1> DEFINE W == WrittenColumns
           n == Len(columns)
           K(i) == IsKey(columns[i])
           L(i) == LengthOK(columns[i])
<1>1. columns \in Seq(W) /\ columns # <<>>
  BY WrittenAssumption, Zenon
<1>2. \A i \in DOMAIN columns : L(i)
  BY WrittenAssumption, Zenon DEF LengthOK
<1>3. \A i, j \in DOMAIN columns : K(i) /\ K(j) => i = j
  BY WrittenAssumption, Zenon
<1> HIDE DEF W, K, L
<1>4. n \in Nat /\ n >= 1 /\ DOMAIN columns = 1 .. n /\ \A i \in 1 .. n : columns[i] \in W
  BY <1>1, LenProperties, ElementOfSeq, EmptySeq
<1>5. \A i \in 1 .. n : L(i)
  BY <1>2, <1>4, Zenon
<1>6. \A i, j \in 1 .. n : K(i) /\ K(j) => i = j
  BY <1>3, <1>4, Zenon
<1> QED BY <1>4, <1>5, <1>6, Zenon DEF W, K, L

\* Each column that is read is one more of them.
LEMMA DrawingsAre ==
  ASSUME NEW columns \in ColumnLists
  PROVE  /\ Drawings(columns) \in Seq(Drawn) /\ Len(Drawings(columns)) = Len(columns)
         /\ DrawnTo(columns, 0) = <<>> /\ DrawnTo(columns, Len(columns)) = Drawings(columns)
         /\ \A i \in 0 .. Len(columns) : DrawnTo(columns, i) \in Seq(Drawn) /\ Len(DrawnTo(columns, i)) = i
         /\ \A i \in 0 .. Len(columns) - 1 :
              DrawnTo(columns, i + 1) = Append(DrawnTo(columns, i), Column(columns[i + 1]))
<1> DEFINE n == Len(columns)
           V(i) == Column(columns[i])
           x == Drawings(columns)
           D == Drawn
<1>1. n \in Nat /\ \A i \in 1 .. n : columns[i] \in WrittenColumns /\ LengthOK(columns[i])
  BY ColumnsAre, Zenon
<1>2. \A i \in 1 .. n : V(i) \in D
  BY <1>1, UpToIs, Zenon DEF Column
<1>3. x = [i \in 1 .. n |-> V(i)]
  BY ColumnsAre, Zenon DEF Drawings
<1> HIDE DEF V, D, x, n
<1>4. x \in Seq(D) /\ Len(x) = n /\ \A i \in 1 .. n : x[i] = V(i)
  <2>1. x \in [1 .. n -> D] /\ \A i \in 1 .. n : x[i] = V(i)
    BY <1>2, <1>3
  <2> QED BY <1>1, <2>1, LenProperties
<1>5. /\ SubSeq(x, 1, 0) = <<>> /\ SubSeq(x, 1, n) = x
      /\ \A i \in 0 .. n : SubSeq(x, 1, i) \in Seq(D) /\ Len(SubSeq(x, 1, i)) = i
      /\ \A i \in 0 .. n - 1 : SubSeq(x, 1, i + 1) = Append(SubSeq(x, 1, i), x[i + 1])
  BY <1>4, PrefixIs
<1>6. \A i \in 0 .. n - 1 : SubSeq(x, 1, i + 1) = Append(SubSeq(x, 1, i), V(i + 1))
  <2>1. \A i \in 0 .. n - 1 : i + 1 \in 1 .. n
    BY <1>1
  <2> QED BY <1>4, <1>5, <2>1, Zenon
<1> QED BY <1>4, <1>5, <1>6, Zenon DEF DrawnTo, V, D, x, n

\* Text from a column on.
LEMMA CreateTexts ==
  ASSUME NEW columns \in ColumnLists
  PROVE  /\ Commas(ColumnTexts(columns)) \in Seq(Spelt)
         /\ Commas(ColumnTexts(columns)) \o ListEnd = FromColumn(columns, 1)
         /\ \A i \in 1 .. Len(columns) :
              /\ AfterColumn(columns, i) \in Seq(Spelt) /\ FromColumn(columns, i) \in Seq(Spelt)
              /\ FromColumn(columns, i)
                 = <<columns[i].name>> \o (<<columns[i].type>> \o Lengthened(columns[i], AfterColumn(columns, i)))
         /\ \A i \in 1 .. Len(columns) - 1 : AfterColumn(columns, i) = <<",">> \o FromColumn(columns, i + 1)
         /\ AfterColumn(columns, Len(columns)) = ListEnd
<1> DEFINE n == Len(columns)
           V(i) == ColumnText(columns[i])
           x == ColumnTexts(columns)
           f == ListEnd
<1>1. n \in Nat /\ n >= 1 /\ \A i \in 1 .. n : columns[i] \in WrittenColumns /\ LengthOK(columns[i])
  BY ColumnsAre, Zenon
<1>2. f \in Seq(Spelt)
  <2>1. ")" \in Spelt /\ End \in Seq(Spelt)
    BY SpeltWords, EndIs, Zenon
  <2> DEFINE close == ")"
  <2> HIDE DEF close
  <2>2. close \in Spelt
    BY <2>1 DEF close
  <2>3. <<close>> \o End \in Seq(Spelt)
    BY <2>1, <2>2, TokenFirst
  <2> QED BY <2>3, Zenon DEF ListEnd, close
<1>3. \A i \in 1 .. n : V(i) \in Seq(Spelt)
  BY <1>1, <1>2, ColumnTextIs, Zenon
<1>4. x = [i \in 1 .. n |-> V(i)]
  BY ColumnsAre, Zenon DEF ColumnTexts
<1> HIDE DEF V, x, n, f
<1>5. x \in Seq(Seq(Spelt)) /\ Len(x) = n /\ (\A i \in 1 .. n : x[i] = V(i)) /\ x # <<>>
  <2>1. x \in [1 .. n -> Seq(Spelt)] /\ \A i \in 1 .. n : x[i] = V(i)
    BY <1>3, <1>4
  <2>2. x \in Seq(Seq(Spelt)) /\ Len(x) = n
    BY <1>1, <2>1, LenProperties
  <2> QED BY <1>1, <2>1, <2>2
<1>6. /\ \A i \in 1 .. n : More(x, i) \o f \in Seq(Spelt) /\ V(i) \o (More(x, i) \o f) \in Seq(Spelt)
      /\ Commas(x) \in Seq(Spelt) /\ Commas(x) \o f = V(1) \o (More(x, 1) \o f)
      /\ \A i \in 1 .. n - 1 : More(x, i) \o f = <<",">> \o (V(i + 1) \o (More(x, i + 1) \o f))
      /\ More(x, n) \o f = f
  <2>1. /\ \A i \in 1 .. Len(x) : More(x, i) \o f \in Seq(Spelt)
        /\ \A i \in 1 .. Len(x) : x[i] \o (More(x, i) \o f) \in Seq(Spelt)
        /\ Commas(x) \in Seq(Spelt) /\ Commas(x) \o f = x[1] \o (More(x, 1) \o f)
        /\ \A i \in 1 .. Len(x) - 1 : More(x, i) \o f = <<",">> \o (x[i + 1] \o (More(x, i + 1) \o f))
        /\ More(x, Len(x)) \o f = f
    BY <1>2, <1>5, ItemsText, Zenon
  <2>2. 1 \in 1 .. n /\ \A i \in 1 .. n - 1 : i + 1 \in 1 .. n
    BY <1>1
  <2> QED BY <1>5, <2>1, <2>2, Zenon
<1>7. /\ \A i : AfterColumn(columns, i) = More(x, i) \o f
      /\ \A i : FromColumn(columns, i) = V(i) \o (More(x, i) \o f)
  BY Zenon DEF AfterColumn, FromColumn, V, x, f
<1>8. \A i \in 1 .. n : FromColumn(columns, i)
        = <<columns[i].name>> \o (<<columns[i].type>> \o Lengthened(columns[i], AfterColumn(columns, i)))
  <2> SUFFICES ASSUME NEW i \in 1 .. n
               PROVE  FromColumn(columns, i)
                      = <<columns[i].name>> \o (<<columns[i].type>> \o Lengthened(columns[i], AfterColumn(columns, i)))
    OBVIOUS
  <2> DEFINE c == columns[i]
             t == AfterColumn(columns, i)
  <2>1. c \in WrittenColumns /\ LengthOK(c) /\ t \in Seq(Spelt)
    BY <1>1, <1>6, <1>7, Zenon
  <2> HIDE DEF c, t
  <2>2. ColumnText(c) \o t = <<c.name>> \o (<<c.type>> \o Lengthened(c, t))
    BY <2>1, ColumnTextIs, Zenon
  <2> QED BY <2>2, Zenon DEF FromColumn, c, t
<1>9. \A i \in 1 .. n : AfterColumn(columns, i) \in Seq(Spelt) /\ FromColumn(columns, i) \in Seq(Spelt)
  BY <1>6, <1>7, Zenon
<1>10. \A i \in 1 .. n - 1 : AfterColumn(columns, i) = <<",">> \o FromColumn(columns, i + 1)
  BY <1>6, <1>7, Zenon
<1> QED BY <1>6, <1>7, <1>8, <1>9, <1>10, Zenon DEF n, x, f

\* k is the key's index when i columns have been read.
KeyIs(columns, i, k) ==
  \/ k = -1 /\ \A j \in 1 .. i : ~IsKey(columns[j])
  \/ \E j \in 1 .. i : IsKey(columns[j]) /\ k = j - 1

\* The index is the last key's read so far, and in the end the only one's.
LEMMA KeyNext ==
  ASSUME NEW columns \in ColumnLists
  PROVE  /\ KeyIs(columns, 0, -1)
         /\ \A k : KeyIs(columns, Len(columns), k) => k = KeyIndex(columns)
         /\ \A i \in 0 .. Len(columns) - 1 : \A k : KeyIs(columns, i, k) =>
              KeyIs(columns, i + 1, KeyWith(columns[i + 1], Len(columns[i + 1].constraints), k, i))
<1> DEFINE n == Len(columns)
           K(i) == IsKey(columns[i])
           Q(i) == \E j \in 1 .. Len(columns[i].constraints) : columns[i].constraints[j] = "PRIMARY KEY"
<1>1. /\ n \in Nat /\ DOMAIN columns = 1 .. n
      /\ \A i, j \in 1 .. n : K(i) /\ K(j) => i = j
  BY ColumnsAre, Zenon
<1>2. \A i \in 1 .. n : K(i) <=> Q(i)
  <2> SUFFICES ASSUME NEW i \in 1 .. n PROVE K(i) <=> Q(i)
    OBVIOUS
  <2>1. columns[i] \in WrittenColumns
    BY ColumnsAre, Zenon
  <2>2. DOMAIN columns[i].constraints = 1 .. Len(columns[i].constraints)
    BY <2>1, WrittenColumnIs, Zenon
  <2> QED BY <2>2, Zenon DEF IsKey
<1>3. \A i, k : KeyWith(columns[i + 1], Len(columns[i + 1].constraints), k, i) = IF Q(i + 1) THEN i ELSE k
  BY Zenon DEF KeyWith
<1>4. \A i, k : KeyIs(columns, i, k) <=> \/ k = -1 /\ \A j \in 1 .. i : ~K(j)
                                         \/ \E j \in 1 .. i : K(j) /\ k = j - 1
  BY DEF KeyIs
<1>5. KeyIndex(columns) = IF \E i \in 1 .. n : K(i) THEN (CHOOSE i \in 1 .. n : K(i)) - 1 ELSE -1
  BY <1>1 DEF KeyIndex
<1> HIDE DEF n, K, Q
<1>6. KeyIs(columns, 0, -1)
  BY <1>4
<1>7. \A k : KeyIs(columns, n, k) => k = KeyIndex(columns)
  BY <1>1, <1>4, <1>5
<1>8. \A i \in 0 .. n - 1 : \A k : KeyIs(columns, i, k) =>
        KeyIs(columns, i + 1, KeyWith(columns[i + 1], Len(columns[i + 1].constraints), k, i))
  <2> SUFFICES ASSUME NEW i \in 0 .. n - 1, NEW k, KeyIs(columns, i, k)
               PROVE  KeyIs(columns, i + 1, IF Q(i + 1) THEN i ELSE k)
    BY <1>3
  <2>1. 1 .. i + 1 = (1 .. i) \cup {i + 1} /\ i + 1 \in 1 .. n /\ i \in Nat /\ i = (i + 1) - 1
    BY <1>1
  <2>2. CASE Q(i + 1)
    <3>1. K(i + 1) /\ i + 1 \in 1 .. i + 1
      BY <1>2, <2>1, <2>2
    <3> QED BY <1>4, <2>1, <2>2, <3>1, Zenon
  <2>3. CASE ~Q(i + 1)
    <3>1. ~K(i + 1)
      BY <1>2, <2>1, <2>3
    <3>2. \A j \in 1 .. i + 1 : j \in 1 .. i \/ j = i + 1
      BY <2>1
    <3>3. \A j \in 1 .. i : j \in 1 .. i + 1
      BY <2>1
    <3>4. KeyIs(columns, i + 1, k)
      <4>1. CASE k = -1 /\ \A j \in 1 .. i : ~K(j)
        <5>1. \A j \in 1 .. i + 1 : ~K(j)
          BY <3>1, <3>2, <4>1
        <5> QED BY <1>4, <4>1, <5>1, Zenon
      <4>2. CASE \E j \in 1 .. i : K(j) /\ k = j - 1
        <5>1. \E j \in 1 .. i + 1 : K(j) /\ k = j - 1
          BY <3>3, <4>2
        <5> QED BY <1>4, <5>1
      <4> QED BY <1>4, <4>1, <4>2
    <3> QED BY <2>3, <3>4, Zenon
  <2> QED BY <2>2, <2>3
<1> QED BY <1>6, <1>7, <1>8, Zenon DEF n

\* The texts before the columns.
FromParen(columns) == <<"(">> \o FromColumn(columns, 1)
FromTable(columns, table) == <<table>> \o FromParen(columns)

CreateScript(columns, table, now) ==
  \/ now = Reading("start", <<"CREATE">> \o (<<"TABLE">> \o FromTable(columns, table)), BlankStatement)
  \/ now = Reading("create", <<"TABLE">> \o FromTable(columns, table), Creating)
  \/ now = Reading("name", FromTable(columns, table), Creating)
  \/ now = Reading("columns", FromParen(columns), Building(table, <<>>, -1))
  \/ \E i \in 0 .. Len(columns) - 1 : \E k :
       /\ i <= MaxColumns /\ KeyIs(columns, i, k)
       /\ now = Reading("column", FromColumn(columns, i + 1), Building(table, DrawnTo(columns, i), k))
  \/ \E i \in 0 .. Len(columns) - 1 : \E k :
       /\ i < MaxColumns /\ KeyIs(columns, i, k)
       /\ ColumnScript(columns[i + 1], AfterColumn(columns, i + 1), table, DrawnTo(columns, i), k, now)
  \/ Len(columns) > MaxColumns /\ (TooMuch(now) \/ Rejected(now))
  \/ Len(columns) <= MaxColumns /\ EndScript(Created(table, Drawings(columns), KeyIndex(columns)), now)

\* parse_create_table.
LEMMA CreateStep ==
  ASSUME TypeOK, Next, NEW columns \in ColumnLists, NEW table \in TableNames, CreateScript(columns, table, Now)
  PROVE  CreateScript(columns, table, Now')
<1> DEFINE n == Len(columns)
           ft == FromTable(columns, table)
           fp == FromParen(columns)
           fc(i) == FromColumn(columns, i)
           after(i) == AfterColumn(columns, i)
           B(i, k) == Building(table, DrawnTo(columns, i), k)
           K(i, k) == KeyIs(columns, i, k)
           S(i, k, now) == ColumnScript(columns[i + 1], after(i + 1), table, DrawnTo(columns, i), k, now)
           s0 == Building(table, <<>>, -1)
           all == Created(table, Drawings(columns), KeyIndex(columns))
           Goal == CreateScript(columns, table, Now')
<1>0. SUFFICES Goal
  OBVIOUS
<1>1. /\ n \in Nat /\ n >= 1 /\ MaxColumns \in Nat /\ MaxColumns >= 1
      /\ \A i \in 0 .. n - 1 : i + 1 \in 1 .. n
  <2>1. n \in Nat /\ n >= 1
    BY ColumnsAre, Zenon
  <2> HIDE DEF n
  <2> QED BY <2>1, ParserAssumption
<1>2. /\ \A i \in 1 .. n : after(i) \in Seq(Spelt) /\ fc(i) \in Seq(Spelt)
      /\ \A i \in 1 .. n : fc(i) = <<columns[i].name>> \o (<<columns[i].type>> \o Lengthened(columns[i], after(i)))
      /\ \A i \in 1 .. n - 1 : after(i) = <<",">> \o fc(i + 1)
      /\ after(n) = ListEnd
  BY CreateTexts, Zenon
<1>3. table \in AnyToken /\ table \in Spelt /\ table # NULL
  BY FromTextIs, WrittenAssumption, SpeltWords, NoNull, Zenon
<1>4. /\ "TABLE" \in Spelt /\ "(" \in Spelt /\ ")" \in Spelt /\ "," \in Spelt
      /\ "TABLE" # NULL /\ "(" # NULL /\ ")" # NULL /\ "," # NULL
  BY SpeltWords, NoNull, Zenon
<1>5. /\ K(0, -1) /\ B(0, -1) = s0
      /\ \A k : K(n, k) => k = KeyIndex(columns)
      /\ \A i \in 0 .. n - 1 : \A k : K(i, k) =>
           K(i + 1, KeyWith(columns[i + 1], Len(columns[i + 1].constraints), k, i))
  BY KeyNext, DrawingsAre, Zenon
<1>6. /\ \A i \in 0 .. n : DrawnTo(columns, i) \in Seq(Drawn) /\ Len(DrawnTo(columns, i)) = i
      /\ \A i \in 0 .. n - 1 : DrawnTo(columns, i + 1) = Append(DrawnTo(columns, i), Column(columns[i + 1]))
      /\ DrawnTo(columns, n) = Drawings(columns) /\ Len(Drawings(columns)) = n
  BY DrawingsAre, Zenon
<1>7. /\ \/ Now' = Reading("create", <<"TABLE">> \o ft, Creating)
         \/ Now' = Reading("name", ft, Creating)
         \/ Now' = Reading("columns", fp, s0)
         => Goal
      /\ \A i \in 0 .. n - 1 : \A k : i <= MaxColumns /\ K(i, k) /\ Now' = Reading("column", fc(i + 1), B(i, k)) => Goal
      /\ \A i \in 0 .. n - 1 : \A k : i < MaxColumns /\ K(i, k) /\ S(i, k, Now') => Goal
      /\ n > MaxColumns /\ (TooMuch(Now') \/ Rejected(Now')) => Goal
      /\ n <= MaxColumns /\ EndScript(all, Now') => Goal
  BY Zenon DEF CreateScript
<1>8. \/ Now = Reading("start", <<"CREATE">> \o (<<"TABLE">> \o ft), BlankStatement)
      \/ Now = Reading("create", <<"TABLE">> \o ft, Creating)
      \/ Now = Reading("name", ft, Creating)
      \/ Now = Reading("columns", fp, s0)
      \/ \E i \in 0 .. n - 1 : \E k : i <= MaxColumns /\ K(i, k) /\ Now = Reading("column", fc(i + 1), B(i, k))
      \/ \E i \in 0 .. n - 1 : \E k : i < MaxColumns /\ K(i, k) /\ S(i, k, Now)
      \/ n > MaxColumns /\ (TooMuch(Now) \/ Rejected(Now))
      \/ n <= MaxColumns /\ EndScript(all, Now)
  BY Zenon DEF CreateScript
<1>9. fc(1) \in Seq(Spelt) /\ fp \in Seq(Spelt) /\ fp = <<"(">> \o fc(1)
  <2> DEFINE open == "("
             c == fc(1)
  <2> HIDE DEF open
  <2>1. 1 \in 1 .. n
    BY <1>1
  <2>2. c \in Seq(Spelt) /\ open \in Spelt
    BY <1>2, <1>4, <2>1, Zenon DEF open
  <2> HIDE DEF c
  <2>3. <<open>> \o c \in Seq(Spelt)
    BY <2>2, TokenFirst
  <2> QED BY <2>2, <2>3, Zenon DEF FromParen, open, c
<1>10. ft \in Seq(Spelt) /\ ft = <<table>> \o fp
  <2>1. ft = <<table>> \o fp
    BY DEF FromTable
  <2> HIDE DEF ft, fp
  <2> QED BY <1>3, <1>9, <2>1, TokenFirst
<1> HIDE DEF n, ft, fp, fc, after, B, K, S, s0, all, Goal
<1>11. CASE Now = Reading("start", <<"CREATE">> \o (<<"TABLE">> \o ft), BlankStatement)
  <2> DEFINE t == <<"TABLE">> \o ft
  <2>1. t \in Seq(Spelt)
    BY <1>4, <1>10, TokenFirst
  <2> HIDE DEF t
  <2>2. Now' = Reading("create", t, [BlankStatement EXCEPT !.type = "CREATE", !.primary_key_index = -1])
    BY <1>11, <2>1, FirstWord, Zenon DEF t
  <2> QED BY <1>7, <2>2, Zenon DEF Creating, t
<1>12. CASE Now = Reading("create", <<"TABLE">> \o ft, Creating)
  <2> DEFINE b == Creating
  <2>1. Expected["create"] = <<"TABLE", "name">> /\ "create" \in DOMAIN Expected
    BY Zenon DEF Expected
  <2>2. Now = Reading("create", <<"TABLE">> \o ft, b)
    BY <1>12
  <2> HIDE DEF b
  <2>3. Now' = Reading("name", ft, b)
    BY <1>4, <1>10, <2>1, <2>2, ExpectTaken, Zenon
  <2> QED BY <1>7, <2>3, Zenon DEF b
<1>13. CASE Now = Reading("name", ft, Creating)
  <2> DEFINE b == Creating
  <2>1. b.type = "CREATE" /\ [b EXCEPT !.table = AsTable(table)] = s0
    <3>1. Built(table, <<>>, -1)
      BY BuildingIs, Zenon
    <3> QED BY <3>1, Zenon DEF Built, s0
  <2>2. Now = Reading("name", <<table>> \o fp, b)
    BY <1>10, <1>13
  <2> HIDE DEF b
  <2>3. Now' = Reading(AfterName[b.type], fp, [b EXCEPT !.table = AsTable(table)])
    BY <1>3, <1>9, <2>2, NameTaken
  <2>4. AfterName["CREATE"] = "columns"
    BY Zenon DEF AfterName
  <2> QED BY <1>7, <2>1, <2>3, <2>4, Zenon
<1>14. CASE Now = Reading("columns", fp, s0)
  <2> DEFINE open == "("
             c == fc(1)
  <2>1. Expected["columns"] = <<open, "column">> /\ "columns" \in DOMAIN Expected
    BY Zenon DEF Expected
  <2>2. Now = Reading("columns", <<open>> \o c, s0) /\ open \in Spelt /\ open # NULL /\ c \in Seq(Spelt)
    BY <1>4, <1>9, <1>14, Zenon
  <2> HIDE DEF open, c
  <2>3. Now' = Reading("column", c, s0)
    BY <2>1, <2>2, ExpectTaken
  <2>4. 0 \in 0 .. n - 1 /\ 0 + 1 = 1 /\ 0 <= MaxColumns
    BY <1>1
  <2>5. Now' = Reading("column", fc(0 + 1), B(0, -1))
    BY <1>5, <2>3, <2>4, Zenon DEF c
  <2> QED BY <1>5, <1>7, <2>4, <2>5, Zenon
<1>15. CASE \E i \in 0 .. n - 1 : \E k : i <= MaxColumns /\ K(i, k) /\ Now = Reading("column", fc(i + 1), B(i, k))
  <2>0. PICK i \in 0 .. n - 1 : \E k : i <= MaxColumns /\ K(i, k) /\ Now = Reading("column", fc(i + 1), B(i, k))
    BY <1>15, Zenon
  <2>1. PICK k : i <= MaxColumns /\ K(i, k) /\ Now = Reading("column", fc(i + 1), B(i, k))
    BY <2>0, Zenon
  <2>2. i + 1 \in 1 .. n /\ i \in 0 .. n /\ i \in 0 .. n - 1 /\ i \in Nat
    <3>1. i \in 0 .. n - 1
      BY <2>1, Zenon
    <3> QED BY <1>1, <3>1
  <2> DEFINE c == columns[i + 1]
             a == c.name
             r == <<c.type>> \o Lengthened(c, after(i + 1))
             d == DrawnTo(columns, i)
             s == B(i, k)
  <2>3. c \in WrittenColumns /\ LengthOK(c)
    BY <2>2, ColumnsAre, Zenon DEF n
  <2>4. a \in Spelt /\ a # NULL
    BY <2>3, WrittenColumnIs, Zenon
  <2>5. r \in Seq(Spelt) /\ Lengthened(c, after(i + 1)) \in Seq(Spelt) /\ c.type \in Spelt
    <3>1. after(i + 1) \in Seq(Spelt)
      BY <1>2, <2>2, Zenon
    <3> QED BY <2>3, <3>1, ColumnTextIs, WrittenColumnIs, Zenon
  <2>6. fc(i + 1) = <<a>> \o r
    BY <1>2, <2>2, Zenon
  <2>7. Now = Reading("column", <<a>> \o r, s)
    BY <2>1, <2>6, Zenon
  <2>8. s.columns = d /\ \A e : WithColumns(s, e) = Building(table, e, k)
    <3>1. Built(table, d, k)
      BY BuildingIs, Zenon
    <3> QED BY <3>1, Zenon DEF Built, B
  <2>9. Len(d) = i /\ d \in Seq(Drawn)
    BY <1>6, <2>2, Zenon
  <2> HIDE DEF a, r, d, s, c
  <2>10. at = "column" /\ Tok = a /\ stmt = s
         /\ (\A q3, s3 : Take(q3, s3) => Now' = Reading(q3, r, s3))
         /\ (\A q3, s3 : Peek(q3, s3) => Now' = Reading(q3, <<a>> \o r, s3))
    BY <2>4, <2>5, <2>7, Taking
  <2>11. ColumnName
    BY <2>4, <2>10, ByPlace, Zenon
  <2>12. CASE i = MaxColumns
    <3> DEFINE t == <<a>> \o r
    <3>1. t \in Seq(Spelt) /\ Len(t) >= 2
      <4>1. Len(t) = Len(r) + 1 /\ t \in Seq(Spelt)
        BY <2>4, <2>5, TokenFirst
      <4> HIDE DEF t
      <4>2. Len(r) = Len(Lengthened(c, after(i + 1))) + 1 /\ Len(Lengthened(c, after(i + 1))) \in Nat
        BY <2>5, TokenFirst DEF r
      <4> QED BY <4>1, <4>2
    <3> HIDE DEF t
    <3>2. Peek("end", [s EXCEPT !.column_count = LastColumn])
      BY <2>8, <2>9, <2>10, <2>11, <2>12, Zenon DEF ColumnName, ColumnsFull
    <3>3. TooMuch(Now')
      BY <2>10, <3>1, <3>2, Zenon DEF TooMuch, t
    <3>4. n > MaxColumns
      BY <1>1, <2>2, <2>12
    <3> QED BY <1>7, <3>3, <3>4, Zenon
  <2>13. CASE i # MaxColumns
    <3>1. Take("type", [s EXCEPT !.columns = Append(d, Begun(c))])
      BY <2>8, <2>9, <2>10, <2>11, <2>13, Zenon DEF ColumnName, ColumnsFull, Begun, a
    <3>2. Take("type", Building(table, Append(d, Begun(c)), k))
      BY <2>8, <3>1, Zenon DEF WithColumns
    <3>3. Now' = Reading("type", r, Building(table, Append(d, Begun(c)), k))
      BY <2>10, <3>2, Zenon
    <3>4. S(i, k, Now')
      BY <3>3, Zenon DEF S, ColumnScript, c, d, r
    <3>5. i < MaxColumns
      BY <1>1, <2>1, <2>2, <2>13
    <3> QED BY <1>7, <2>1, <2>2, <3>4, <3>5, Zenon
  <2> QED BY <2>12, <2>13
<1>17. CASE n > MaxColumns /\ (TooMuch(Now) \/ Rejected(Now))
  <2>1. Rejected(Now')
    BY <1>17, RejectedStep, TooMuchStep
  <2> QED BY <1>7, <1>17, <2>1, Zenon
<1>18. CASE n <= MaxColumns /\ EndScript(all, Now)
  <2>1. EndScript(all, Now')
    BY <1>18, EndStep
  <2> QED BY <1>7, <1>18, <2>1, Zenon
<1>16. CASE \E i \in 0 .. n - 1 : \E k : i < MaxColumns /\ K(i, k) /\ S(i, k, Now)
  <2>0. PICK i \in 0 .. n - 1 : \E k : i < MaxColumns /\ K(i, k) /\ S(i, k, Now)
    BY <1>16, Zenon
  <2>1. PICK k : i < MaxColumns /\ K(i, k) /\ S(i, k, Now)
    BY <2>0, Zenon
  <2>2. i + 1 \in 1 .. n /\ i \in 0 .. n /\ i \in 0 .. n - 1 /\ i \in Nat /\ i + 1 <= MaxColumns
    <3>1. i \in 0 .. n - 1 /\ i < MaxColumns
      BY <2>1, Zenon
    <3> QED BY <1>1, <3>1
  <2> DEFINE c == columns[i + 1]
             t == after(i + 1)
             d == DrawnTo(columns, i)
             k2 == KeyWith(c, Len(c.constraints), k, Len(d))
             s == B(i + 1, k2)
  <2>3. c \in WrittenColumns /\ LengthOK(c)
    BY <2>2, ColumnsAre, Zenon DEF n
  <2>4. d \in Seq(Drawn) /\ Len(d) = i
    BY <1>6, <2>2, Zenon
  <2>5. \E e \in Following, r \in Seq(Spelt) : t = <<e>> \o r
    <3>1. CASE i + 1 = n
      <4>1. t = <<")">> \o End /\ End \in Seq(Spelt)
        BY <1>2, <3>1, EndIs, Zenon DEF ListEnd
      <4> QED BY <4>1, Zenon DEF Following
    <3>2. CASE i + 1 # n
      <4>1. i + 1 \in 1 .. n - 1 /\ i + 1 + 1 \in 1 .. n
        BY <1>1, <2>2, <3>2
      <4>2. t = <<",">> \o fc(i + 1 + 1) /\ fc(i + 1 + 1) \in Seq(Spelt)
        BY <1>2, <4>1, Zenon
      <4> QED BY <4>2, Zenon DEF Following
    <3> QED BY <3>1, <3>2
  <2>6. PICK e \in Following, r \in Seq(Spelt) : t = <<e>> \o r
    BY <2>5
  <2> HIDE DEF t
  <2>7. ColumnScript(c, t, table, d, k, Now)
    BY <2>1, Zenon DEF S, t
  <2> HIDE DEF c, d
  <2>8. ColumnRead(c, t, table, d, k, Now) \/ ColumnScript(c, t, table, d, k, Now')
    BY <2>3, <2>4, <2>6, <2>7, ColumnStep
  <2>9. CASE ColumnScript(c, t, table, d, k, Now')
    <3>1. S(i, k, Now')
      BY <2>9, Zenon DEF S, c, d, t
    <3> QED BY <1>7, <2>1, <2>2, <3>1, Zenon
  <2>10. CASE ColumnRead(c, t, table, d, k, Now)
    <3>1. Now = Reading("constraint", t, s)
      <4>1. DrawnTo(columns, i + 1) = Append(d, Column(c))
        BY <1>6, <2>2, Zenon DEF d, c
      <4> QED BY <2>10, <4>1, Zenon DEF ColumnRead, B
    <3>2. K(i + 1, k2)
      BY <1>5, <2>1, <2>2, <2>4, Zenon DEF c
    <3>3. s.columns = DrawnTo(columns, i + 1) /\ Len(DrawnTo(columns, i + 1)) = i + 1
      <4>1. s.columns = DrawnTo(columns, i + 1)
        <5>1. Built(table, DrawnTo(columns, i + 1), k2)
          BY BuildingIs, Zenon
        <5> QED BY <5>1, Zenon DEF Built, B, s
      <4>2. i + 1 \in 0 .. n
        BY <1>1, <2>2
      <4> QED BY <1>6, <4>1, <4>2, Zenon
    <3> HIDE DEF s, k2
    <3>4. CASE i + 1 = n
      <4> DEFINE close == ")"
      <4>1. close \in Spelt /\ close # NULL /\ End \in Seq(Spelt) /\ close # ","
        BY <1>4, EndIs, Zenon
      <4>2. Now = Reading("constraint", <<close>> \o End, s)
        BY <1>2, <3>1, <3>4, Zenon DEF t, ListEnd
      <4> HIDE DEF close
      <4>3. at = "constraint" /\ Tok = close /\ stmt = s /\ \A q3, s3 : Take(q3, s3) => Now' = Reading(q3, End, s3)
        BY <4>1, <4>2, Taking
      <4>4. Constraint
        BY <4>1, <4>3, ByPlace, Zenon
      <4>5. Take("end", [s EXCEPT !.column_count = LastColumn])
        BY <4>1, <4>3, <4>4, Zenon DEF Constraint, close
      <4>6. LastColumn = n /\ k2 = KeyIndex(columns)
        BY <1>5, <3>2, <3>3, <3>4, <4>3, Zenon DEF LastColumn
      <4>7. [s EXCEPT !.column_count = n] = all
        <5> DEFINE x == Drawings(columns)
                   m == KeyIndex(columns)
        <5>1. s = Building(table, x, m) /\ Len(x) = n
          BY <1>6, <3>4, <4>6, Zenon DEF s, B
        <5> HIDE DEF x, m
        <5>2. [Building(table, x, m) EXCEPT !.column_count = Len(x)] = Created(table, x, m)
          <6>1. Built(table, x, m)
            BY BuildingIs, Zenon
          <6> QED BY <6>1, Zenon DEF Built
        <5> QED BY <5>1, <5>2, Zenon DEF all, x, m
      <4>8. Now' = Reading("end", End, all)
        BY <4>3, <4>5, <4>6, <4>7, Zenon
      <4>9. n <= MaxColumns
        BY <2>2, <3>4
      <4> QED BY <1>7, <4>8, <4>9, Zenon DEF EndScript
    <3>5. CASE i + 1 # n
      <4> DEFINE comma == ","
                 f == fc(i + 1 + 1)
      <4>1. i + 1 \in 1 .. n - 1 /\ i + 1 + 1 \in 1 .. n /\ i + 1 \in 0 .. n - 1
        BY <1>1, <2>2, <3>5
      <4>2. f \in Seq(Spelt) /\ comma \in Spelt /\ comma # NULL /\ Now = Reading("constraint", <<comma>> \o f, s)
        BY <1>2, <1>4, <3>1, <4>1, Zenon DEF t
      <4> HIDE DEF f, comma
      <4>3. at = "constraint" /\ Tok = comma /\ stmt = s /\ \A q3, s3 : Take(q3, s3) => Now' = Reading(q3, f, s3)
        BY <4>2, Taking
      <4>4. Constraint
        BY <4>2, <4>3, ByPlace, Zenon
      <4>5. Take("column", s)
        BY <4>3, <4>4, Zenon DEF Constraint, comma
      <4>6. Now' = Reading("column", fc(i + 1 + 1), B(i + 1, k2))
        BY <4>3, <4>5, Zenon DEF f, s
      <4> QED BY <1>7, <2>2, <3>2, <4>1, <4>6, Zenon
    <3> QED BY <3>4, <3>5
  <2> QED BY <2>8, <2>9, <2>10
<1> QED BY <1>8, <1>11, <1>12, <1>13, <1>14, <1>15, <1>16, <1>17, <1>18, Zenon

-----------------------------------------------------------------------------
(* The texts, and what becomes of a statement in the end.                  *)

\* The parts of the texts.
LEMMA PartsAre ==
  /\ \A w \in Filters : Clause(w) \in Seq(Spelt)
  /\ \A j \in JoinClauses : JoinText(j) \in Seq(Spelt)
  /\ \A columns \in SelectLists : Commas(Listed(columns)) \in Seq(Spelt)
  /\ \A values \in ValueLists : Commas(Listed(values)) \in Seq(Spelt)
  /\ \A names \in SkippedLists : Skipped(names) \in Seq(Spelt)
  /\ \A columns \in ColumnLists : Commas(ColumnTexts(columns)) \in Seq(Spelt)
  /\ \A sets \in SetLists : Commas(SetTexts(sets)) \in Seq(Spelt)
<1> DEFINE where == "WHERE"
           join == "JOIN"
           on == "ON"
           equals == "="
           open == "("
           close == ")"
           empty == <<>>
<1>1. /\ where \in Spelt /\ join \in Spelt /\ on \in Spelt /\ equals \in Spelt /\ open \in Spelt /\ close \in Spelt
  BY SpeltWords, Zenon
<1>0. empty \in Seq(Spelt)
  OBVIOUS
<1>2. \A w : Clause(w) = IF w = <<>> THEN empty ELSE <<where>> \o w
  BY DEF Clause
<1>3. \A j : JoinText(j) = IF j = <<>> THEN empty
                           ELSE (IF j[1] = join THEN <<join>> ELSE <<j[1], join>>) \o <<j[2], on, j[3], equals, j[4]>>
  BY Zenon DEF JoinText
<1>4. \A names : Skipped(names) = IF names = <<>> THEN empty ELSE <<open>> \o Commas(Listed(names)) \o <<close>>
  BY Zenon DEF Skipped
<1> HIDE DEF where, join, on, equals, open, close, empty
<1>5. ASSUME NEW w \in Filters PROVE Clause(w) \in Seq(Spelt)
  <2>1. CASE w = <<>>
    BY <1>0, <1>2, <2>1
  <2>2. CASE w # <<>>
    <3>1. w \in AnyToken \X Operators \X AnyToken
      BY <2>2, WrittenAssumption, Zenon
    <3>2. AnyToken \subseteq Spelt /\ Operators \subseteq Spelt
      BY SpeltWords, Zenon
    <3>3. w \in Seq(Spelt)
      <4> DEFINE A == AnyToken
                 O == Operators
      <4> HIDE DEF A, O
      <4>1. w = <<w[1], w[2], w[3]>> /\ w[1] \in A /\ w[2] \in O /\ w[3] \in A
        BY <3>1 DEF A, O
      <4> DEFINE d == w[1]
                 e == w[2]
                 f == w[3]
      <4>2. w = <<d, e, f>> /\ d \in Spelt /\ e \in Spelt /\ f \in Spelt
        BY <3>2, <4>1, Zenon DEF A, O
      <4> HIDE DEF d, e, f
      <4>3. <<d, e, f>> \in Seq(Spelt)
        BY <4>2
      <4> QED BY <4>2, <4>3
    <3>4. <<where>> \in Seq(Spelt)
      BY <1>1
    <3>5. <<where>> \o w \in Seq(Spelt)
      BY <3>3, <3>4, ConcatProperties
    <3> QED BY <1>2, <2>2, <3>5
  <2> QED BY <2>1, <2>2
<1>6. ASSUME NEW j \in JoinClauses PROVE JoinText(j) \in Seq(Spelt)
  <2>1. CASE j = <<>>
    BY <1>0, <1>3, <2>1
  <2>2. CASE j # <<>>
    <3>1. j \in (JoinWords \cup {"JOIN"}) \X AnyToken \X AnyToken \X AnyToken
      BY <2>2, WrittenAssumption, Zenon
    <3>2. AnyToken \subseteq Spelt /\ JoinWords \cup {"JOIN"} \subseteq Spelt
      BY SpeltWords, Zenon
    <3>3. j[1] \in Spelt /\ j[2] \in Spelt /\ j[3] \in Spelt /\ j[4] \in Spelt
      BY <3>1, <3>2
    <3> DEFINE a == j[1]
               b == j[2]
               c == j[3]
               d == j[4]
               h == IF a = join THEN <<join>> ELSE <<a, join>>
               t == <<b, on, c, equals, d>>
    <3>4. JoinText(j) = h \o t
      BY <1>3, <2>2, Zenon
    <3> HIDE DEF a, b, c, d
    <3>5. a \in Spelt /\ b \in Spelt /\ c \in Spelt /\ d \in Spelt
      BY <3>3 DEF a, b, c, d
    <3>6. t \in Seq(Spelt)
      BY <1>1, <3>5
    <3>7. h \in Seq(Spelt)
      BY <1>1, <3>5
    <3> HIDE DEF h, t
    <3> QED BY <3>4, <3>6, <3>7, ConcatProperties
  <2> QED BY <2>1, <2>2
<1>7. ASSUME NEW columns \in SelectLists PROVE Commas(Listed(columns)) \in Seq(Spelt)
  <2>1. columns \in Seq(Spelt) /\ columns # <<>>
    <3>1. PICK T : T \subseteq Spelt /\ columns \in Seq(T) /\ columns # <<>>
      BY SelectedAre
    <3> QED BY <3>1, SeqMonotonic
  <2>2. ListRead(columns, empty)
    BY <1>0, <2>1, ListText
  <2> QED BY <2>2, Zenon DEF ListRead
<1>8. ASSUME NEW values \in ValueLists PROVE Commas(Listed(values)) \in Seq(Spelt)
  <2>1. ListRead(values, ListEnd)
    BY InsertTexts, Zenon
  <2> QED BY <2>1, Zenon DEF ListRead
<1>9. ASSUME NEW names \in SkippedLists PROVE Skipped(names) \in Seq(Spelt)
  <2>1. CASE names = <<>>
    BY <1>0, <1>4, <2>1
  <2>2. CASE names # <<>>
    <3> DEFINE c == Commas(Listed(names))
               o == <<open>>
               e == <<close>>
    <3>1. c \in Seq(Spelt)
      <4>1. c \in Seq(Skippable) /\ Skippable \subseteq Spelt
        BY SkippedAre, SkippableIs, Zenon
      <4> HIDE DEF c
      <4> QED BY <4>1, SeqMonotonic
    <3>2. o \in Seq(Spelt) /\ e \in Seq(Spelt)
      BY <1>1
    <3> HIDE DEF c, o, e
    <3>3. o \o c \in Seq(Spelt)
      BY <3>1, <3>2, ConcatProperties
    <3>4. (o \o c) \o e \in Seq(Spelt)
      BY <3>2, <3>3, ConcatProperties
    <3> QED BY <1>4, <2>2, <3>4, Zenon DEF c, o, e
  <2> QED BY <2>1, <2>2
<1>10. ASSUME NEW columns \in ColumnLists PROVE Commas(ColumnTexts(columns)) \in Seq(Spelt)
  BY CreateTexts, Zenon
<1>11. ASSUME NEW sets \in SetLists PROVE Commas(SetTexts(sets)) \in Seq(Spelt)
  <2> DEFINE x == SetTexts(sets)
  <2>1. x \in Seq(Seq(Spelt)) /\ x # <<>>
    BY SetsAre, Zenon
  <2> HIDE DEF x
  <2>2. Commas(x) \in Seq(Spelt)
    BY <1>0, <2>1, ItemsText, Zenon
  <2> QED BY <2>2 DEF x
<1> QED BY <1>5, <1>6, <1>7, <1>8, <1>9, <1>10, <1>11

\* The texts as the scripts have them.
LEMMA SelectTokens ==
  ASSUME NEW columns \in SelectLists, NEW table \in TableNames, NEW j \in JoinClauses, NEW w \in Filters
  PROVE  Select(columns, table, j, w).tokens = <<"SELECT">> \o (Commas(Listed(columns)) \o FromText(table, j, w))
<1> DEFINE a == <<"SELECT">>
           b == Commas(Listed(columns))
           from == "FROM"
           c == <<from, table>>
           d == JoinText(j)
           e == Clause(w)
           f == End
           p == <<a, b, c, d, e, f>>
           r == JoinRest(j, w)
<1>1. Select(columns, table, j, w).tokens = a \o b \o c \o d \o e \o f
  BY Zenon DEF Select
<1>2. b \in Seq(Spelt) /\ d \in Seq(Spelt) /\ e \in Seq(Spelt) /\ f \in Seq(Spelt)
  BY PartsAre, EndIs, Zenon
<1>3. "SELECT" \in Spelt /\ from \in Spelt /\ table \in Spelt
  BY SpeltWords, FromTextIs, Zenon
<1> HIDE DEF from
<1>4. a \in Seq(Spelt) /\ c \in Seq(Spelt)
  BY <1>3
<1>5. r = d \o (e \o f)
  BY DEF JoinRest, FilterText
<1>6. r \in Seq(Spelt)
  BY FromTextIs, Zenon
<1> HIDE DEF r
<1>7. c \o r = <<from>> \o (<<table>> \o r)
  BY <1>3, <1>6, TwoFirst
<1> HIDE DEF a, b, c, d, e, f
<1>8. /\ p \in [1 .. 6 -> Seq(Spelt)]
      /\ p[1] = a /\ p[2] = b /\ p[3] = c /\ p[4] = d /\ p[5] = e /\ p[6] = f
  BY <1>2, <1>4
<1> HIDE DEF p
<1>9. p[1] \o p[2] \o p[3] \o p[4] \o p[5] \o p[6] = p[1] \o (p[2] \o (p[3] \o (p[4] \o (p[5] \o p[6]))))
  BY <1>8, SixParts
<1>10. a \o b \o c \o d \o e \o f = a \o (b \o (<<from>> \o (<<table>> \o r)))
  BY <1>5, <1>7, <1>8, <1>9, Zenon
<1> QED BY <1>1, <1>10, Zenon DEF FromText, a, b, from, r

\* That of an INSERT.
LEMMA InsertTokens ==
  ASSUME NEW names \in SkippedLists, NEW table \in TableNames, NEW values \in ValueLists
  PROVE  Insert(names, table, values).tokens
         = <<"INSERT">> \o (<<"INTO">> \o (<<table>> \o (Skipped(names) \o FromValues(values))))
<1> DEFINE insert == "INSERT"
           into == "INTO"
           word == "VALUES"
           open == "("
           close == ")"
           a == <<insert, into, table>>
           b == Skipped(names)
           c == <<word, open>>
           d == Commas(Listed(values))
           e == <<close>>
           f == End
           p == <<a, b, c, d, e, f>>
           q == d \o (e \o f)
           k == b \o (<<word>> \o (<<open>> \o q))
<1>1. Insert(names, table, values).tokens = a \o b \o c \o d \o e \o f
  BY Zenon DEF Insert
<1>2. b \in Seq(Spelt) /\ d \in Seq(Spelt) /\ f \in Seq(Spelt)
  BY PartsAre, EndIs, Zenon
<1>3. insert \in Spelt /\ into \in Spelt /\ word \in Spelt /\ open \in Spelt /\ close \in Spelt /\ table \in Spelt
  BY SpeltWords, WrittenAssumption, Zenon
<1> HIDE DEF insert, into, word, open, close
<1>4. a \in Seq(Spelt) /\ c \in Seq(Spelt) /\ e \in Seq(Spelt)
  BY <1>3
<1> HIDE DEF b, d, e, f
<1>5. q \in Seq(Spelt)
  <2> DEFINE z == e \o f
  <2>1. z \in Seq(Spelt)
    BY <1>2, <1>4, ConcatProperties
  <2> HIDE DEF z
  <2>2. d \o z \in Seq(Spelt)
    BY <1>2, <2>1, ConcatProperties
  <2> QED BY <2>2 DEF z
<1> HIDE DEF q
<1>6. c \o q = <<word>> \o (<<open>> \o q) /\ c \o q \in Seq(Spelt)
  BY <1>3, <1>4, <1>5, TwoFirst, ConcatProperties
<1> HIDE DEF c
<1>7. k \in Seq(Spelt)
  <2>1. k = b \o (c \o q)
    BY <1>6
  <2> DEFINE z == c \o q
  <2>2. z \in Seq(Spelt)
    BY <1>6
  <2> HIDE DEF z, k
  <2>3. b \o z \in Seq(Spelt)
    BY <1>2, <2>2, ConcatProperties
  <2> QED BY <2>1, <2>3 DEF z
<1>8. k = b \o (c \o q)
  BY <1>6
<1> HIDE DEF k
<1>9. a \o k = <<insert>> \o (<<into>> \o (<<table>> \o k))
  BY <1>3, <1>7, ThreeFirst, SMTT(60)
<1> HIDE DEF a
<1>10. /\ p \in [1 .. 6 -> Seq(Spelt)]
       /\ p[1] = a /\ p[2] = b /\ p[3] = c /\ p[4] = d /\ p[5] = e /\ p[6] = f
  BY <1>2, <1>4
<1> HIDE DEF p
<1>11. p[1] \o p[2] \o p[3] \o p[4] \o p[5] \o p[6] = p[1] \o (p[2] \o (p[3] \o (p[4] \o (p[5] \o p[6]))))
  BY <1>10, SixParts
<1>12. a \o b \o c \o d \o e \o f = <<insert>> \o (<<into>> \o (<<table>> \o k))
  <2>1. a \o b \o c \o d \o e \o f = a \o (b \o (c \o q))
    BY <1>10, <1>11, Zenon DEF q
  <2> QED BY <1>8, <1>9, <2>1, Zenon
<1>13. k = Skipped(names) \o FromValues(values)
  BY Zenon DEF k, b, q, word, open, close, d, e, f, FromValues, FromOpen, ListEnd
<1> QED BY <1>1, <1>12, <1>13, Zenon DEF insert, into

\* That of a DELETE.
LEMMA DeleteTokens ==
  ASSUME NEW table \in TableNames, NEW w \in Filters
  PROVE  Delete(table, w).tokens = <<"DELETE">> \o (<<"FROM">> \o (<<table>> \o FilterText(w)))
<1> DEFINE delete == "DELETE"
           from == "FROM"
           a == <<delete, from, table>>
           b == Clause(w)
           c == End
           f == FilterText(w)
<1>1. Delete(table, w).tokens = a \o b \o c
  BY Zenon DEF Delete
<1>2. b \in Seq(Spelt) /\ c \in Seq(Spelt)
  BY PartsAre, EndIs, Zenon
<1>3. delete \in Spelt /\ from \in Spelt /\ table \in Spelt
  BY SpeltWords, WrittenAssumption, Zenon
<1>4. f = b \o c
  BY DEF FilterText
<1> HIDE DEF delete, from, b, c, f
<1>5. a \in Seq(Spelt)
  BY <1>3
<1>6. f \in Seq(Spelt)
  BY <1>2, <1>4, ConcatProperties
<1>7. a \o f = <<delete>> \o (<<from>> \o (<<table>> \o f))
  BY <1>3, <1>6, ThreeFirst, SMTT(60)
<1> HIDE DEF a
<1>8. (a \o b) \o c = a \o f
  BY <1>2, <1>4, <1>5, ConcatAssociative, SMTT(60)
<1> QED BY <1>1, <1>7, <1>8, Zenon DEF delete, from, f

\* That of a CREATE.
LEMMA CreateTokens ==
  ASSUME NEW columns \in ColumnLists, NEW table \in TableNames
  PROVE  Create(columns, table).tokens = <<"CREATE">> \o (<<"TABLE">> \o FromTable(columns, table))
<1> DEFINE create == "CREATE"
           word == "TABLE"
           open == "("
           close == ")"
           a == <<create, word, table, open>>
           b == Commas(ColumnTexts(columns))
           c == <<close>>
           d == End
           e == c \o d
           f == b \o e
<1>1. Create(columns, table).tokens = a \o b \o c \o d
  BY Zenon DEF Create, ColumnTexts
<1>2. b \in Seq(Spelt) /\ d \in Seq(Spelt)
  BY PartsAre, EndIs, Zenon
<1>3. create \in Spelt /\ word \in Spelt /\ open \in Spelt /\ close \in Spelt /\ table \in Spelt
  BY SpeltWords, WrittenAssumption, Zenon
<1> HIDE DEF create, word, open, close, b, d
<1>4. a \in Seq(Spelt) /\ c \in Seq(Spelt)
  BY <1>3
<1> HIDE DEF c
<1>5. e \in Seq(Spelt)
  BY <1>2, <1>4, ConcatProperties
<1> HIDE DEF e
<1>6. f \in Seq(Spelt)
  BY <1>2, <1>5, ConcatProperties
<1>7. f = FromColumn(columns, 1)
  BY CreateTexts, Zenon DEF f, b, e, c, d, close, ListEnd
<1>8. f = b \o e
  BY DEF f
<1> HIDE DEF f
<1>9. a \o f = <<create>> \o (<<word>> \o (<<table>> \o (<<open>> \o f)))
  <2> DEFINE g == <<table, open>> \o f
             h == <<open>> \o f
  <2>1. h \in Seq(Spelt)
    BY <1>3, <1>6, TokenFirst
  <2>2. g = <<table>> \o h
    BY <1>3, <1>6, TwoFirst
  <2> HIDE DEF h
  <2>3. g \in Seq(Spelt)
    <3>1. <<table>> \o h \in Seq(Spelt)
      BY <1>3, <2>1, TokenFirst
    <3> QED BY <2>2, <3>1
  <2> HIDE DEF g
  <2>4. <<create, word>> \o g = <<create>> \o (<<word>> \o g)
    BY <1>3, <2>3, TwoFirst
  <2>5. a = <<create, word>> \o <<table, open>> /\ <<create, word>> \in Seq(Spelt) /\ <<table, open>> \in Seq(Spelt)
    BY <1>3
  <2>6. (<<create, word>> \o <<table, open>>) \o f = <<create, word>> \o (<<table, open>> \o f)
    <3> DEFINE x == <<create, word>>
               y == <<table, open>>
    <3>1. x \in Seq(Spelt) /\ y \in Seq(Spelt) /\ f \in Seq(Spelt)
      BY <1>6, <2>5
    <3> HIDE DEF x, y
    <3>2. (x \o y) \o f = x \o (y \o f)
      BY <3>1, ConcatAssociative, SMTT(60)
    <3> QED BY <3>2 DEF x, y
  <2> QED BY <2>2, <2>4, <2>5, <2>6, Zenon DEF g, h
<1> HIDE DEF a
<1>10. (a \o b) \o e = a \o (b \o e)
  BY <1>2, <1>4, <1>5, ConcatAssociative, SMTT(60)
<1>11. ((a \o b) \o c) \o d = (a \o b) \o (c \o d)
  <2> DEFINE g == a \o b
  <2>1. g \in Seq(Spelt)
    BY <1>2, <1>4, ConcatProperties
  <2> HIDE DEF g
  <2>2. (g \o c) \o d = g \o (c \o d)
    BY <1>2, <1>4, <2>1, ConcatAssociative, SMTT(60)
  <2> QED BY <2>2 DEF g
<1>12. a \o b \o c \o d = <<create>> \o (<<word>> \o (<<table>> \o (<<open>> \o f)))
  BY <1>8, <1>9, <1>10, <1>11, Zenon DEF e
<1> QED BY <1>1, <1>7, <1>12, Zenon DEF FromTable, FromParen, create, word, open

\* That of SHOW TABLES.
LEMMA ShowTokens == ShowTables.tokens = <<"SHOW">> \o (<<"TABLES">> \o End)
<1>1. ShowTables.tokens = <<"SHOW", "TABLES">> \o End
  BY Zenon DEF ShowTables
<1>2. "SHOW" \in Spelt /\ "TABLES" \in Spelt /\ End \in Seq(Spelt)
  BY SpeltWords, EndIs, Zenon
<1> QED BY <1>1, <1>2, TwoFirst

\* That of DROP TABLE.
LEMMA DropTokens ==
  ASSUME NEW table \in TableNames
  PROVE  Drop(table).tokens = <<"DROP">> \o (<<"TABLE">> \o (<<table>> \o End))
<1>1. Drop(table).tokens = <<"DROP", "TABLE", table>> \o End
  BY Zenon DEF Drop
<1>2. "DROP" \in Spelt /\ "TABLE" \in Spelt /\ table \in Spelt /\ End \in Seq(Spelt)
  BY SpeltWords, WrittenAssumption, EndIs, Zenon
<1> QED BY <1>1, <1>2, ThreeFirst, SMTT(60)

\* That of an UPDATE.
LEMMA UpdateTokens ==
  ASSUME NEW sets \in SetLists, NEW table \in TableNames, NEW w \in Filters
  PROVE  Update(sets, table, w).tokens
         = <<"UPDATE">> \o (<<table>> \o (<<"SET">> \o FromSets(sets, w)))
<1> DEFINE update == "UPDATE"
           word == "SET"
           a == <<update, table, word>>
           b == Commas(SetTexts(sets))
           c == Clause(w)
           d == End
           f == FilterText(w)
           g == b \o f
<1>1. Update(sets, table, w).tokens = a \o b \o c \o d
  BY Zenon DEF Update, SetTexts
<1>2. b \in Seq(Spelt) /\ c \in Seq(Spelt) /\ d \in Seq(Spelt)
  BY PartsAre, EndIs, Zenon
<1>3. update \in Spelt /\ word \in Spelt /\ table \in Spelt
  BY SpeltWords, WrittenAssumption, Zenon
<1>4. f = c \o d
  BY DEF FilterText
<1> HIDE DEF update, word, b, c, d, f
<1>5. a \in Seq(Spelt)
  BY <1>3
<1>6. f \in Seq(Spelt)
  BY <1>2, <1>4, ConcatProperties
<1>7. g \in Seq(Spelt)
  BY <1>2, <1>6, ConcatProperties
<1>8. g = FromSets(sets, w)
  BY Zenon DEF g, b, f, FromSets
<1> HIDE DEF g
<1>9. a \o g = <<update>> \o (<<table>> \o (<<word>> \o g))
  BY <1>3, <1>7, ThreeFirst, SMTT(60)
<1> HIDE DEF a
<1>10. ((a \o b) \o c) \o d = (a \o b) \o (c \o d)
  <2> DEFINE h == a \o b
  <2>1. h \in Seq(Spelt)
    BY <1>2, <1>5, ConcatProperties
  <2> HIDE DEF h
  <2>2. (h \o c) \o d = h \o (c \o d)
    BY <1>2, <2>1, ConcatAssociative, SMTT(60)
  <2> QED BY <2>2 DEF h
<1>11. (a \o b) \o f = a \o (b \o f)
  BY <1>2, <1>5, <1>6, ConcatAssociative, SMTT(60)
<1>12. a \o b \o c \o d = <<update>> \o (<<table>> \o (<<word>> \o g))
  BY <1>4, <1>9, <1>10, <1>11, Zenon DEF g
<1> QED BY <1>1, <1>8, <1>12, Zenon DEF update, word

\* What a script says of a statement that was run.
LEMMA NowIs ==
  /\ \A q, r, s : Now = Reading(q, r, s) => at = q
  /\ \A q, r, s : Now = <<q, r, s, TRUE>> => at = q /\ stmt = s /\ parse_success = TRUE
  /\ \A q, r, s, ok : Now = <<q, r, s, ok>> => stmt = s
<1>1. \A q, r, s, ok : Now = <<q, r, s, ok>> => at = q /\ stmt = s /\ parse_success = ok
  BY DEF Now
<1> QED BY <1>1, Zenon DEF Reading

\* At the end of its script the statement is the one meant.
LEMMA EndRan ==
  ASSUME at = "ran", NEW s, EndScript(s, Now)
  PROVE  parse_success /\ stmt = s
BY NowIs, Zenon DEF EndScript

\* So it is with a filter,
LEMMA FilterRan ==
  ASSUME at = "ran", NEW w, NEW s, FilterScript(w, s, Now)
  PROVE  parse_success /\ stmt = Filtered(w, s)
<1>1. EndScript(Filtered(w, s), Now)
  BY NowIs, Zenon DEF FilterScript
<1> QED BY <1>1, EndRan

\* and with a join before the filter.
LEMMA JoinRan ==
  ASSUME at = "ran", NEW j, NEW w, NEW s, JoinScript(j, w, s, Now)
  PROVE  parse_success /\ stmt = Filtered(w, Linked(j, s))
<1>1. FilterScript(w, Linked(j, s), Now)
  BY NowIs, Zenon DEF JoinScript
<1> QED BY <1>1, FilterRan

\* A rejected statement had no effect.
LEMMA RejectedRan ==
  ASSUME ParserInv, at = "ran", Rejected(Now)
  PROVE  effect = NoEffect
<1>0. PICK q \in {"done", "ran"} : \E r, s, ok : Now = <<q, r, s, ok>> /\ Nothing(s)
  BY DEF Rejected
<1>1. PICK r, s, ok : Now = <<q, r, s, ok>> /\ Nothing(s)
  BY <1>0
<1>2. Nothing(stmt)
  BY <1>1, NowIs, Zenon
<1>3. PICK front \in FrontEnds : effect = EffectOn(front)
  BY DEF ParserInv, EffectInv
<1>4. stmt.table = "" => ~Known
  BY NamedAssumption DEF Known
<1>5. EffectOn(front) = NoEffect
  BY <1>2, <1>4, Zenon DEF EffectOn, Nothing
<1> QED BY <1>3, <1>5

\* A SELECT that was run: the one meant, or nothing when it has too many columns.
LEMMA SelectRan ==
  ASSUME at = "ran", NEW columns \in SelectLists, NEW table, NEW j, NEW w, SelectScript(columns, table, j, w, Now)
  PROVE  \/ Len(columns) > MaxColumns /\ Rejected(Now)
         \/ Len(columns) <= MaxColumns /\ parse_success /\ stmt = Select(columns, table, j, w).stmt
<1>1. \/ Len(columns) > MaxColumns /\ Rejected(Now)
      \/ Len(columns) <= MaxColumns /\ JoinScript(j, w, ChosenFrom(Shorts(columns), table), Now)
  BY NowIs, Zenon DEF SelectScript
<1>2. Select(columns, table, j, w).stmt = Filtered(w, Linked(j, ChosenFrom(Shorts(columns), table)))
  BY ShortsAre, Zenon DEF Select, ChosenFrom, Shorts
<1>3. JoinScript(j, w, ChosenFrom(Shorts(columns), table), Now) => parse_success /\ stmt = Filtered(w, Linked(j, ChosenFrom(Shorts(columns), table)))
  BY JoinRan, Zenon
<1> QED BY <1>1, <1>2, <1>3, Zenon

\* An INSERT that was run: the one meant, or nothing when it has too many values.
LEMMA InsertRan ==
  ASSUME at = "ran", NEW names, NEW table, NEW values, InsertScript(names, table, values, Now)
  PROVE  \/ Len(values) > MaxColumns /\ Rejected(Now)
         \/ Len(values) <= MaxColumns /\ parse_success /\ stmt = Insert(names, table, values).stmt
<1>1. TooMuch(Now) => FALSE
  BY NowIs, Zenon DEF TooMuch
<1>2. \/ Len(values) > MaxColumns /\ Rejected(Now)
      \/ Len(values) <= MaxColumns /\ EndScript(GivenAll(table, values), Now)
  BY <1>1, NowIs, Zenon DEF InsertScript
<1>3. Insert(names, table, values).stmt = GivenAll(table, values)
  BY Zenon DEF Insert, GivenAll, Literal
<1>4. EndScript(GivenAll(table, values), Now) => parse_success /\ stmt = GivenAll(table, values)
  BY EndRan, Zenon
<1> QED BY <1>2, <1>3, <1>4, Zenon

\* A DELETE that was run is the one meant.
LEMMA DeleteRan ==
  ASSUME at = "ran", NEW table, NEW w, DeleteScript(table, w, Now)
  PROVE  parse_success /\ stmt = Delete(table, w).stmt
<1>1. FilterScript(w, DeletingFrom(table), Now)
  BY NowIs, Zenon DEF DeleteScript
<1>2. Delete(table, w).stmt = Filtered(w, DeletingFrom(table))
  BY Zenon DEF Delete, DeletingFrom
<1>3. parse_success /\ stmt = Filtered(w, DeletingFrom(table))
  BY <1>1, FilterRan, Zenon
<1> QED BY <1>2, <1>3, Zenon

\* A CREATE that was run: what was read of its columns, or nothing when there are too many.
LEMMA CreateRan ==
  ASSUME at = "ran", NEW columns, NEW table, CreateScript(columns, table, Now)
  PROVE  \/ Len(columns) > MaxColumns /\ Rejected(Now)
         \/ Len(columns) <= MaxColumns /\ parse_success
            /\ stmt = Created(table, Drawings(columns), KeyIndex(columns))
<1>1. TooMuch(Now) => FALSE
  BY NowIs, Zenon DEF TooMuch
<1>2. \A c, t, cs, k : ~ColumnScript(c, t, table, cs, k, Now)
  <2>1. \A q, r, s : q # "ran" => Now # Reading(q, r, s)
    BY NowIs, Zenon
  <2>2. /\ "type" # "ran" /\ "length" # "ran" /\ "length_number" # "ran" /\ "length_end" # "ran"
        /\ "constraint" # "ran" /\ "primary_key" # "ran" /\ "not_null" # "ran"
    BY Zenon
  <2>3. \A r, s : /\ Now # Reading("type", r, s) /\ Now # Reading("length", r, s)
                 /\ Now # Reading("length_number", r, s) /\ Now # Reading("length_end", r, s)
                 /\ Now # Reading("constraint", r, s) /\ Now # Reading("primary_key", r, s)
                 /\ Now # Reading("not_null", r, s)
    BY <2>1, <2>2, Zenon
  <2> SUFFICES ASSUME NEW c, NEW t, NEW cs, NEW k, ColumnScript(c, t, table, cs, k, Now) PROVE FALSE
    OBVIOUS
  <2> QED BY <2>3, Zenon DEF ColumnScript
<1>3. \/ Len(columns) > MaxColumns /\ Rejected(Now)
      \/ Len(columns) <= MaxColumns /\ EndScript(Created(table, Drawings(columns), KeyIndex(columns)), Now)
  BY <1>1, <1>2, NowIs, Zenon DEF CreateScript
<1> QED BY <1>3, EndRan, Zenon

\* What was read of them is what was meant.
LEMMA CreateMeans ==
  ASSUME NEW columns \in ColumnLists, NEW table
  PROVE  Create(columns, table).stmt = Created(table, Drawings(columns), KeyIndex(columns))
<1>1. Len(Drawings(columns)) = Len(columns)
  BY DrawingsAre, Zenon
<1>2. Create(columns, table).stmt
      = [BlankStatement EXCEPT !.type = "CREATE", !.table = AsTable(table), !.columns = Drawings(columns),
           !.column_count = Len(columns), !.primary_key_index = KeyIndex(columns)]
  BY Zenon DEF Create, Drawings
<1> QED BY <1>1, <1>2, Zenon DEF Created

\* SHOW TABLES that was run is what was meant.
LEMMA ShowRan ==
  ASSUME at = "ran", ShowScript(Now)
  PROVE  parse_success /\ stmt = ShowTables.stmt
<1>1. EndScript(Showing, Now)
  BY NowIs, Zenon DEF ShowScript
<1>2. ShowTables.stmt = Showing
  BY Zenon DEF ShowTables, Showing
<1> QED BY <1>1, <1>2, EndRan, Zenon

\* A DROP TABLE that was run did nothing.
LEMMA DropRan ==
  ASSUME at = "ran", NEW table, DropScript(table, Now)
  PROVE  Rejected(Now)
<1>1. TooMuch(Now) => FALSE
  BY NowIs, Zenon DEF TooMuch
<1> QED BY <1>1, NowIs, Zenon DEF DropScript

\* An UPDATE that was run: the one meant when it fits, and nothing when it does not.
LEMMA UpdateRan ==
  ASSUME at = "ran", NEW sets, NEW table, NEW w, UpdateScript(table, sets, w, Now)
  PROVE  \/ ~Fits(sets, w) /\ Rejected(Now)
         \/ Fits(sets, w) /\ parse_success /\ stmt = Update(sets, table, w).stmt
<1>1. TooMuch(Now) => FALSE
  BY NowIs, Zenon DEF TooMuch
<1>2. OffTrack(Now) => FALSE
  BY NowIs, Zenon DEF OffTrack
<1>3. \/ ~Fits(sets, w) /\ Rejected(Now)
      \/ Fits(sets, w) /\ FilterScript(w, AllSet(table, sets), Now)
  <2>1. \A q, r, s : q # "ran" => Now # Reading(q, r, s)
    BY NowIs, Zenon
  <2>2. /\ "start" # "ran" /\ "name" # "ran" /\ "set" # "ran" /\ "set_column" # "ran"
        /\ "set_equals" # "ran" /\ "set_value" # "ran" /\ "set_next" # "ran"
    BY Zenon
  <2>3. \A r, s : /\ Now # Reading("start", r, s) /\ Now # Reading("name", r, s) /\ Now # Reading("set", r, s)
                 /\ Now # Reading("set_column", r, s) /\ Now # Reading("set_equals", r, s)
                 /\ Now # Reading("set_value", r, s) /\ Now # Reading("set_next", r, s)
    BY <2>1, <2>2, Zenon
  <2> QED BY <1>1, <1>2, <2>3, Zenon DEF UpdateScript
<1>4. ASSUME Fits(sets, w), FilterScript(w, AllSet(table, sets), Now)
      PROVE  parse_success /\ stmt = Update(sets, table, w).stmt
  <2>1. parse_success /\ stmt = Filtered(w, AllSet(table, sets))
    BY <1>4, FilterRan, Zenon
  <2>2. Update(sets, table, w).stmt = Filtered(w, AllSet(table, sets))
    BY Zenon DEF Update, AllSet, SetNames, SetLiterals
  <2> QED BY <2>1, <2>2, Zenon
<1> QED BY <1>3, <1>4, Zenon

\* Whatever is read as it is written is being read as its script says.
WrittenInv ==
  /\ \A columns \in SelectLists, table \in TableNames, j \in JoinClauses, w \in Filters :
       Select(columns, table, j, w).tokens = text.tokens => SelectScript(columns, table, j, w, Now)
  /\ \A names \in SkippedLists, table \in TableNames, values \in ValueLists :
       Insert(names, table, values).tokens = text.tokens => InsertScript(names, table, values, Now)
  /\ \A table \in TableNames, w \in Filters :
       Delete(table, w).tokens = text.tokens => DeleteScript(table, w, Now)
  /\ \A columns \in ColumnLists, table \in TableNames :
       Create(columns, table).tokens = text.tokens => CreateScript(columns, table, Now)
  /\ ShowTables.tokens = text.tokens => ShowScript(Now)
  /\ \A sets \in SetLists, table \in TableNames, w \in Filters :
       Update(sets, table, w).tokens = text.tokens => UpdateScript(table, sets, w, Now)
  /\ \A table \in TableNames : Drop(table).tokens = text.tokens => DropScript(table, Now)

\* Each script begins with the whole text.
LEMMA WrittenStarts ==
  ASSUME Init
  PROVE  WrittenInv
<1>1. Now = Reading("start", text.tokens, BlankStatement)
  <2>1. text.tokens \in Seq(STRING \ {NULL})
    BY ParserAssumption DEF Init
  <2>2. SubSeq(text.tokens, 1, Len(text.tokens)) = text.tokens
    BY <2>1, SubSeqFull
  <2>3. pos = 1 /\ at = "start" /\ stmt = BlankStatement /\ parse_success = FALSE
    BY Zenon DEF Init
  <2> QED BY <2>2, <2>3, Zenon DEF Now, Rest, Reading
<1>2. ASSUME NEW columns \in SelectLists, NEW table \in TableNames, NEW j \in JoinClauses, NEW w \in Filters,
             Select(columns, table, j, w).tokens = text.tokens
      PROVE  SelectScript(columns, table, j, w, Now)
  <2>1. text.tokens = <<"SELECT">> \o (Commas(Listed(columns)) \o FromText(table, j, w))
    BY <1>2, SelectTokens, Zenon
  <2> QED BY <1>1, <2>1, Zenon DEF SelectScript
<1>3. ASSUME NEW names \in SkippedLists, NEW table \in TableNames, NEW values \in ValueLists,
             Insert(names, table, values).tokens = text.tokens
      PROVE  InsertScript(names, table, values, Now)
  <2>1. text.tokens = <<"INSERT">> \o (<<"INTO">> \o (<<table>> \o (Skipped(names) \o FromValues(values))))
    BY <1>3, InsertTokens, Zenon
  <2> QED BY <1>1, <2>1, Zenon DEF InsertScript
<1>4. ASSUME NEW table \in TableNames, NEW w \in Filters, Delete(table, w).tokens = text.tokens
      PROVE  DeleteScript(table, w, Now)
  <2>1. text.tokens = <<"DELETE">> \o (<<"FROM">> \o (<<table>> \o FilterText(w)))
    BY <1>4, DeleteTokens, Zenon
  <2> QED BY <1>1, <2>1, Zenon DEF DeleteScript
<1>5. ASSUME NEW columns \in ColumnLists, NEW table \in TableNames, Create(columns, table).tokens = text.tokens
      PROVE  CreateScript(columns, table, Now)
  <2>1. text.tokens = <<"CREATE">> \o (<<"TABLE">> \o FromTable(columns, table))
    BY <1>5, CreateTokens, Zenon
  <2> QED BY <1>1, <2>1, Zenon DEF CreateScript
<1>6. ASSUME ShowTables.tokens = text.tokens PROVE ShowScript(Now)
  BY <1>1, <1>6, ShowTokens, Zenon DEF ShowScript
<1>7. ASSUME NEW sets \in SetLists, NEW table \in TableNames, NEW w \in Filters,
             Update(sets, table, w).tokens = text.tokens
      PROVE  UpdateScript(table, sets, w, Now)
  <2>1. text.tokens = <<"UPDATE">> \o (<<table>> \o (<<"SET">> \o FromSets(sets, w)))
    BY <1>7, UpdateTokens, Zenon
  <2> QED BY <1>1, <2>1, Zenon DEF UpdateScript
<1>8. ASSUME NEW table \in TableNames, Drop(table).tokens = text.tokens PROVE DropScript(table, Now)
  <2>1. text.tokens = <<"DROP">> \o (<<"TABLE">> \o (<<table>> \o End))
    BY <1>8, DropTokens, Zenon
  <2> QED BY <1>1, <2>1, Zenon DEF DropScript
<1> QED BY <1>2, <1>3, <1>4, <1>5, <1>6, <1>7, <1>8, Zenon DEF WrittenInv

\* Each step is one of the script.
LEMMA WrittenKept ==
  ASSUME TypeOK, Next, WrittenInv
  PROVE  WrittenInv'
<1>1. text' = text
  BY TextStays
<1>2. \A columns \in SelectLists, table \in TableNames, j \in JoinClauses, w \in Filters :
        SelectScript(columns, table, j, w, Now) => SelectScript(columns, table, j, w, Now')
  BY SelectStep, Zenon
<1>3. \A names \in SkippedLists, table \in TableNames, values \in ValueLists :
        InsertScript(names, table, values, Now) => InsertScript(names, table, values, Now')
  BY InsertStep, Zenon
<1>4. \A table \in TableNames, w \in Filters : DeleteScript(table, w, Now) => DeleteScript(table, w, Now')
  BY DeleteStep, Zenon
<1>5. \A columns \in ColumnLists, table \in TableNames :
        CreateScript(columns, table, Now) => CreateScript(columns, table, Now')
  BY CreateStep, Zenon
<1>6. ShowScript(Now) => ShowScript(Now')
  BY ShowStep, Zenon
<1>7. \A sets \in SetLists, table \in TableNames, w \in Filters :
        UpdateScript(table, sets, w, Now) => UpdateScript(table, sets, w, Now')
  BY UpdateStep, Zenon
<1>8. \A table \in TableNames : DropScript(table, Now) => DropScript(table, Now')
  BY DropStep, Zenon
<1>9. WrittenInv' <=>
        /\ \A columns \in SelectLists, table \in TableNames, j \in JoinClauses, w \in Filters :
             Select(columns, table, j, w).tokens = text.tokens => SelectScript(columns, table, j, w, Now')
        /\ \A names \in SkippedLists, table \in TableNames, values \in ValueLists :
             Insert(names, table, values).tokens = text.tokens => InsertScript(names, table, values, Now')
        /\ \A table \in TableNames, w \in Filters :
             Delete(table, w).tokens = text.tokens => DeleteScript(table, w, Now')
        /\ \A columns \in ColumnLists, table \in TableNames :
             Create(columns, table).tokens = text.tokens => CreateScript(columns, table, Now')
        /\ ShowTables.tokens = text.tokens => ShowScript(Now')
        /\ \A sets \in SetLists, table \in TableNames, w \in Filters :
             Update(sets, table, w).tokens = text.tokens => UpdateScript(table, sets, w, Now')
        /\ \A table \in TableNames : Drop(table).tokens = text.tokens => DropScript(table, Now')
  BY <1>1 DEF WrittenInv
<1> QED BY <1>2, <1>3, <1>4, <1>5, <1>6, <1>7, <1>8, <1>9, Zenon DEF WrittenInv

\* The parser takes a statement that HELP and the README describe as it is meant,
\* with the names cut and without the prefixes the code drops, or does nothing at
\* all; every DROP TABLE does nothing, and every UPDATE but one without WHERE that
\* fills its array (parser.c:103-560, 793-807).
THEOREM WrittenStatementsAreParsed == Spec => []WrittenIsParsed
<1>1. Init => WrittenInv
  BY WrittenStarts
<1>2. ParserInv /\ WrittenInv /\ [Next]_vars => WrittenInv'
  <2>1. ASSUME ParserInv, WrittenInv, Next PROVE WrittenInv'
    BY <2>1, WrittenKept DEF ParserInv
  <2>2. ASSUME WrittenInv, UNCHANGED vars PROVE WrittenInv'
    <3>1. text' = text /\ Now' = Now
      BY <2>2 DEF vars, Now, Rest
    <3> QED BY <2>2, <3>1 DEF WrittenInv
  <2> QED BY <2>1, <2>2
<1>3. ParserInv /\ WrittenInv => WrittenIsParsed
  <2> DEFINE Parsed(w) == IF w.accepted THEN parse_success /\ stmt = w.stmt ELSE effect = NoEffect
  <2> SUFFICES ASSUME ParserInv, WrittenInv, at = "ran", NEW w \in Written, w.tokens = text.tokens
               PROVE  Parsed(w)
    BY Zenon DEF WrittenIsParsed
  <2>0. Rejected(Now) => effect = NoEffect
    BY RejectedRan, Zenon
  <2>a. MaxColumns \in Nat /\ 1 <= MaxColumns
    BY ParserAssumption
  <2>b. \A n \in Nat : ~(n > MaxColumns /\ n <= MaxColumns)
    BY <2>a
  <2>1. ASSUME NEW columns \in SelectLists, NEW table \in TableNames, NEW j \in JoinClauses, NEW f \in Filters,
               w = Select(columns, table, j, f)
        PROVE  Parsed(w)
    <3>1. SelectScript(columns, table, j, f, Now)
      BY <2>1, Zenon DEF WrittenInv
    <3>2. \/ Len(columns) > MaxColumns /\ Rejected(Now)
          \/ Len(columns) <= MaxColumns /\ parse_success /\ stmt = Select(columns, table, j, f).stmt
      BY <3>1, SelectRan
    <3>3. w.accepted = (Len(columns) <= MaxColumns) /\ Len(columns) \in Nat
      BY <2>1, SelectedAre, LenProperties, Zenon DEF Select
    <3> QED BY <2>0, <2>1, <2>b, <3>2, <3>3, Zenon
  <2>2. ASSUME NEW names \in SkippedLists, NEW table \in TableNames, NEW values \in ValueLists,
               w = Insert(names, table, values)
        PROVE  Parsed(w)
    <3>1. InsertScript(names, table, values, Now)
      BY <2>2, Zenon DEF WrittenInv
    <3>2. \/ Len(values) > MaxColumns /\ Rejected(Now)
          \/ Len(values) <= MaxColumns /\ parse_success /\ stmt = Insert(names, table, values).stmt
      BY <3>1, InsertRan
    <3>3. w.accepted = (Len(values) <= MaxColumns) /\ Len(values) \in Nat
      BY <2>2, ValuesAre, Zenon DEF Insert
    <3> QED BY <2>0, <2>2, <2>b, <3>2, <3>3, Zenon
  <2>3. ASSUME NEW table \in TableNames, NEW f \in Filters, w = Delete(table, f)
        PROVE  Parsed(w)
    <3>1. DeleteScript(table, f, Now)
      BY <2>3, Zenon DEF WrittenInv
    <3>2. parse_success /\ stmt = Delete(table, f).stmt
      BY <3>1, DeleteRan
    <3>3. w.accepted
      BY <2>3, Zenon DEF Delete
    <3> QED BY <2>3, <2>a, <3>2, <3>3, Zenon
  <2>4. ASSUME NEW columns \in ColumnLists, NEW table \in TableNames, w = Create(columns, table)
        PROVE  Parsed(w)
    <3>1. CreateScript(columns, table, Now)
      BY <2>4, Zenon DEF WrittenInv
    <3>2. \/ Len(columns) > MaxColumns /\ Rejected(Now)
          \/ Len(columns) <= MaxColumns /\ parse_success /\ stmt = Create(columns, table).stmt
      BY <3>1, CreateRan, CreateMeans, Zenon
    <3>3. w.accepted = (Len(columns) <= MaxColumns) /\ Len(columns) \in Nat
      BY <2>4, ColumnsAre, Zenon DEF Create
    <3> QED BY <2>0, <2>4, <2>b, <3>2, <3>3, Zenon
  <2>5. ASSUME w = ShowTables PROVE Parsed(w)
    <3>1. ShowScript(Now)
      BY <2>5, Zenon DEF WrittenInv
    <3>2. parse_success /\ stmt = ShowTables.stmt
      BY <3>1, ShowRan
    <3>3. w.accepted
      BY <2>5, Zenon DEF ShowTables
    <3> QED BY <2>5, <2>a, <3>2, <3>3, Zenon
  <2>6. ASSUME NEW sets \in SetLists, NEW table \in TableNames, NEW f \in Filters, w = Update(sets, table, f)
        PROVE  Parsed(w)
    <3>1. UpdateScript(table, sets, f, Now)
      BY <2>6, Zenon DEF WrittenInv
    <3>2. \/ ~Fits(sets, f) /\ Rejected(Now)
          \/ Fits(sets, f) /\ parse_success /\ stmt = Update(sets, table, f).stmt
      BY <3>1, UpdateRan
    <3>3. w.accepted = Fits(sets, f)
      BY <2>6, Zenon DEF Update, Fits
    <3> QED BY <2>0, <2>6, <3>2, <3>3, Zenon
  <2>7. ASSUME NEW table \in TableNames, w = Drop(table) PROVE Parsed(w)
    <3>1. DropScript(table, Now)
      BY <2>7, Zenon DEF WrittenInv
    <3>2. Rejected(Now)
      BY <3>1, DropRan
    <3>3. ~w.accepted
      BY <2>7, Zenon DEF Drop
    <3> QED BY <2>0, <3>2, <3>3, Zenon
  <2>8. \/ \E columns \in SelectLists, table \in TableNames, j \in JoinClauses, f \in Filters :
             w = Select(columns, table, j, f)
        \/ \E names \in SkippedLists, table \in TableNames, values \in ValueLists : w = Insert(names, table, values)
        \/ \E table \in TableNames, f \in Filters : w = Delete(table, f)
        \/ \E columns \in ColumnLists, table \in TableNames : w = Create(columns, table)
        \/ w = ShowTables
        \/ \E sets \in SetLists, table \in TableNames, f \in Filters : w = Update(sets, table, f)
        \/ \E table \in TableNames : w = Drop(table)
    BY DEF Written
  <2> HIDE DEF Parsed
  <2> QED BY <2>1, <2>2, <2>3, <2>4, <2>5, <2>6, <2>7, <2>8, Zenon
<1> QED BY <1>1, <1>2, <1>3, ParserInvariant, PTL DEF Spec

=============================================================================
