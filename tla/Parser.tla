------------------------------- MODULE Parser -------------------------------
(***************************************************************************)
(* The SQL parser (parser.c) and what the executor then does with the      *)
(* statement it leaves.  A text is a sequence of tokens, as tokenizer_next *)
(* returns them (module Repl has the tokenizer itself); behind the last    *)
(* one the text ends, or a quote is open, and NULL is returned for both.   *)
(* Every step takes or peeks at one token.                                 *)
(*                                                                         *)
(* A parse that fails leaves the statement as it is: only some of the      *)
(* failing paths set has_error, and both front ends run every statement    *)
(* that has none.                                                          *)
(***************************************************************************)
EXTENDS Integers, Sequences, SequencesExt

CONSTANTS
  Texts,         \* records: tokens, and whether a quote is open behind them
  MaxColumns,    \* MAX_COLUMNS: 32 in storage.h
  MaxStringLen,  \* MAX_STRING_LEN: 255 in storage.h
  Numbers,       \* the tokens that are numbers, and what they are
  Quoted,        \* the tokens that are string literals
  Unqualified,   \* the tokens with a dot, and what stands behind their first dot
  CutColumns,    \* the tokens longer than MAX_COLUMN_NAME - 1, and what strncpy keeps
  CutTables,     \* the tokens longer than MAX_TABLE_NAME - 1, and what it keeps
  Schemas        \* the tables there are: their columns' names, and whether each
                 \* is as wide as an int, the only width a filter is applied to

NULL == "NULL pointer"

ASSUME ParserAssumption ==
  /\ MaxColumns \in Nat \ {0}
  /\ MaxStringLen \in Nat
  /\ Texts \subseteq [tokens : Seq(STRING \ {NULL}), open : BOOLEAN]
  /\ \A n \in DOMAIN Numbers : Numbers[n] \in Int
  /\ \A short \in {Unqualified, CutColumns, CutTables} : \A tok \in DOMAIN short : short[tok] \in STRING
  /\ "*" \notin DOMAIN CutColumns
  /\ \A table \in DOMAIN Schemas : Schemas[table] \in Seq([name : STRING, word : BOOLEAN])

\* load_schema stops looking at a schema without a name.
ASSUME NamedAssumption == "" \notin DOMAIN Schemas

VARIABLES
  text,           \* the text, as in Texts
  pos,            \* the next token
  at,             \* where in the parse_* functions control is
  stmt,           \* the SQLStatement
  parse_success,  \* what the parse_* function returned
  effect          \* what executing the statement did

vars == <<text, pos, at, stmt, parse_success, effect>>

Tok == IF pos <= Len(text.tokens) THEN text.tokens[pos] ELSE NULL

\* Names are copied into arrays, as much of them as fits; of the columns a join
\* is on, what stands behind a dot.
Shortened(short, tok) == IF tok \in DOMAIN short THEN short[tok] ELSE tok
AsTable(tok) == Shortened(CutTables, tok)
AsColumn(tok) == Shortened(CutColumns, tok)
AsJoinColumn(tok) == AsColumn(Shortened(Unqualified, tok))

Atoi(tok) == IF tok \in DOMAIN Numbers THEN Numbers[tok] ELSE 0

\* A value is a string when it is quoted, otherwise whatever atoi makes of it.
Value(tok) ==
  [type |-> IF tok \in Quoted THEN "STRING" ELSE "INT",
   int |-> IF tok \in Quoted THEN 0 ELSE Atoi(tok),
   str |-> IF tok \in Quoted THEN tok ELSE ""]

\* parse_data_type: what is not known is an integer.
DataType(tok) == IF tok \in {"FLOAT", "STRING", "BOOL"} THEN tok ELSE "INT"

\* parse_operator: what is not known is an equals sign.
Operators == {"=", "<", ">", "<=", ">=", "LIKE"}
Operator(tok) == IF tok \in Operators THEN tok ELSE "="

\* calloc: type 0 is STMT_SELECT.  Pointers are sequences, empty when NULL.
BlankStatement ==
  [type |-> "SELECT", table |-> "", has_error |-> FALSE,
   columns |-> <<>>, column_count |-> 0, primary_key_index |-> 0,
   select |-> <<>>, select_count |-> 0,
   has_join |-> FALSE, join |-> <<>>,
   values |-> <<>>, value_count |-> 0,
   set_columns |-> <<>>, set_values |-> <<>>, set_count |-> 0,
   has_where |-> FALSE, where_column |-> "", where_operator |-> "=", where_value |-> <<>>]

NoEffect == [kind |-> "none", table |-> "", filter |-> <<>>]

Commands == {"SELECT", "INSERT", "CREATE", "DELETE", "UPDATE", "DROP"}
JoinWords == {"INNER", "LEFT", "RIGHT", "FULL"}

\* The expect_token calls: where, which token, and where it goes on.
Expected ==
  [create |-> <<"TABLE", "name">>,       insert |-> <<"INTO", "name">>,
   delete |-> <<"FROM", "name">>,        columns |-> <<"(", "column">>,
   length_end |-> <<")", "constraint">>, values |-> <<"VALUES", "values_open">>,
   values_open |-> <<"(", "value">>,     set |-> <<"SET", "set_column">>,
   set_equals |-> <<"=", "set_value">>,  join |-> <<"JOIN", "join_table">>,
   join_on |-> <<"ON", "join_left">>,    join_equals |-> <<"=", "join_right">>]

\* Where a table name leads to.
AfterName ==
  [CREATE |-> "columns", INSERT |-> "insert_columns", UPDATE |-> "set",
   DELETE |-> "where_or_end", DROP |-> "end", SELECT |-> "join_or_where"]

\* Where NULL is no reason to give up: most only look ahead.
Peeks == {"length", "join_or_where", "insert_columns", "where_or_end", "end",
          "select_columns", "done", "ran"}

\* The loops over a list end without a look at the next token when their array
\* is full.
ColumnsFull == at = "column" /\ Len(stmt.columns) = MaxColumns
ValuesFull == at = "value" /\ Len(stmt.values) = MaxColumns
SetFull == at = "set_column" /\ Len(stmt.set_columns) = MaxColumns

-----------------------------------------------------------------------------

\* Where control is while each kind of statement is parsed.
CreatePlaces == {"create", "columns", "column", "type", "length", "length_number", "length_end",
                 "constraint", "primary_key", "not_null"}
InsertPlaces == {"insert", "insert_columns", "skip", "values", "values_open", "value", "value_next"}
SetPlaces == {"set", "set_column", "set_equals", "set_value", "set_next"}
SelectPlaces == {"start", "show", "select_first", "select_columns", "from", "join_or_where", "join",
                 "join_table", "join_on", "join_left", "join_equals", "join_right"}
WherePlaces == {"delete", "where_or_end", "where_column", "where_operator", "where_value"}
Places == CreatePlaces \cup InsertPlaces \cup SetPlaces \cup SelectPlaces \cup WherePlaces
          \cup {"name", "end", "done", "ran"}

\* The tokens of all texts, what is kept of them, and what a name is before
\* there is one.
Vocabulary == UNION {ToSet(t.tokens) : t \in Texts}
Names ==
  Vocabulary \cup {""}
  \cup UNION {{short[tok] : tok \in DOMAIN short} : short \in {Unqualified, CutColumns, CutTables}}

Columns == [name : Names, type : {"INT", "FLOAT", "STRING", "BOOL"}, length : Int,
            is_primary : BOOLEAN, is_unique : BOOLEAN]
Literals == [type : {"STRING", "INT"}, int : Int, str : Names]
JoinParts == [type : JoinWords \cup {"join_table", "join_left", "join_right"}, left : Names]
Statements ==
  [type : Commands \cup {"SHOW TABLES", "UNKNOWN"}, table : Names, has_error : BOOLEAN,
   columns : Seq(Columns), column_count : Nat, primary_key_index : -1 .. MaxColumns - 1,
   select : Seq(Names), select_count : Nat,
   has_join : BOOLEAN, join : Seq(JoinParts),
   values : Seq(Literals), value_count : Nat,
   set_columns : Seq(Names), set_values : Seq(Literals), set_count : Nat,
   has_where : BOOLEAN, where_column : Names, where_operator : Operators, where_value : Seq(Int)]
Effects ==
  [kind : {"none", "create", "show", "select", "insert", "delete", "update"}, table : Names,
   filter : Seq([column : Names, value : Int])]

\* An array index never passes the end of the array, and a count never what
\* was stored.
TypeOK ==
  /\ text \in [tokens : Seq(Vocabulary), open : BOOLEAN]
  /\ pos \in 1 .. Len(text.tokens) + 1
  /\ at \in Places
  /\ parse_success \in BOOLEAN
  /\ stmt \in Statements
  /\ effect \in Effects
  /\ Len(stmt.columns) <= MaxColumns
  /\ Len(stmt.select) <= MaxColumns
  /\ Len(stmt.values) <= MaxColumns
  /\ Len(stmt.set_columns) <= MaxColumns
  /\ stmt.column_count \in {0, Len(stmt.columns)}
  /\ stmt.value_count \in {0, Len(stmt.values)}
  /\ stmt.select_count \in {0, Len(stmt.select)}
  /\ stmt.set_count \in {0, Len(stmt.set_values)}
  /\ Len(stmt.where_value) <= 1

Init ==
  /\ text \in Texts
  /\ pos = 1
  /\ at = "start"
  /\ stmt = BlankStatement
  /\ parse_success = FALSE
  /\ effect = NoEffect

\* On to another place, with the statement changed, a token taken or not.
Go(place, s, tokens) ==
  /\ at' = place
  /\ stmt' = s
  /\ pos' = pos + tokens
  /\ UNCHANGED <<text, parse_success, effect>>

Take(place, s) == Go(place, s, 1)
Peek(place, s) == Go(place, s, 0)
Error == [stmt EXCEPT !.has_error = TRUE]

-----------------------------------------------------------------------------
(* parse_sql and what all the statements share.                            *)

Begin ==
  /\ at = "start"
  /\ Tok # NULL
  /\ \/ /\ Tok = "SELECT"
        /\ Take("select_first", stmt)
     \/ /\ Tok \in {"INSERT", "DELETE"}
        /\ Take(IF Tok = "INSERT" THEN "insert" ELSE "delete", [stmt EXCEPT !.type = Tok])
     \/ /\ Tok \in {"UPDATE", "DROP"}
        /\ Take("name", [stmt EXCEPT !.type = Tok])
     \/ /\ Tok = "CREATE"
        /\ Take("create", [stmt EXCEPT !.type = Tok, !.primary_key_index = -1])
     \/ /\ Tok = "SHOW"
        /\ Take("show", stmt)
     \/ /\ Tok \notin Commands \cup {"SHOW"}
        /\ Take("done", [Error EXCEPT !.type = "UNKNOWN"])

\* SHOW without TABLES fails and says nothing: the statement is still blank.
Show ==
  /\ at = "show"
  /\ Tok # NULL
  /\ IF Tok = "TABLES" THEN Take("end", [stmt EXCEPT !.type = "SHOW TABLES"])
     ELSE Take("done", stmt)

Expect ==
  /\ at \in DOMAIN Expected
  /\ Tok # NULL
  /\ IF Tok = Expected[at][1] THEN Take(Expected[at][2], stmt) ELSE Take("done", Error)

\* Mistaken: the loop over a list of columns to skip does not look for NULL.
EndOfTextSpinning ==
  /\ Tok = NULL
  /\ at \notin Peeks \cup {"skip"}
  /\ ~(ColumnsFull \/ ValuesFull \/ SetFull)
  /\ Peek("done", IF at \in DOMAIN Expected \cup {"start"} THEN Error ELSE stmt)

\* NULL where a token is needed: expect_token sets has_error, and so does
\* parse_sql for an empty text; the other places only write a message.
EndOfText ==
  /\ Tok = NULL
  /\ at \notin Peeks
  /\ ~(ColumnsFull \/ ValuesFull \/ SetFull)
  /\ \/ /\ at = "start"
        /\ Peek("done", [Error EXCEPT !.type = "UNKNOWN"])
     \/ /\ at \in DOMAIN Expected
        /\ Peek("done", Error)
     \/ /\ at = "skip"
        /\ Peek("values", stmt)
     \/ /\ at \notin DOMAIN Expected \cup {"start", "skip"}
        /\ Peek("done", stmt)

TableName ==
  /\ at = "name"
  /\ Tok # NULL
  /\ Take(AfterName[stmt.type], [stmt EXCEPT !.table = AsTable(Tok)])

WhereOrEnd ==
  /\ at = "where_or_end"
  /\ IF Tok = "WHERE" THEN Take("where_column", [stmt EXCEPT !.has_where = TRUE])
     ELSE Peek("end", stmt)

\* parse_where_clause.
WhereColumn ==
  /\ at = "where_column"
  /\ Tok # NULL
  /\ Take("where_operator", [stmt EXCEPT !.where_column = AsColumn(Tok)])

WhereOperator ==
  /\ at = "where_operator"
  /\ Tok # NULL
  /\ Take("where_value", [stmt EXCEPT !.where_operator = Operator(Tok)])

WhereValue ==
  /\ at = "where_value"
  /\ Tok # NULL
  /\ Take("end", [stmt EXCEPT !.where_value = <<Atoi(Tok)>>])

\* Mistaken: what stands behind the semicolon is not looked at.
FinishAtSemicolon ==
  /\ at = "end"
  /\ pos' = IF Tok = ";" THEN pos + 1 ELSE pos
  /\ at' = "done"
  /\ parse_success' = TRUE
  /\ UNCHANGED <<text, stmt, effect>>

\* The statement was parsed: one semicolon, and nothing behind it.
Finish ==
  /\ at = "end"
  /\ LET rest == IF Tok = ";" THEN pos + 1 ELSE pos
         extra == rest <= Len(text.tokens)
     IN /\ pos' = IF extra THEN rest + 1 ELSE rest
        /\ stmt' = IF extra THEN Error ELSE stmt
  /\ at' = "done"
  /\ parse_success' = TRUE
  /\ UNCHANGED <<text, effect>>

-----------------------------------------------------------------------------
(* parse_create_table.                                                     *)

LastColumn == Len(stmt.columns)

ColumnName ==
  /\ at = "column"
  /\ IF ColumnsFull THEN Peek("end", [stmt EXCEPT !.column_count = LastColumn])
     ELSE /\ Tok # NULL
          /\ Take("type", [stmt EXCEPT !.columns = Append(@,
                 [name |-> AsColumn(Tok), type |-> "INT", length |-> 0, is_primary |-> FALSE, is_unique |-> FALSE])])

ColumnType ==
  /\ at = "type"
  /\ Tok # NULL
  /\ LET typed == [stmt EXCEPT !.columns[LastColumn].type = DataType(Tok)]
     IN Take(IF DataType(Tok) = "STRING" THEN "length" ELSE "constraint", typed)

\* The length of a string may follow.
ColumnLength ==
  \/ /\ at = "length"
     /\ IF Tok = "(" THEN Take("length_number", stmt)
        ELSE Peek("constraint", [stmt EXCEPT !.columns[LastColumn].length = MaxStringLen])
  \/ /\ at = "length_number"
     /\ Tok # NULL
     /\ Take("length_end", [stmt EXCEPT !.columns[LastColumn].length = Atoi(Tok)])

\* Up to a comma or a parenthesis every token is taken, known or not.
Constraint ==
  /\ at = "constraint"
  /\ Tok # NULL
  /\ \/ /\ Tok = ","
        /\ Take("column", stmt)
     \/ /\ Tok = ")"
        /\ Take("end", [stmt EXCEPT !.column_count = LastColumn])
     \/ /\ Tok \in {"PRIMARY", "NOT"}
        /\ Take(IF Tok = "NOT" THEN "not_null" ELSE "primary_key", stmt)
     \/ /\ Tok = "UNIQUE"
        /\ Take("constraint", [stmt EXCEPT !.columns[LastColumn].is_unique = TRUE])
     \/ /\ Tok \notin {",", ")", "PRIMARY", "NOT", "UNIQUE"}
        /\ Take("constraint", stmt)

\* Mistaken: the key's place counted from one.
ConstraintWordFromOne ==
  /\ Tok # NULL
  /\ \/ /\ at = "primary_key"
        /\ IF Tok # "KEY" THEN Take("done", stmt)
           ELSE Take("constraint", [stmt EXCEPT !.columns[LastColumn].is_primary = TRUE,
                                               !.primary_key_index = LastColumn])
     \/ /\ at = "not_null"
        /\ Take(IF Tok = "NULL" THEN "constraint" ELSE "done", stmt)

\* PRIMARY without KEY and NOT without NULL fail and say nothing.
ConstraintWord ==
  /\ Tok # NULL
  /\ \/ /\ at = "primary_key"
        /\ IF Tok # "KEY" THEN Take("done", stmt)
           ELSE Take("constraint", [stmt EXCEPT !.columns[LastColumn].is_primary = TRUE,
                                               !.primary_key_index = LastColumn - 1])
     \/ /\ at = "not_null"
        /\ Take(IF Tok = "NULL" THEN "constraint" ELSE "done", stmt)

-----------------------------------------------------------------------------
(* parse_select and parse_join_clause.                                     *)

SelectStar ==
  /\ at = "select_first"
  /\ Tok = "*"
  /\ Take("from", [stmt EXCEPT !.select = <<Tok>>, !.select_count = 1])

\* Mistaken: a full array is noticed one column late.
SelectColumnsOneMore ==
  /\ \/ at = "select_first" /\ Tok \notin {"*", NULL}
     \/ at = "select_columns"
  /\ LET counted == [stmt EXCEPT !.select_count = Len(stmt.select)]
     IN CASE Tok = NULL -> Peek("done", counted)
          [] Tok = "FROM" -> Take("name", counted)
          [] Tok = "," -> Take("select_columns", stmt)
          [] OTHER -> IF Len(stmt.select) > MaxColumns THEN Take("done", stmt)
                      ELSE Take("select_columns", [stmt EXCEPT !.select = Append(@, AsColumn(Tok))])

SelectColumns ==
  /\ \/ at = "select_first" /\ Tok \notin {"*", NULL}
     \/ at = "select_columns"
  /\ LET counted == [stmt EXCEPT !.select_count = Len(stmt.select)]
     IN CASE Tok = NULL -> Peek("done", counted)
          [] Tok = "FROM" -> Take("name", counted)
          [] Tok = "," -> Take("select_columns", stmt)
          [] OTHER -> IF Len(stmt.select) >= MaxColumns THEN Take("done", stmt)
                      ELSE Take("select_columns", [stmt EXCEPT !.select = Append(@, AsColumn(Tok))])

FromAfterStar ==
  /\ at = "from"
  /\ Tok # NULL
  /\ Take(IF Tok = "FROM" THEN "name" ELSE "done", stmt)

JoinOrWhere ==
  /\ at = "join_or_where"
  /\ LET joined(type) == [stmt EXCEPT !.has_join = TRUE, !.join = <<[type |-> type, left |-> stmt.table]>>]
     IN \/ /\ Tok \in JoinWords
           /\ Take("join", joined(Tok))
        \/ /\ Tok = "JOIN"
           /\ Peek("join", joined("INNER"))
        \/ /\ Tok \notin JoinWords \cup {"JOIN"}
           /\ Peek("where_or_end", stmt)

\* The second table and the columns are kept for execute_join, which no front
\* end calls.
JoinName ==
  /\ at \in {"join_table", "join_left", "join_right"}
  /\ Tok # NULL
  /\ Take([join_table |-> "join_on", join_left |-> "join_equals", join_right |-> "where_or_end"][at],
          [stmt EXCEPT !.join = Append(@,
             [type |-> at, left |-> IF at = "join_table" THEN AsTable(Tok) ELSE AsJoinColumn(Tok)])])

-----------------------------------------------------------------------------
(* parse_insert and parse_value_list; parse_update.                        *)

\* A list of columns is skipped.
InsertColumns ==
  \/ /\ at = "insert_columns"
     /\ IF Tok = "(" THEN Take("skip", stmt) ELSE Peek("values", stmt)
  \/ /\ at = "skip"
     /\ Tok # NULL
     /\ Take(IF Tok = ")" THEN "values" ELSE "skip", stmt)

\* Mistaken: the values are counted as they are read, not when the list ends.
InsertValueCounted ==
  /\ at = "value"
  /\ IF ValuesFull THEN Peek("end", [stmt EXCEPT !.value_count = MaxColumns])
     ELSE /\ Tok # NULL
          /\ Take("value_next", [stmt EXCEPT !.values = Append(@, Value(Tok)),
                                            !.value_count = Len(stmt.values) + 1])

InsertValue ==
  /\ at = "value"
  /\ IF ValuesFull THEN Peek("end", [stmt EXCEPT !.value_count = MaxColumns])
     ELSE /\ Tok # NULL
          /\ Take("value_next", [stmt EXCEPT !.values = Append(@, Value(Tok))])

\* What is neither a comma nor a parenthesis is the next value.
InsertNext ==
  /\ at = "value_next"
  /\ Tok # NULL
  /\ CASE Tok = "," -> Take("value", stmt)
       [] Tok = ")" -> Take("end", [stmt EXCEPT !.value_count = Len(stmt.values)])
       [] OTHER -> Peek("value", stmt)

SetColumn ==
  /\ at = "set_column"
  /\ IF SetFull THEN Peek("where_or_end", [stmt EXCEPT !.set_count = MaxColumns])
     ELSE /\ Tok # NULL
          /\ Take("set_equals", [stmt EXCEPT !.set_columns = Append(@, AsColumn(Tok))])

SetValue ==
  /\ at = "set_value"
  /\ Tok # NULL
  /\ Take("set_next", [stmt EXCEPT !.set_values = Append(@, Value(Tok))])

\* WHERE is taken here, and then looked for once more.
SetNext ==
  /\ at = "set_next"
  /\ Tok # NULL
  /\ CASE Tok = "," -> Take("set_column", stmt)
       [] Tok = "WHERE" -> Take("where_or_end", [stmt EXCEPT !.set_count = Len(stmt.set_values)])
       [] OTHER -> Peek("set_column", stmt)

-----------------------------------------------------------------------------
(* What the front ends and the executor make of the statement.             *)

\* run_repl hands over what ends with a semicolon, the web server anything.
FrontEnds ==
  IF text.open \/ (text.tokens # <<>> /\ text.tokens[Len(text.tokens)] = ";")
  THEN {"REPL", "web"} ELSE {"web"}

Known == stmt.table \in DOMAIN Schemas
ColumnNames(table) == {c.name : c \in ToSet(Schemas[table])}

\* Mistaken: the search for the column ends with the first one.
FilterOnFirst ==
  IF stmt.where_value # <<>> /\ Schemas[stmt.table] # <<>>
     /\ Head(Schemas[stmt.table]).name = stmt.where_column /\ Head(Schemas[stmt.table]).word
  THEN <<[column |-> stmt.where_column, value |-> stmt.where_value[1]]>> ELSE <<>>

\* The search stops at the first column of a name, as wide as an int or not.
ComparesWith(table, column) ==
  LET columns == Schemas[table]
  IN \E i \in DOMAIN columns :
       /\ columns[i].name = column /\ columns[i].word
       /\ \A j \in 1 .. i - 1 : columns[j].name # column

\* The rows a filter leaves: the operator is not looked at, only columns as
\* wide as an int are compared, and there may be no such column.
Filter ==
  IF stmt.where_value # <<>> /\ ComparesWith(stmt.table, stmt.where_column)
  THEN <<[column |-> stmt.where_column, value |-> stmt.where_value[1]]>> ELSE <<>>

Effect(kind, filter) == [kind |-> kind, table |-> stmt.table, filter |-> filter]

EffectOn(front) ==
  IF stmt.has_error THEN NoEffect
  ELSE IF ~Known /\ stmt.type \notin {"CREATE", "SHOW TABLES"} THEN NoEffect
  ELSE CASE stmt.type = "CREATE" -> Effect("create", <<>>)
         [] stmt.type = "SHOW TABLES" /\ front = "REPL" -> Effect("show", <<>>)
         [] stmt.type = "SELECT" -> Effect("select", Filter)
         [] stmt.type = "INSERT" /\ stmt.value_count = Len(Schemas[stmt.table]) -> Effect("insert", <<>>)
         [] stmt.type = "DELETE" /\ stmt.where_value # <<>> -> Effect("delete", Filter)
         [] /\ stmt.type = "UPDATE" /\ front = "REPL"
            /\ stmt.set_count > 0  \* with none, the rows are visited and left alone
            /\ ToSet(SubSeq(stmt.set_columns, 1, stmt.set_count)) \subseteq ColumnNames(stmt.table)
            /\ stmt.where_value # <<>> => Filter # <<>> -> Effect("update", Filter)
         [] OTHER -> NoEffect

Execute ==
  /\ at = "done"
  /\ \E front \in FrontEnds : effect' = EffectOn(front)
  /\ at' = "ran"
  /\ UNCHANGED <<text, pos, stmt, parse_success>>

Next ==
  \/ Begin \/ Show \/ Expect \/ EndOfText \/ TableName \/ Finish
  \/ WhereOrEnd \/ WhereColumn \/ WhereOperator \/ WhereValue
  \/ ColumnName \/ ColumnType \/ ColumnLength \/ Constraint \/ ConstraintWord
  \/ SelectStar \/ SelectColumns \/ FromAfterStar \/ JoinOrWhere \/ JoinName
  \/ InsertColumns \/ InsertValue \/ InsertNext
  \/ SetColumn \/ SetValue \/ SetNext
  \/ Execute

\* The parser is a sequential program: it takes its next step.
Spec == Init /\ [][Next]_vars /\ WF_vars(Next)

-----------------------------------------------------------------------------
(* What must never happen, whatever the text.                              *)

\* A parse that failed without an error is run all the same (repl.c:309), and
\* yet it changes no row, but for an UPDATE whose second WHERE is cut short, and
\* an INSERT whose values are cut short, into a table without columns: CREATE
\* TABLE cut short leaves such tables, and no values are as many as they need.
HalfParsedChangesNoRow ==
  at = "ran" /\ ~parse_success /\ ~stmt.has_error =>
    \/ effect.kind \in {"none", "select", "create"}
    \/ effect.kind = "update" /\ stmt.has_where /\ stmt.where_value = <<>>
    \/ effect.kind = "insert" /\ Schemas[effect.table] = <<>>

\* Rows are only changed by a text that was read to its end (parser.c:83
\* "Check for extra tokens"), its last token or the quote left open.
NothingLeftUnread == effect.kind \in {"insert", "delete", "update"} => Tok = NULL

\* Words that mean something else where a column or a value is expected.
Grammar == {"FROM", "WHERE", "SET", "ON", "JOIN", ";"} \cup JoinWords

\* The text ends with a filter that begins at k, and its WHERE does not stand
\* in the place of a missing SET value.
EndsWithFilter(k) ==
  /\ text.tokens[k] = "WHERE" /\ (k > 1 => text.tokens[k - 1] # "=")
  /\ \A i \in k + 1 .. k + 3 : text.tokens[i] \notin Grammar
  /\ text.tokens[k + 1] # "="
  /\ SubSeq(text.tokens, k + 4, Len(text.tokens)) \in {<<>>, <<";">>}

\* A filter that ends the text, on a column whose first of that name is as wide
\* as an int, is applied: no path of the parser reaches the executor without it
\* (executor.c:143-162, 560-582, 671-690 treat a missing filter as every row).
NoFilterDropped ==
  at = "ran" /\ effect.kind \in {"select", "delete", "update"} =>
    \A k \in 1 .. Len(text.tokens) - 3 :
      /\ EndsWithFilter(k)
      /\ ComparesWith(effect.table, AsColumn(text.tokens[k + 1]))
      => effect.filter = <<[column |-> AsColumn(text.tokens[k + 1]), value |-> Atoi(text.tokens[k + 3])]>>

\* No loop of the parser waits for a token that does not come: every text, cut
\* anywhere, is dealt with.
Terminates == <>(at = "ran")

=============================================================================
