--------------------------- MODULE WrittenStatements ---------------------------
(***************************************************************************)
(* Statements as somebody writes them after reading HELP (repl.c:166-192)  *)
(* and the README, and the SQLStatement that each should become.  Names,   *)
(* values and lists are constants: any tokens, but for the few that mean   *)
(* something else where they would stand.                                  *)
(***************************************************************************)
EXTENDS Parser

CONSTANTS
  TableNames,    \* names of tables
  SelectLists,   \* what is selected: columns, or a star
  JoinClauses,   \* <<>>, or kind, table, and the columns on both sides of ON
  Filters,       \* <<>>, or column, operator and value
  SkippedLists,  \* the columns INSERT names, which are not looked at
  ValueLists,    \* values
  SetLists,      \* what UPDATE sets: columns and values
  ColumnLists    \* columns of CREATE TABLE: name, type, length, constraints

AnyToken == STRING \ {NULL}
Constraints == {"PRIMARY KEY", "NOT NULL", "UNIQUE"}

\* A column as it is written: a length only for a string.
WrittenColumns ==
  [name : AnyToken, type : {"INT", "FLOAT", "STRING", "BOOL"}, length : Seq(AnyToken),
   constraints : Seq(Constraints)]
IsKey(c) == \E j \in DOMAIN c.constraints : c.constraints[j] = "PRIMARY KEY"

ASSUME WrittenAssumption ==
  /\ TableNames \subseteq AnyToken
  /\ SelectLists \subseteq {<<"*">>} \cup (Seq(AnyToken \ {"*", ",", "FROM"}) \ {<<>>})
  /\ JoinClauses \subseteq {<<>>} \cup ((JoinWords \cup {"JOIN"}) \X AnyToken \X AnyToken \X AnyToken)
  /\ Filters \subseteq {<<>>} \cup ((AnyToken \ {"WHERE"}) \X Operators \X AnyToken)
  /\ SkippedLists \subseteq Seq(AnyToken \ {")"})
  /\ ValueLists \subseteq Seq(AnyToken) \ {<<>>}
  /\ SetLists \subseteq Seq((AnyToken \ {"WHERE"}) \X AnyToken) \ {<<>>}
  /\ ColumnLists \subseteq Seq(WrittenColumns) \ {<<>>}
  /\ \A columns \in ColumnLists :
       /\ \A i \in DOMAIN columns :
            columns[i].length = <<>> \/ (columns[i].type = "STRING" /\ Len(columns[i].length) = 1)
       /\ \A i, j \in DOMAIN columns : IsKey(columns[i]) /\ IsKey(columns[j]) => i = j

-----------------------------------------------------------------------------
(* The pieces of a text, and what they mean.                               *)

\* Items, each a sequence of tokens, with commas between them.
WithCommas(items) == [i \in DOMAIN items |-> IF i = 1 THEN items[i] ELSE <<",">> \o items[i]]
Commas(items) == FlattenSeq(WithCommas(items))
Listed(tokens) == [i \in DOMAIN tokens |-> <<tokens[i]>>]

End == <<";">>

Clause(w) == IF w = <<>> THEN <<>> ELSE <<"WHERE">> \o w

Filtered(w, s) ==
  IF w = <<>> THEN s
  ELSE [s EXCEPT !.has_where = TRUE, !.where_column = AsColumn(w[1]), !.where_operator = w[2],
                 !.where_value = <<Atoi(w[3])>>]

JoinText(j) ==
  IF j = <<>> THEN <<>>
  ELSE (IF j[1] = "JOIN" THEN <<"JOIN">> ELSE <<j[1], "JOIN">>) \o <<j[2], "ON", j[3], "=", j[4]>>

\* JOIN alone is an inner join.
Linked(j, s) ==
  IF j = <<>> THEN s
  ELSE [s EXCEPT !.has_join = TRUE,
                 !.join = <<[type |-> IF j[1] = "JOIN" THEN "INNER" ELSE j[1], left |-> s.table],
                            [type |-> "join_table", left |-> AsTable(j[2])],
                            [type |-> "join_left", left |-> AsJoinColumn(j[3])],
                            [type |-> "join_right", left |-> AsJoinColumn(j[4])]>>]

Skipped(names) == IF names = <<>> THEN <<>> ELSE <<"(">> \o Commas(Listed(names)) \o <<")">>

ConstraintText ==
  [k \in Constraints |-> CASE k = "PRIMARY KEY" -> <<"PRIMARY", "KEY">>
                           [] k = "NOT NULL" -> <<"NOT", "NULL">>
                           [] k = "UNIQUE" -> <<"UNIQUE">>]
LengthText(c) == IF c.length = <<>> THEN <<>> ELSE <<"(", c.length[1], ")">>
ColumnText(c) ==
  <<c.name, c.type>> \o LengthText(c) \o FlattenSeq([j \in DOMAIN c.constraints |-> ConstraintText[c.constraints[j]]])

\* The column after its first m constraints.
ColumnUpTo(c, m) ==
  [name |-> AsColumn(c.name), type |-> c.type,
   length |-> IF c.type # "STRING" THEN 0 ELSE IF c.length = <<>> THEN MaxStringLen ELSE Atoi(c.length[1]),
   is_primary |-> \E j \in 1 .. m : c.constraints[j] = "PRIMARY KEY",
   is_unique |-> \E j \in 1 .. m : c.constraints[j] = "UNIQUE"]
Column(c) == ColumnUpTo(c, Len(c.constraints))

KeyIndex(columns) ==
  IF \E i \in DOMAIN columns : IsKey(columns[i])
  THEN (CHOOSE i \in DOMAIN columns : IsKey(columns[i])) - 1 ELSE -1

-----------------------------------------------------------------------------
(* The statements: their tokens, the SQLStatement meant, and whether the   *)
(* parser accepts it.                                                      *)

Select(columns, table, j, w) ==
  [tokens |-> <<"SELECT">> \o Commas(Listed(columns)) \o <<"FROM", table>> \o JoinText(j) \o Clause(w) \o End,
   stmt |-> Filtered(w, Linked(j, [BlankStatement EXCEPT
              !.select = [i \in DOMAIN columns |-> AsColumn(columns[i])], !.select_count = Len(columns), !.table = AsTable(table)])),
   accepted |-> Len(columns) <= MaxColumns]

Insert(names, table, values) ==
  [tokens |-> <<"INSERT", "INTO", table>> \o Skipped(names) \o <<"VALUES", "(">>
              \o Commas(Listed(values)) \o <<")">> \o End,
   stmt |-> [BlankStatement EXCEPT !.type = "INSERT", !.table = AsTable(table),
               !.values = [i \in DOMAIN values |-> Value(values[i])], !.value_count = Len(values)],
   accepted |-> Len(values) <= MaxColumns]

Delete(table, w) ==
  [tokens |-> <<"DELETE", "FROM", table>> \o Clause(w) \o End,
   stmt |-> Filtered(w, [BlankStatement EXCEPT !.type = "DELETE", !.table = AsTable(table)]),
   accepted |-> TRUE]

Create(columns, table) ==
  [tokens |-> <<"CREATE", "TABLE", table, "(">>
              \o Commas([i \in DOMAIN columns |-> ColumnText(columns[i])]) \o <<")">> \o End,
   stmt |-> [BlankStatement EXCEPT !.type = "CREATE", !.table = AsTable(table),
               !.columns = [i \in DOMAIN columns |-> Column(columns[i])],
               !.column_count = Len(columns), !.primary_key_index = KeyIndex(columns)],
   accepted |-> Len(columns) <= MaxColumns]

ShowTables ==
  [tokens |-> <<"SHOW", "TABLES">> \o End,
   stmt |-> [BlankStatement EXCEPT !.type = "SHOW TABLES"],
   accepted |-> TRUE]

SetText(set) == <<set[1], "=", set[2]>>

\* parse_update takes the WHERE for itself and looks for another one, and takes
\* the semicolon for a column unless its array is full (parser.c:428-527).
Update(sets, table, w) ==
  [tokens |-> <<"UPDATE", table, "SET">> \o Commas([i \in DOMAIN sets |-> SetText(sets[i])]) \o Clause(w) \o End,
   stmt |-> Filtered(w, [BlankStatement EXCEPT !.type = "UPDATE", !.table = AsTable(table),
              !.set_columns = [i \in DOMAIN sets |-> AsColumn(sets[i][1])],
              !.set_values = [i \in DOMAIN sets |-> Value(sets[i][2])], !.set_count = Len(sets)]),
   accepted |-> w = <<>> /\ Len(sets) = MaxColumns]

\* parse_drop_table takes TABLE for the table's name (parser.c:793-807).
Drop(table) ==
  [tokens |-> <<"DROP", "TABLE", table>> \o End,
   stmt |-> [BlankStatement EXCEPT !.type = "DROP", !.table = AsTable(table)],
   accepted |-> FALSE]

Written ==
  {Select(columns, table, j, w) : columns \in SelectLists, table \in TableNames, j \in JoinClauses, w \in Filters}
  \cup {Insert(names, table, values) : names \in SkippedLists, table \in TableNames, values \in ValueLists}
  \cup {Delete(table, w) : table \in TableNames, w \in Filters}
  \cup {Create(columns, table) : columns \in ColumnLists, table \in TableNames}
  \cup {ShowTables}
  \cup {Update(sets, table, w) : sets \in SetLists, table \in TableNames, w \in Filters}
  \cup {Drop(table) : table \in TableNames}

\* A SELECT, INSERT, DELETE, CREATE TABLE or SHOW TABLES, written as HELP and
\* the README say, becomes the statement that was meant, whatever came before in
\* its lists, and one whose list is longer than its array does nothing.  The
\* DROP TABLE and the UPDATE they describe never do anything, with one exception:
\* an UPDATE without WHERE that fills its array (parser.c:103-560, 793-807).
WrittenIsParsed ==
  at = "ran" =>
    \A w \in Written : w.tokens = text.tokens =>
      IF w.accepted THEN parse_success /\ stmt = w.stmt ELSE effect = NoEffect

=============================================================================
