------------------------------ MODULE MCParser ------------------------------
(***************************************************************************)
(* Parser on the statements the README and HELP describe, and on what one  *)
(* slip makes of them: the text cut short, a quote opened, a token lost,   *)
(* added or put in the place of another.                                   *)
(***************************************************************************)
EXTENDS WrittenStatements

\* t has a string before its int column; u has one column, and e none, as a
\* CREATE TABLE that is cut short leaves it; d has two columns of one name, and
\* only the second is an int; x is no table.  The names that are cut are those of
\* t and of its column a, written longer than their arrays.
SmallSchemas ==
  [t |-> <<[name |-> "s", word |-> FALSE], [name |-> "a", word |-> TRUE]>>,
   u |-> <<[name |-> "a", word |-> TRUE]>>,
   e |-> <<>>,
   d |-> <<[name |-> "a", word |-> FALSE], [name |-> "a", word |-> TRUE]>>]
SmallUnqualified == [t \in {"t.a", "t."} |-> IF t = "t.a" THEN "a" ELSE ""]
SmallCutColumns == [c \in {"a_long"} |-> "a"]
SmallCutTables == [t \in {"t_long"} |-> "t"]
SmallNumbers == [n \in {"1", "2"} |-> IF n = "1" THEN 1 ELSE 2]
SmallQuoted == {"'q'"}

SmallTables == {"t", "d", "x", "t_long"}
SmallSelects == {<<"*">>, <<"a">>, <<"s", "a">>, <<"a", "s", "a">>}
SmallJoins == {<<>>, <<"JOIN", "t_long", "t.a", "a_long">>, <<"LEFT", "u", "a", "t.">>}
SmallFilters == {<<>>, <<"a", "=", "1">>, <<"a", ">", "2">>, <<"s", "LIKE", "'q'">>, <<"a_long", "=", "1">>}
SmallSkipped == {<<>>, <<"s", "a">>}
SmallValues == {<<"1">>, <<"'q'", "2">>, <<"1", "2", "1">>}

IntKey == [name |-> "k", type |-> "INT", length |-> <<>>, constraints |-> <<"PRIMARY KEY">>]
ShortString == [name |-> "a_long", type |-> "STRING", length |-> <<"2">>, constraints |-> <<"UNIQUE">>]
LongString == [name |-> "m", type |-> "STRING", length |-> <<>>, constraints |-> <<"NOT NULL">>]
NamedString == [LongString EXCEPT !.constraints = <<"UNIQUE", "PRIMARY KEY", "NOT NULL">>]
SmallColumns ==
  {<<IntKey>>, <<LongString>>, <<ShortString, IntKey>>, <<IntKey, LongString>>,
   <<ShortString, NamedString>>, <<IntKey, ShortString, LongString>>}

SmallSets ==
  {<<<<"a", "2">>>>, <<<<"s", "'q'">>, <<"a_long", "1">>>>, <<<<"a", "2">>, <<"s", "'q'">>, <<"a", "1">>>>}

-----------------------------------------------------------------------------
(* Slips.                                                                  *)

\* The statements slips are made in.
Bases ==
  {Select(<<"s", "a">>, "t", <<>>, <<"a", "=", "1">>).tokens,
   Select(<<"*">>, "t", <<>>, <<"a", ">", "2">>).tokens,
   Select(<<"*">>, "t", <<"LEFT", "u", "a", "a">>, <<"a", "=", "1">>).tokens,
   Insert(<<"s">>, "t", <<"'q'", "2">>).tokens,
   Insert(<<>>, "u", <<"1">>).tokens,
   Insert(<<>>, "e", <<"1">>).tokens,
   Delete("t", <<"a", "=", "1">>).tokens,
   Delete("d", <<"a", "=", "1">>).tokens,
   Create(<<ShortString, IntKey>>, "u").tokens,
   Create(<<LongString>>, "u").tokens,
   ShowTables.tokens,
   Drop("t").tokens}
  \cup {Update(sets, "t", w).tokens : sets \in SmallSets, w \in {<<>>, <<"a", "=", "1">>}}
  \cup {<<"UPDATE", "t", "SET", "a", "=", "2", "WHERE", "WHERE", "a", "=", "1", ";">>}

Words == {"(", ")", ",", ";", "=", "WHERE", "FROM", "SET", "VALUES", "PRIMARY", "a", "1", "'q'"}

Slips(base) ==
  {SubSeq(base, 1, n) : n \in 0 .. Len(base)}
  \cup {RemoveAt(base, i) : i \in DOMAIN base}
  \cup {ReplaceAt(base, i, word) : i \in DOMAIN base, word \in Words}
  \cup {InsertAt(base, i, word) : i \in DOMAIN base, word \in Words}

SmallTexts ==
  [tokens : {w.tokens : w \in Written}, open : {FALSE}]
  \cup [tokens : UNION {Slips(base) : base \in Bases}, open : BOOLEAN]

-----------------------------------------------------------------------------

\* README.md:48 "UPDATE users SET age = 26 WHERE id = 1;": an UPDATE as the
\* README has it is not a parse error.
UpdateIsAccepted ==
  at = "ran" =>
    \A sets \in SmallSets, table \in SmallTables, w \in SmallFilters \ {<<>>} :
      text.tokens = Update(sets, table, w).tokens => ~stmt.has_error

=============================================================================
