------------------------------- MODULE MCRepl -------------------------------
(***************************************************************************)
(* Repl on lines that, two or three of them together, are statements with  *)
(* operators, literals and escapes, cut and quoted in awkward places.      *)
(***************************************************************************)
EXTENDS Repl

SmallCharacters == {"a", "Q", " ", ";", ".", "'", "\"", "\\", "<", "="}

\* With a buffer of six characters the last four lines do not fit.
SmallLines ==
  {<<>>} \cup {<<c>> : c \in SmallCharacters \ {"\""}}
  \cup {<<"Q", ";">>, <<" ", "Q", ";">>, <<"Q", ";", " ">>,
        <<"a", ";">>, <<"a", " ", ";">>, <<"a", ";", "a">>, <<"a", "'">>,
        <<"<", "=">>, <<"<", " ", "=">>, <<"=", "<", ";">>,
        <<"'", "\\", "'", ";">>, <<"'", ";", "'">>, <<"'", "a", "'", ";">>,
        <<"\"", "'", "\"", ";">>, <<".", "a">>, <<"a", " ", "a", ";", "a">>,
        <<"'", "a", " ", "a", "a">>, <<"a", "a", "a", "<", "=", ";">>,
        <<"a", "a", "Q", ";", "Q", ";">>}

=============================================================================
