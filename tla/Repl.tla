-------------------------------- MODULE Repl --------------------------------
(***************************************************************************)
(* The REPL (run_repl in repl.c, built without readline): lines become     *)
(* statements, statements are executed, and the database is closed when    *)
(* the loop ends.  And the tokenizer of parser.c, which has to agree with  *)
(* is_command_complete about where a statement ends.                       *)
(*                                                                         *)
(* A text is a sequence of characters; of the letters, Q stands for the    *)
(* word QUIT (or EXIT).                                                    *)
(***************************************************************************)
EXTENDS Integers, Sequences, SequencesExt

CONSTANTS
  Characters,  \* what a text consists of
  Lines,       \* what may be typed on a line, as sequences of characters
  Buffer,      \* sizeof buffer in simple_readline: 2048
  MaxLines     \* bound: how many lines are typed

ASSUME ReplAssumption ==
  /\ Lines \subseteq Seq(Characters)
  /\ Buffer \in Nat \ {0, 1}
  /\ MaxLines \in Nat

VARIABLES
  input,      \* stdin: typed, and not read yet
  eof,        \* Ctrl+D, or the end of the piped file
  at,         \* where run_repl is
  statement,  \* full_statement, empty when it is NULL
  executed,   \* the texts executed so far
  saved,      \* how many of them the file holds
  typed       \* everything typed so far

vars == <<input, eof, at, statement, executed, saved, typed>>

NL == "newline"
Space == {" ", NL}
Quote == {"'", "\""}
Special == {",", "(", ")", "=", "*", ">", "<", ";"}

-----------------------------------------------------------------------------
(* The tokenizer.                                                          *)

\* The first position from p on whose character is not one of S.
SkipWhile(x, p, S) ==
  Min({i \in p .. Len(x) : x[i] \notin S} \cup {Len(x) + 1})

\* Where the literal that opens at p is closed; past the end when it is not.
\* A backslash hides the character behind it.
ClosingQuote(x, p) ==
  LET close[i \in p + 1 .. Len(x) + 2] ==
        IF i > Len(x) \/ x[i] = x[p] THEN i
        ELSE IF x[i] = "\\" /\ i < Len(x) THEN close[i + 2] ELSE close[i + 1]
  IN close[p + 1]

\* What starts at p, which is no space: the position behind it.
TokenEnd(x, p) ==
  CASE x[p] \in Quote -> ClosingQuote(x, p) + 1
    [] x[p] \in Special ->
         IF x[p] \in {"<", ">"} /\ p < Len(x) /\ x[p + 1] = "=" THEN p + 2 ELSE p + 1
    [] OTHER -> SkipWhile(x, p, ToSet(x) \ (Space \cup Special))

\* tokenizer_next until it returns NULL, at the end or at an open quote.
Tokens(x) ==
  LET from[p \in 1 .. Len(x) + 1] ==
        LET start == SkipWhile(x, p, Space)
            end == TokenEnd(x, start)
        IN IF start > Len(x) \/ end > Len(x) + 1 THEN <<>>
           ELSE <<SubSeq(x, start, end - 1)>> \o from[end]
  IN from[1]

\* The tokens are the whole text, or end where a quote is left open.
QuoteOpen(x) ==
  LET open[p \in 1 .. Len(x) + 1] ==
        LET start == SkipWhile(x, p, Space)
            end == TokenEnd(x, start)
        IN start <= Len(x) /\ (end > Len(x) + 1 \/ open[end])
  IN open[1]

-----------------------------------------------------------------------------

Init ==
  /\ input = <<>> /\ eof = FALSE
  /\ at = "prompt"
  /\ statement = <<>> /\ executed = <<>> /\ saved = 0
  /\ typed = <<>>

Newlines == Len(SelectSeq(typed, LAMBDA c : c = NL))

\* Somebody types a line; the last one of a file may end without a newline.
Type(line, ending) ==
  /\ at = "prompt" /\ input = <<>> /\ ~eof
  /\ Newlines < MaxLines
  /\ input' = line \o ending
  /\ typed' = typed \o input'
  /\ eof' = (ending = <<>>)
  /\ UNCHANGED <<at, statement, executed, saved>>

\* Mistaken: a semicolon anywhere completes a statement.
CompleteAnywhere(x) == x # <<>> /\ (x[1] = "." \/ ";" \in ToSet(x))

\* is_command_complete: a dot command, or a semicolon and spaces behind it.
Complete(x) ==
  /\ x # <<>>
  /\ \/ x[1] = "."
     \/ \E n \in DOMAIN x : x[n] = ";" /\ \A i \in n + 1 .. Len(x) : x[i] \in Space

\* What fgets returns: a line with its newline, or as much as the buffer holds.
Chunk ==
  SubSeq(input, 1, Min({SkipWhile(input, 1, ToSet(input) \ {NL}), Len(input), Buffer - 1}))

WithoutNewline(x) == IF x # <<>> /\ x[Len(x)] = NL THEN Front(x) ELSE x

\* Mistaken: the space is forgotten.
JoinedTight(line) == statement \o line

\* A line is joined to the statement with a space; an empty one is skipped
\* where no statement has begun.
Joined(line) == IF statement = <<>> THEN line ELSE statement \o <<" ">> \o line

ReadLine ==
  /\ at = "prompt"
  /\ input # <<>>
  /\ LET chunk == Chunk
         whole == Joined(WithoutNewline(chunk))
     IN /\ input' = SubSeq(input, Len(chunk) + 1, Len(input))
        /\ statement' = whole
        /\ at' = IF Complete(whole) THEN "complete" ELSE "prompt"
  /\ UNCHANGED <<eof, executed, saved, typed>>

\* Mistaken: a statement that was begun is waited for.
EndOfInputWaiting ==
  /\ at = "prompt" /\ statement = <<>>
  /\ input = <<>> /\ eof
  /\ at' = "closing"
  /\ UNCHANGED <<input, eof, statement, executed, saved, typed>>

\* End of file: what was typed of a statement is dropped.
EndOfInput ==
  /\ at = "prompt"
  /\ input = <<>> /\ eof
  /\ at' = "closing"
  /\ UNCHANGED <<input, eof, statement, executed, saved, typed>>

Quit ==
  /\ at = "complete"
  /\ statement = <<"Q", ";">>
  /\ at' = "closing"
  /\ UNCHANGED <<input, eof, statement, executed, saved, typed>>

\* Mistaken: the statement is kept, and the next one joined to it.
HandleKeeping ==
  /\ at = "complete"
  /\ statement # <<"Q", ";">>
  /\ executed' = Append(executed, statement)
  /\ at' = "prompt"
  /\ UNCHANGED <<input, eof, saved, typed, statement>>

\* Dot commands and statements.
Handle ==
  /\ at = "complete"
  /\ statement # <<"Q", ";">>
  /\ executed' = Append(executed, statement)
  /\ statement' = <<>>
  /\ at' = "prompt"
  /\ UNCHANGED <<input, eof, saved, typed>>

\* sm_close behind the loop.
Close ==
  /\ at = "closing"
  /\ at' = "closed"
  /\ statement' = <<>>
  /\ saved' = Len(executed)
  /\ UNCHANGED <<input, eof, executed, typed>>

\* Ctrl+C: the REPL has no handler.
Interrupted ==
  /\ at \notin {"closed", "killed"}
  /\ at' = "killed"
  /\ UNCHANGED <<input, eof, statement, executed, saved, typed>>

Program == ReadLine \/ EndOfInput \/ Quit \/ Handle \/ Close

Next ==
  \/ \E line \in Lines, ending \in {<<NL>>, <<>>} : Type(line, ending)
  \/ Program
  \/ Interrupted

\* The program takes its steps; nobody has to type anything.
Spec == Init /\ [][Next]_vars /\ WF_vars(Program)

-----------------------------------------------------------------------------

Reading == at \in {"prompt", "complete", "closing"} /\ input = <<>>

\* All that was read, in the order it was executed or waits in.
Read == Append(executed, statement)

\* The characters of a text that are no spaces.
Unspaced(x) == FlattenSeq([i \in DOMAIN x |-> IF x[i] \in Space THEN <<>> ELSE <<x[i]>>])

\* Every character typed is in a statement, once and in its place, however
\* the lines are cut and joined (repl.c:288-299).
NothingLost == Reading => Unspaced(FlattenSeq(Read)) = Unspaced(typed)

\* Every line is read whole, with its newline.
LinesFit == \A i \in 1 .. Len(typed) - Buffer + 2 : NL \in ToSet(SubSeq(typed, i, i + Buffer - 2))

\* As long as lines fit the buffer and no quote is open where a statement is
\* taken to end, the parser gets the words that were typed: joining lines
\* neither glues two of them nor cuts one, and no statement begins or ends
\* inside a word.
WordsAsTyped ==
  Reading /\ LinesFit /\ (\A i \in DOMAIN executed : ~QuoteOpen(executed[i])) =>
    FlattenSeq([i \in DOMAIN Read |-> Tokens(Read[i])])
      = Tokens([i \in DOMAIN typed |-> IF typed[i] = NL THEN " " ELSE typed[i]])

\* is_command_complete (repl.c:66) and the tokenizer agree: the text of a
\* statement ends with a semicolon the parser sees as one, or a quote is open.
EndsWithSemicolon ==
  \A i \in DOMAIN executed :
    LET x == executed[i] IN
      x[1] = "." \/ QuoteOpen(x) \/ Tokens(x)[Len(Tokens(x))] = <<";">>

\* The end of the input ends the REPL, whatever was typed before it, and what
\* it executed is saved.
EofEnds == eof ~> (at = "closed" /\ saved = Len(executed)) \/ at = "killed"

=============================================================================
