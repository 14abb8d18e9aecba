------------------------------ MODULE MCTables ------------------------------
(***************************************************************************)
(* Tables on small instances.                                              *)
(***************************************************************************)
EXTENDS Tables, TLC

CONSTANTS a, b, c, garbled

OneName == {a}
ThreeNames == {a, b, c}
Symmetric == Permutations(Names)

\* With one INT column the last row slot of a page ends on the third byte of
\* the link, so its value v spells the link v \div 256: the schema page (the
\* values 256 .. 511), the root page itself, a page far beyond the end of the
\* file, and no link for the small values.
SmallLinkOf == [v \in Values |-> IF v = 1 THEN 1 ELSE IF v = 2 THEN 2 ELSE IF v = 3 THEN 99 ELSE 0]

\* Once a scan has written over a schema no promise about the catalog is left,
\* so such a state is checked and not followed.
NothingDamaged == ~damaged

-----------------------------------------------------------------------------
(* What the README says of the statements.                                 *)

\* README.md:141-142: a SELECT after an INSERT finds the row.
SelectFindsRows == (scan.kind = "select" /\ NoMorePages) => scan.hits = scan.alive

=============================================================================
