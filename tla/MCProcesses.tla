---------------------------- MODULE MCProcesses ----------------------------
(***************************************************************************)
(* Processes on small instances.                                           *)
(***************************************************************************)
EXTENDS Processes, TLC

CONSTANTS p, q, a, b

TwoProcs == {p, q}
TwoNames == {a, b}
Symmetric == Permutations(TwoProcs) \cup Permutations(TwoNames)

=============================================================================
