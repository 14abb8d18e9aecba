----------------------------- MODULE MCStorage ------------------------------
(***************************************************************************)
(* Storage on small instances.                                             *)
(***************************************************************************)
EXTENDS Storage, FiniteSets, TLC

CONSTANTS f1, f2, f3, f4

OneContent == {"zero"}
OneClearLast == [c \in OneContent |-> c]

ThreeFrames == {f1, f2, f3}
FourFrames == {f1, f2, f3, f4}
Symmetric == Permutations(Frames)

\* A page of zeros, a page whose last byte is zero and one whose is not.
SmallContent == {"zero", "text", "text+last"}
SmallClearLast == [c \in SmallContent |-> IF c = "text+last" THEN "text" ELSE c]

\* Model bound: the data need not be followed once a process died, for nothing
\* is promised of it.
NobodyDied == ~crashed

=============================================================================
