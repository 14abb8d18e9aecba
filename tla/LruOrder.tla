------------------------------ MODULE LruOrder ------------------------------
(***************************************************************************)
(* What "LRU" means: the pages in use, most recently used first.  Using a  *)
(* page moves it to the front, whether or not it was there; only the last  *)
(* one may be dropped; the end of the process empties the list.            *)
(***************************************************************************)
EXTENDS Sequences, SequencesExt

CONSTANTS
  Frames,   \* the pages
  NULL      \* no page

VARIABLES
  order,    \* the pages in use, a sequence without repetitions
  recent    \* the page used last, NULL if that failed

vars == <<order, recent>>

Init == order = <<>> /\ recent = NULL

Use(f) ==
  /\ recent' = f
  /\ \/ f \notin ToSet(order) /\ order' = <<f>> \o order
     \/ \E k \in DOMAIN order : order[k] = f /\ order' = <<f>> \o RemoveAt(order, k)

\* A page that is not to be had; the last page may have been dropped for it.
Fail ==
  /\ recent' = NULL
  /\ order' = order \/ (order # <<>> /\ order' = Front(order))

\* A page brought in takes the place of the last one.
Replace(f) ==
  /\ recent' = f
  /\ order # <<>>
  /\ f \notin ToSet(Front(order))
  /\ order' = <<f>> \o Front(order)

Stop == recent' = NULL /\ order' = <<>>

Next ==
  \/ \E f \in Frames : Use(f) \/ Replace(f)
  \/ Fail
  \/ Stop

Spec == Init /\ [][Next]_vars

=============================================================================
