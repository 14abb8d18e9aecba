----------------------------- MODULE PageStore -----------------------------
(***************************************************************************)
(* What the storage manager promises its callers, with no cache in sight:  *)
(* numbered pages that keep what was last written to them, across any      *)
(* number of clean closes and reopens, until a process dies without        *)
(* closing.  A caller fetches a page and then writes it; nothing else      *)
(* changes what a page holds.                                              *)
(***************************************************************************)
EXTENDS Naturals

CONSTANTS
  PageIds,   \* the page numbers
  Content,   \* what a page can hold
  Zero,      \* a page of zero bytes
  NoPage     \* not a page number

VARIABLES
  content,   \* the bytes of each page
  count,     \* number of pages, 0 before the file exists
  open,      \* a process has the store open
  fetched,   \* the page that was fetched last, or NoPage
  died       \* some process ended without closing the store

vars == <<content, count, open, fetched, died>>

TypeOK ==
  /\ content \in [PageIds -> Content]
  /\ count \in Nat
  /\ open \in BOOLEAN
  /\ fetched \in PageIds \cup {NoPage}
  /\ died \in BOOLEAN

Init ==
  /\ content = [p \in PageIds |-> Zero]
  /\ count = 0
  /\ open = FALSE
  /\ fetched = NoPage
  /\ died = FALSE

\* A new store starts with page 0; an old one comes back as it was closed.
Open ==
  /\ ~open
  /\ open' = TRUE
  /\ count' = IF count = 0 THEN 1 ELSE count
  /\ UNCHANGED <<content, fetched, died>>

\* A page that was never written reads as zeros.
Allocate ==
  /\ open
  /\ count \in PageIds
  /\ content[count] = Zero
  /\ count' = count + 1
  /\ UNCHANGED <<content, open, fetched, died>>

Fetch(p) ==
  /\ open
  /\ p < count
  /\ fetched' = p
  /\ UNCHANGED <<content, count, open, died>>

\* There is no such page to be had.
FetchFails ==
  /\ open
  /\ fetched' = NoPage
  /\ UNCHANGED <<content, count, open, died>>

Write(p) ==
  /\ open
  /\ p = fetched
  /\ \E c \in Content : content' = [content EXCEPT ![p] = c]
  /\ UNCHANGED <<count, open, fetched, died>>

\* The caller gives up its page, and the store is closed some time later.
Close ==
  /\ open
  /\ open' = FALSE
  /\ fetched' = NoPage
  /\ UNCHANGED <<content, count, died>>

\* The process dies; nothing is promised from here on.
Die == died' = TRUE

Next ==
  \/ Die
  \/ Open
  \/ Allocate
  \/ \E p \in PageIds : Fetch(p) \/ Write(p)
  \/ FetchFails
  \/ Close

Spec == Init /\ [][Next]_vars

=============================================================================
