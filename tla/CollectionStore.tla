--------------------------- MODULE CollectionStore ---------------------------
(***************************************************************************)
(* What the main window promises to those who work on scene collections:   *)
(* a collection changes only while it is open, and it is found again as it *)
(* was left: neither opening another one nor leaving the program changes   *)
(* what any of them holds, saved or not.                                   *)
(***************************************************************************)
VARIABLES
  open,       \* the collections that are open: one or none
  contents,   \* what each collection holds, as it would be seen when open
  safe        \* nobody takes the files away

vars == <<open, contents>>

Init == open = {}

Edit ==
  /\ UNCHANGED open
  /\ DOMAIN contents' = DOMAIN contents
  /\ \A c \in DOMAIN contents \ open : contents'[c] = contents[c]

OpenOrClose == UNCHANGED contents

(* Without its files nothing is promised.                                  *)
Disturb == ~safe

Spec == Init /\ [][Edit \/ OpenOrClose \/ Disturb]_vars
=============================================================================
