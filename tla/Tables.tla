------------------------------- MODULE Tables -------------------------------
(***************************************************************************)
(* What the tables of every component share.  A table is a function of the *)
(* ids its rows can have; None is the value of an id that is not in use.   *)
(***************************************************************************)
CONSTANT None

\* The id the next row gets, if one is left: it is new, and which of the new
\* ones it is makes no difference.
NewId(table) ==
  LET free == {x \in DOMAIN table : table[x] = None}
  IN IF free = {} THEN {} ELSE {CHOOSE x \in free : TRUE}

=============================================================================
