----------------------------- MODULE MCCalendar -----------------------------
(* The hours on offer in a zone whose clock never changes.                  *)
EXTENDS Calendar

Days == {0, 1}
Periods == {<<12, 14>>, <<4, 8>>}
=============================================================================
