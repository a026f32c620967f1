----------------------------- MODULE MCBooking ------------------------------
(***************************************************************************)
(* Instances of Booking for TLC.  Sets of model values come from the .cfg; *)
(* what a .cfg cannot write is defined here.                               *)
(***************************************************************************)
EXTENDS Booking, TLC

\* Professionals with the same sortOrder: the tie is broken by name.
MCSortOrder == [p \in Professionals |-> 0]

MCBlockPeriods == {<<1, 2>>}

\* Requests and appointment ids are interchangeable in safety runs.
Symmetry == Permutations(Requests) \cup Permutations(Appts)
=============================================================================
