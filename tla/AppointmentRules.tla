-------------------------- MODULE AppointmentRules --------------------------
(***************************************************************************)
(* What every module that touches the appointments table shares: the       *)
(* statuses and their allowed changes (appointments/status.ts) and the     *)
(* exclusion constraint the database puts on the table (the initial        *)
(* migration).  A row is any record with fields prof, start, end, status.  *)
(***************************************************************************)
EXTENDS Integers

Statuses ==
  {"PENDING", "CONFIRMED", "IN_PROGRESS", "COMPLETED", "CANCELLED", "NO_SHOW"}

\* The statuses the availability engine counts as busy.
ActiveStatuses == {"PENDING", "CONFIRMED", "IN_PROGRESS", "COMPLETED"}

\* The statuses from which no change is allowed.
Terminal == {"COMPLETED", "CANCELLED", "NO_SHOW"}

\* Mutant of Upcoming: an appointment in progress is no commitment.
UpcomingNotStarted == {"PENDING", "CONFIRMED"}

\* The statuses professionals.remove counts as a pending commitment.
Upcoming == {"PENDING", "CONFIRMED", "IN_PROGRESS"}

TRANSITIONS ==
  [s \in Statuses |->
     CASE s = "PENDING"     -> {"CONFIRMED", "IN_PROGRESS", "COMPLETED",
                                "CANCELLED", "NO_SHOW"}
       [] s = "CONFIRMED"   -> {"IN_PROGRESS", "COMPLETED", "CANCELLED",
                                "NO_SHOW"}
       [] s = "IN_PROGRESS" -> {"COMPLETED", "CANCELLED"}
       [] OTHER             -> {}]

CanTransition(from, to) == to \in TRANSITIONS[from]

\* The WHERE clause of the exclusion constraint.
HoldsSlot(status) == status \notin {"CANCELLED", "NO_SHOW"}

\* Half-open intervals [s1, e1) and [s2, e2) with a common point.
Intersect(s1, e1, s2, e2) == s1 < e2 /\ s2 < e1

\* Two rows the constraint appointments_no_overlap forbids to coexist.
Clash(x, y) ==
  /\ x.prof = y.prof
  /\ HoldsSlot(x.status) /\ HoldsSlot(y.status)
  /\ Intersect(x.start, x.end, y.start, y.end)
=============================================================================
