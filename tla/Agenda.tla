------------------------------- MODULE Agenda -------------------------------
(***************************************************************************)
(* What the booking system promises of its diary, with no requests, rows   *)
(* or transactions: each appointment holds at most one slot of one         *)
(* professional; slots are taken, given back and exchanged one appointment *)
(* at a time, and never over a slot another appointment holds.             *)
(***************************************************************************)
EXTENDS AppointmentRules

CONSTANTS
  Appts,          \* appointment identifiers
  Professionals,  \* who can be booked
  Free            \* the value of an appointment that holds no slot

VARIABLE slot

Slots == [prof : Professionals, start : Nat, end : Nat]

\* Slot s does not touch what appointments other than a hold.
Open(a, s) ==
  \A b \in Appts \ {a} :
    slot[b] # Free =>
      ~ (/\ slot[b].prof = s.prof
         /\ Intersect(slot[b].start, slot[b].end, s.start, s.end))

Init == slot = [a \in Appts |-> Free]

\* Appointment a gets a slot, its first or another one.
Take(a) ==
  /\ slot'[a] \in Slots
  /\ Open(a, slot'[a])
  /\ slot' = [slot EXCEPT ![a] = slot'[a]]

Release(a) ==
  /\ slot[a] # Free
  /\ slot' = [slot EXCEPT ![a] = Free]

Next == \E a \in Appts : Take(a) \/ Release(a)

Spec == Init /\ [][Next]_slot

=============================================================================
