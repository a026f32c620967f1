------------------------------- MODULE Settings -------------------------------
(***************************************************************************)
(* The settings of a business: settings.service.ts over the four columns   *)
(* of settings.schema.ts.                                                  *)
(*                                                                         *)
(* An update reads every section, merges its patch into one, validates the *)
(* result and writes that column.  A stored column may be absent, old      *)
(* (a field is missing) or no longer valid; a read fills in the defaults.  *)
(***************************************************************************)
EXTENDS Naturals, Tables

CONSTANTS
  Requests,   \* updates that can run at the same time
  Sections,   \* branding, social, openingHours, booking
  Fields,     \* the fields of a section
  Good, Bad,  \* values a field accepts, and one it does not
  Default,    \* what a missing field is read as
  Missing     \* a field that is not stored

VARIABLES
  stored,  \* the columns of business_settings
  req      \* the updates in flight

vars == <<stored, req>>

Column == [Fields -> Good \cup {Bad, Missing}]

\* What the parameters must be.
Assumptions ==
  /\ Default \in Good /\ {Bad, Missing} \cap Good = {} /\ Bad # Missing
  /\ None \notin Column \cup Sections

Idle == [section |-> None, value |-> None, field |-> None, behind |-> FALSE]
IsIdle(r) == req[r] = Idle
Valid(v) == \A f \in Fields : v[f] # Bad

\* parseSettings: a section that is absent or not valid reads as its defaults,
\* a missing field as its own.
Parse(column) ==
  [f \in Fields |->
     IF column = None \/ ~ Valid(column) \/ column[f] = Missing
       THEN Default ELSE column[f]]

\* getSchedulingContext: what bookings, reminders and the public page go by.
getSchedulingContext(columns) == [s \in Sections |-> Parse(columns[s])]

\* What a patch may say of a field: a value, accepted by the schema of the
\* section or not, or nothing.
PatchValues == Good \cup {Bad, Missing}

\* An old section may be incomplete or invalid.
Init ==
  /\ stored \in [Sections -> {None} \cup Column]
  /\ req = [r \in Requests |-> Idle]

\* What update makes of a section and a patch of one field: openingHours, whose
\* patch is the whole week, is a section of one field.
Merge(current, f, v) == [current EXCEPT ![f] = v]

\* update up to its validation: a result that is not valid is refused.  An
\* empty text takes a social network away.
ReadForUpdate(r) ==
  /\ IsIdle(r)
  /\ \E s \in Sections, f \in Fields, v \in PatchValues :
       LET merged == Merge(Parse(stored[s]), f, v) IN
       /\ Valid(merged)
       /\ req' = [req EXCEPT ![r] =
            [section |-> s, value |-> merged, field |-> f, behind |-> FALSE]]
  /\ UNCHANGED stored

\* Mutant of Upsert: the whole row is written as it was read.
UpsertAll(r) ==
  /\ ~ IsIdle(r)
  /\ stored' = [s \in Sections |->
       IF s = req[r].section THEN req[r].value ELSE Parse(None)]
  /\ req' = [req EXCEPT ![r] = Idle]

\* The upsert of one column; other updates of the section are now behind.
Upsert(r) ==
  /\ ~ IsIdle(r)
  /\ stored' = [stored EXCEPT ![req[r].section] = req[r].value]
  /\ req' = [t \in Requests |->
       IF t = r THEN Idle
       ELSE IF req[t].section = req[r].section
         THEN [req[t] EXCEPT !.behind = TRUE] ELSE req[t]]

Next == \E r \in Requests : ReadForUpdate(r) \/ Upsert(r)

Spec == Init /\ [][Next]_vars
-----------------------------------------------------------------------------
(* Properties.                                                             *)

Update == [section : Sections, value : Column, field : Fields, behind : BOOLEAN]

\* Columns and updates have their shape, and what is about to be written is
\* valid.
TypeOK ==
  /\ stored \in [Sections -> {None} \cup Column]
  /\ req \in [Requests -> {Idle} \cup Update]
  /\ \A r \in Requests : ~ IsIdle(r) => Valid(req[r].value)

\* An update changes nothing of what is read but the field it was about,
\* unless another update of the same section was written since it read.
FieldsKept ==
  [][\A r \in Requests, s \in Sections, f \in Fields :
       ~ IsIdle(r) /\ req'[r] = Idle /\ <<s, f>> # <<req[r].section, req[r].field>> =>
         \/ s = req[r].section /\ req[r].behind
         \/ getSchedulingContext(stored')[s][f] = getSchedulingContext(stored)[s][f]]_vars
=============================================================================
