------------------------------ MODULE Booking -------------------------------
(***************************************************************************)
(* The diary of one business: appointments.service.ts with what it calls   *)
(* in availability.service.ts, and the handlers of professionals, time off *)
(* and services that change what a booking depends on.                     *)
(*                                                                         *)
(* A request r is an HTTP handler in flight.  PostgreSQL runs at READ      *)
(* COMMITTED, so a handler is a sequence of steps: each reads the database *)
(* of that moment, and the last one writes.  Other requests commit between *)
(* them.  req[r].step names what r does next:                              *)
(*   context - read the service and the professional (loadContext)         *)
(*   resolve - read the busy intervals and check the hour (resolveSlot)    *)
(*   commit  - the writing statement and the COMMIT                        *)
(*   count   - timeOff.create, after its insert                            *)
(* A request the code refuses goes back to Idle and writes nothing.        *)
(*                                                                         *)
(* Time is counted in steps of the grid within one local day; hours on     *)
(* and off the grid, time zones and several ranges per day belong to the   *)
(* engine, which sees one day at a time too.                               *)
(***************************************************************************)
EXTENDS AppointmentRules, FiniteSets

CONSTANTS
  Requests,        \* handlers that can run at the same time
  Appts,           \* appointment identifiers
  Professionals, Services,
  SortOrder,       \* professional.sortOrder
  StartTimes,      \* startsAt values a client may send
  Durations,       \* durationMinutes values a service may have
  BlockPeriods,    \* <<startsAt, endsAt>> values a time off may have
  Grid,            \* the start times the slot list offers
  Opening, Closing,\* the day's range, business and professional together
  Buffer,          \* booking.bufferMinutes
  MinAdvance,      \* booking.minAdvanceMinutes
  CancelWindow,    \* booking.cancellationWindowHours
  AutoConfirm,     \* booking.autoConfirm
  PaymentRequired, \* booking.paymentMode = REQUIRED
  Endpoints,       \* the handlers clients use
  MaxNow,          \* bound on the clock
  None, NoAppt     \* null, and a row that does not exist

ASSUME TimesAssumption ==
  /\ StartTimes \subseteq Nat /\ Durations \subseteq Nat \ {0}
  /\ BlockPeriods \subseteq Nat \X Nat
  /\ Grid \subseteq StartTimes
  /\ {Opening, Closing, Buffer, MinAdvance, CancelWindow, MaxNow} \subseteq Nat
ASSUME NoneAssumption == None \notin Appts
ASSUME SwitchAssumption == AutoConfirm \in BOOLEAN /\ PaymentRequired \in BOOLEAN

VARIABLES
  appts,     \* the appointments table
  staff,     \* isActive and deletedAt of each professional
  offers,    \* professional_services
  services,  \* duration, isActive and deletedAt of each service
  blocks,    \* the time_off table; prof = None closes the business
  now,
  req,       \* the requests in flight
  forced,    \* history: rows whose slot was last set with allowOutsideHours
  warned     \* history: <<block, appointment>> pairs a reply has counted

vars == <<appts, staff, offers, services, blocks, now, req, forced, warned>>
catalog == <<staff, offers, services>>
history == <<forced, warned>>

Row == [prof : Professionals, svc : Services, start : Nat, end : Nat,
        dur : Nat \ {0}, status : Statuses]
Block == [prof : Professionals \cup {None}, start : Nat, end : Nat]
State == {"active", "paused", "deleted"}

ASSUME NoApptAssumption ==
  NoAppt \notin Row \cup [prof : Professionals, start : Nat, end : Nat]

Idle == [op |-> "none", step |-> "idle", appt |-> None, prof |-> None,
         cands |-> {}, svc |-> None, start |-> 0, len |-> 0, keep |-> 0,
         to |-> None, mode |-> "strict"]

Booked == {a \in Appts : appts[a] # NoAppt}
IsIdle(r) == req[r] = Idle
Creating(r) == req[r].op \in {"createPublic", "createManual"}

Init ==
  /\ appts = [a \in Appts |-> NoAppt]
  /\ staff = [p \in Professionals |-> "active"]
  /\ offers = [p \in Professionals |-> Services]
  /\ services \in [Services -> [dur : Durations, state : {"active"}]]
  /\ blocks = {} /\ now = 0
  /\ req = [r \in Requests |-> Idle]
  /\ forced = {} /\ warned = {}

-----------------------------------------------------------------------------
(* Availability: what the handlers ask of the tables.                      *)

Offering(s) == {p \in Professionals : staff[p] = "active" /\ s \in offers[p]}

\* Mutant of Taken: closures of the whole business are forgotten.
TakenWithoutClosures(p, exclude) ==
  {<<appts[a].start, appts[a].end>> :
     a \in {b \in Booked \ {exclude} :
              appts[b].prof = p /\ appts[b].status \in ActiveStatuses}}
  \cup {<<b.start, b.end>> : b \in {c \in blocks : c.prof = p}}

\* What a professional's day has taken: active rows and blocks.
Taken(p, exclude) ==
  {<<appts[a].start, appts[a].end>> :
     a \in {b \in Booked \ {exclude} :
              appts[b].prof = p /\ appts[b].status \in ActiveStatuses}}
  \cup {<<b.start, b.end>> : b \in {c \in blocks : c.prof \in {p, None}}}

\* Mutant of Bookable: the buffer only follows what is taken.
BookableAfterOnly(p, start, len, web, exclude) ==
  /\ start >= now + (IF web THEN MinAdvance ELSE 0)
  /\ start >= Opening /\ start + len <= Closing
  /\ web => start \in Grid
  /\ \A i \in Taken(p, exclude) :
       ~ Intersect(start, start + len, i[1], i[2] + Buffer)

\* checkSlot: advance, opening hours, grid, and busy intervals with buffer.
Bookable(p, start, len, web, exclude) ==
  /\ start >= now + (IF web THEN MinAdvance ELSE 0)
  /\ start >= Opening /\ start + len <= Closing
  /\ web => start \in Grid
  /\ \A i \in Taken(p, exclude) :
       ~ Intersect(start, start + len, i[1] - Buffer, i[2] + Buffer)

Load(p) ==
  Cardinality({a \in Booked : /\ appts[a].prof = p
                              /\ appts[a].status \in ActiveStatuses})

\* Of the professionals free at that hour, the least loaded, then by order.
LeastLoaded(free) ==
  {p \in free : \A q \in free :
     \/ Load(p) < Load(q)
     \/ Load(p) = Load(q) /\ SortOrder[p] <= SortOrder[q]}

\* Mutant of Admits: a unique index on the start instead of the constraint.
AdmitsUniqueStart(a, row) ==
  \A b \in Booked \ {a} :
    ~ (Clash(row, appts[b]) /\ row.start = appts[b].start)

\* The exclusion constraint lets row a have this value.
Admits(a, row) == \A b \in Booked \ {a} : ~ Clash(row, appts[b])

-----------------------------------------------------------------------------
(* Creating: createPublic and createManual.                                *)

\* Bound: as many creations in flight as identifiers are left.
RoomForAnother ==
  Cardinality(Booked) + Cardinality({r \in Requests : Creating(r)})
    < Cardinality(Appts)

Advance(r, fields) == req' = [req EXCEPT ![r] = fields]
Reply(r) == req' = [req EXCEPT ![r] = Idle]

\* With a mandatory payment the appointment is confirmed by paying.
WebStatus ==
  IF AutoConfirm /\ ~PaymentRequired THEN "CONFIRMED" ELSE "PENDING"

PublicRequest(s, t, cands) ==
  [Idle EXCEPT !.op = "createPublic", !.step = "resolve", !.cands = cands,
     !.svc = s, !.start = t, !.len = services[s].dur, !.to = WebStatus]

\* A web client sends a service, an hour, and a professional or none.
\* First read: loadContext, outside the transaction's connection.
BeginCreatePublic(r) ==
  /\ "createPublic" \in Endpoints /\ IsIdle(r) /\ RoomForAnother
  /\ \E s \in Services, t \in StartTimes,
        wanted \in {Professionals} \cup {{p} : p \in Professionals} :
       /\ services[s].state = "active"
       /\ Offering(s) \cap wanted # {}
       /\ Advance(r, PublicRequest(s, t, Offering(s) \cap wanted))
  /\ UNCHANGED <<appts, catalog, blocks, now, history>>

\* The panel's two ways to accept a service: paused ones are allowed.
StaffAccepts(s, p) == services[s].state # "deleted" /\ p \in Offering(s)

\* A member of staff books; allowOutsideHours (mode force) skips resolveSlot.
Modes == {"strict", "force"}
AfterContext(mode) == IF mode = "force" THEN "commit" ELSE "resolve"

ManualRequest(s, p, t, st, mode) ==
  [Idle EXCEPT !.op = "createManual", !.step = AfterContext(mode),
     !.prof = p, !.cands = {p}, !.svc = s, !.start = t,
     !.len = services[s].dur, !.to = st, !.mode = mode]

BeginCreateManual(r) ==
  /\ "createManual" \in Endpoints /\ IsIdle(r) /\ RoomForAnother
  /\ \E s \in Services, p \in Professionals, t \in StartTimes,
        st \in {"PENDING", "CONFIRMED"}, mode \in Modes :
       /\ StaffAccepts(s, p)
       /\ Advance(r, ManualRequest(s, p, t, st, mode))
  /\ UNCHANGED <<appts, catalog, blocks, now, history>>

\* resolveSlot's second read: who is free at that hour, if anyone.
Resolve(r) ==
  LET q == req[r]
      free == {p \in q.cands :
                 Bookable(p, q.start, q.len, q.op = "createPublic", q.appt)}
  IN /\ q.step = "resolve"
     /\ \/ \E p \in LeastLoaded(free) :
             Advance(r, [q EXCEPT !.step = "commit", !.prof = p, !.cands = {}])
        \/ free = {} /\ Reply(r)
     /\ UNCHANGED <<appts, catalog, blocks, now, history>>

\* appointment.create and COMMIT, or the 409 of withOverlapGuard.
CommitCreate(r) ==
  LET q == req[r]
      row == [prof |-> q.prof, svc |-> q.svc, start |-> q.start,
              end |-> q.start + q.len, dur |-> q.len, status |-> q.to]
  IN /\ Creating(r) /\ q.step = "commit"
     /\ \E a \in Appts \ Booked :
          \/ /\ Admits(a, row)
             /\ appts' = [appts EXCEPT ![a] = row]
             /\ forced' = IF q.mode = "force" THEN forced \cup {a} ELSE forced
          \/ ~ Admits(a, row) /\ UNCHANGED <<appts, forced>>
     /\ Reply(r)
     /\ UNCHANGED <<catalog, blocks, now, warned>>

-----------------------------------------------------------------------------
(* Moving: update.                                                         *)

\* keep is the duration snapshot when the service stays, 0 when it changes.
MoveRequest(a, s, p, t, mode) ==
  [Idle EXCEPT !.op = "update", !.step = "context", !.appt = a, !.prof = p,
     !.svc = s, !.start = t, !.mode = mode,
     !.keep = IF s = appts[a].svc THEN appts[a].dur ELSE 0]

\* Read the row outside the transaction; a terminal row does not move.
ReadForUpdate(r) ==
  /\ "update" \in Endpoints /\ IsIdle(r)
  /\ \E a \in Booked, s \in Services, p \in Professionals,
        t \in StartTimes, mode \in Modes :
       /\ <<p, s, t>> # <<appts[a].prof, appts[a].svc, appts[a].start>>
       /\ appts[a].status \notin Terminal
       /\ Advance(r, MoveRequest(a, s, p, t, mode))
  /\ UNCHANGED <<appts, catalog, blocks, now, history>>

\* resolveServiceForStaff: the service as it is now, for the availability
\* check; forced moves go straight to the write.
UpdateContext(r) ==
  LET q == req[r] IN
  /\ q.op = "update" /\ q.step = "context"
  /\ \/ /\ StaffAccepts(q.svc, q.prof)
        /\ Advance(r, [q EXCEPT !.step = AfterContext(q.mode),
                                !.cands = {q.prof},
                                !.len = services[q.svc].dur])
     \/ ~ StaffAccepts(q.svc, q.prof) /\ Reply(r)
  /\ UNCHANGED <<appts, catalog, blocks, now, history>>

\* Mutant of CommitUpdate: a new service leaves the old duration snapshot.
CommitUpdateOldSnapshot(r) ==
  LET q == req[r]
      row == [appts[q.appt] EXCEPT
                !.prof = q.prof, !.svc = q.svc, !.start = q.start,
                !.end = q.start + (IF q.keep = 0 THEN q.len ELSE q.keep)]
  IN /\ q.op = "update" /\ q.step = "commit"
     /\ Admits(q.appt, row)
     /\ appts' = [appts EXCEPT ![q.appt] = row]
     /\ Reply(r)
     /\ UNCHANGED <<catalog, blocks, now, history>>

\* Mutant of CommitUpdate: the end stays where it was.
CommitUpdateOldEnd(r) ==
  LET q == req[r]
      row == [appts[q.appt] EXCEPT
                !.prof = q.prof, !.svc = q.svc, !.start = q.start]
  IN /\ q.op = "update" /\ q.step = "commit"
     /\ appts' = [appts EXCEPT ![q.appt] = row]
     /\ Reply(r)
     /\ UNCHANGED <<catalog, blocks, now, history>>

\* appointment.update where id: no condition on what the row holds by then.
CommitUpdate(r) ==
  LET q == req[r]
      a == q.appt
      dur == IF q.keep = 0 THEN q.len ELSE q.keep
      row == [prof |-> q.prof, svc |-> q.svc, start |-> q.start,
              end |-> q.start + dur,
              dur |-> IF q.keep = 0 THEN dur ELSE appts[a].dur,
              status |-> appts[a].status]
  IN /\ q.op = "update" /\ q.step = "commit"
     /\ \/ /\ Admits(a, row)
           /\ appts' = [appts EXCEPT ![a] = row]
           /\ forced' = IF q.mode = "force" THEN forced \cup {a} ELSE forced \ {a}
        \/ ~ Admits(a, row) /\ UNCHANGED <<appts, forced>>
     /\ Reply(r)
     /\ UNCHANGED <<catalog, blocks, now, warned>>

-----------------------------------------------------------------------------
(* The three writers of the status column.  Each reads the row, decides,   *)
(* and later writes the status by id.                                      *)

DecideStatus(r, a, to) ==
  /\ IsIdle(r)
  /\ Advance(r, [Idle EXCEPT !.op = "status", !.step = "commit",
                   !.appt = a, !.to = to])
  /\ UNCHANGED <<appts, catalog, blocks, now, history>>

\* What the page of the private link offers.
canCancel(a) ==
  appts[a].status \in {"PENDING", "CONFIRMED"} /\ now < appts[a].start - CancelWindow

\* Mutant of ReadForCancel: only the deadline is looked at.
ReadForCancelAnyStatus(r) ==
  /\ "cancelByToken" \in Endpoints
  /\ \E a \in Booked :
       /\ now < appts[a].start - CancelWindow
       /\ DecideStatus(r, a, "CANCELLED")

\* cancelByToken: the customer's private link, before the deadline.
ReadForCancel(r) ==
  /\ "cancelByToken" \in Endpoints
  /\ \E a \in Booked :
       /\ canCancel(a)
       /\ DecideStatus(r, a, "CANCELLED")

\* changeStatus: the panel.
ReadForStatus(r) ==
  /\ "changeStatus" \in Endpoints
  /\ \E a \in Booked, to \in Statuses :
       /\ appts[a].status # to /\ CanTransition(appts[a].status, to)
       /\ DecideStatus(r, a, to)

\* payments.apply with an approved payment: a mandatory payment confirms.
ReadForPayment(r) ==
  /\ "payment" \in Endpoints /\ PaymentRequired
  /\ \E a \in Booked :
       /\ appts[a].status = "PENDING"
       /\ DecideStatus(r, a, "CONFIRMED")

\* Mutant of CommitStatus: the constraint only watches times, not statuses.
CommitStatusUnchecked(r) ==
  LET q == req[r] IN
  /\ q.op = "status" /\ q.step = "commit"
  /\ appts' = [appts EXCEPT ![q.appt].status = q.to]
  /\ Reply(r)
  /\ UNCHANGED <<catalog, blocks, now, history>>

\* appointment.update where id; a row that comes back to life must still fit.
CommitStatus(r) ==
  LET q == req[r]
      row == [appts[q.appt] EXCEPT !.status = q.to]
  IN /\ q.op = "status" /\ q.step = "commit"
     /\ \/ Admits(q.appt, row) /\ appts' = [appts EXCEPT ![q.appt] = row]
        \/ ~ Admits(q.appt, row) /\ UNCHANGED appts
     /\ Reply(r)
     /\ UNCHANGED <<catalog, blocks, now, history>>

-----------------------------------------------------------------------------
(* Professionals and time off.                                             *)

Commitments(p) ==
  {a \in Booked : /\ appts[a].prof = p /\ appts[a].start >= now
                  /\ appts[a].status \in Upcoming}

\* professionals.remove: refuse while there are upcoming appointments.
CountUpcoming(r) ==
  /\ "remove" \in Endpoints /\ IsIdle(r)
  /\ \E p \in Professionals :
       /\ staff[p] # "deleted" /\ Commitments(p) = {}
       /\ Advance(r, [Idle EXCEPT !.op = "remove", !.step = "commit", !.prof = p])
  /\ UNCHANGED <<appts, catalog, blocks, now, history>>

RemoveProfessional(r) ==
  LET p == req[r].prof IN
  /\ req[r].op = "remove" /\ req[r].step = "commit"
  /\ staff' = [staff EXCEPT ![p] = "deleted"]
  /\ offers' = [offers EXCEPT ![p] = {}]
  /\ Reply(r)
  /\ UNCHANGED <<appts, services, blocks, now, history>>

\* timeOff.create: insert, then count the appointments it covers.
InsertBlock(r) ==
  /\ "timeOff" \in Endpoints /\ IsIdle(r)
  /\ \E p \in Professionals \cup {None}, i \in BlockPeriods :
       /\ i[2] > i[1]
       /\ p # None => staff[p] # "deleted"
       /\ blocks' = blocks \cup {[prof |-> p, start |-> i[1], end |-> i[2]]}
       /\ Advance(r, [Idle EXCEPT !.op = "timeOff", !.step = "count",
                        !.prof = p, !.start = i[1], !.len = i[2]])
  /\ UNCHANGED <<appts, catalog, now, history>>

\* An active appointment inside the block.
Covers(b, a) ==
  /\ b.prof \in {appts[a].prof, None}
  /\ appts[a].status \in ActiveStatuses
  /\ Intersect(b.start, b.end, appts[a].start, appts[a].end)

CountConflicts(r) ==
  LET b == [prof |-> req[r].prof, start |-> req[r].start, end |-> req[r].len] IN
  /\ req[r].op = "timeOff" /\ req[r].step = "count"
  /\ warned' = warned \cup {<<b, a>> : a \in {c \in Booked : Covers(b, c)}}
  /\ Reply(r)
  /\ UNCHANGED <<appts, catalog, blocks, now, forced>>

RemoveBlock(r) ==
  /\ "timeOff" \in Endpoints /\ IsIdle(r)
  /\ \E b \in blocks :
       /\ blocks' = blocks \ {b}
       /\ warned' = {w \in warned : w[1] # b}
  /\ UNCHANGED <<appts, catalog, now, req, forced>>

-----------------------------------------------------------------------------
(* The catalogue, each handler one transaction, and the clock.             *)

SetServices(r) ==
  /\ "setServices" \in Endpoints /\ IsIdle(r)
  /\ \E p \in Professionals :
       /\ staff[p] # "deleted"
       /\ \E S \in SUBSET {s \in Services : services[s].state # "deleted"} :
            offers' = [offers EXCEPT ![p] = S]
  /\ UNCHANGED <<appts, staff, services, blocks, now, req, history>>

PauseProfessional(r) ==
  /\ "pause" \in Endpoints /\ IsIdle(r)
  /\ \E p \in Professionals, st \in {"active", "paused"} :
       /\ staff[p] # "deleted"
       /\ staff' = [staff EXCEPT ![p] = st]
  /\ UNCHANGED <<appts, offers, services, blocks, now, req, history>>

EditService(r) ==
  /\ "editService" \in Endpoints /\ IsIdle(r)
  /\ \E s \in Services, d \in Durations, st \in {"active", "paused"} :
       /\ services[s].state # "deleted"
       /\ services' = [services EXCEPT ![s] = [dur |-> d, state |-> st]]
  /\ UNCHANGED <<appts, staff, offers, blocks, now, req, history>>

RemoveService(r) ==
  /\ "removeService" \in Endpoints /\ IsIdle(r)
  /\ \E s \in Services :
       /\ services[s].state # "deleted"
       /\ services' = [services EXCEPT ![s].state = "deleted"]
       /\ offers' = [p \in Professionals |-> offers[p] \ {s}]
  /\ UNCHANGED <<appts, staff, blocks, now, req, history>>

\* The handler dies: its transaction times out or its process stops.
Abort(r) ==
  /\ "abort" \in Endpoints /\ ~ IsIdle(r)
  /\ Reply(r)
  /\ UNCHANGED <<appts, catalog, blocks, now, history>>

Tick ==
  /\ now < MaxNow
  /\ now' = now + 1
  /\ UNCHANGED <<appts, catalog, blocks, req, history>>

Next ==
  \/ \E r \in Requests :
       \/ BeginCreatePublic(r) \/ BeginCreateManual(r)
       \/ Resolve(r) \/ CommitCreate(r)
       \/ ReadForUpdate(r) \/ UpdateContext(r) \/ CommitUpdate(r)
       \/ ReadForCancel(r) \/ ReadForStatus(r) \/ ReadForPayment(r)
       \/ CommitStatus(r)
       \/ CountUpcoming(r) \/ RemoveProfessional(r)
       \/ InsertBlock(r) \/ CountConflicts(r) \/ RemoveBlock(r)
       \/ SetServices(r) \/ PauseProfessional(r)
       \/ EditService(r) \/ RemoveService(r)
       \/ Abort(r)
  \/ Tick

Spec == Init /\ [][Next]_vars
-----------------------------------------------------------------------------
(* Properties.                                                             *)

Request ==
  [op : {"none", "createPublic", "createManual", "update", "status",
         "remove", "timeOff"},
   step : {"idle", "context", "resolve", "commit", "count"},
   appt : Appts \cup {None}, prof : Professionals \cup {None},
   cands : SUBSET Professionals, svc : Services \cup {None},
   start : Nat, len : Nat, keep : Nat, to : Statuses \cup {None},
   mode : Modes]

\* Every table and every request in flight has its shape; a row ends after it
\* starts, as the check constraint appointments_time_order says.
TypeOK ==
  /\ appts \in [Appts -> Row \cup {NoAppt}]
  /\ staff \in [Professionals -> State]
  /\ offers \in [Professionals -> SUBSET Services]
  /\ services \in [Services -> [dur : Nat \ {0}, state : State]]
  /\ blocks \subseteq Block
  /\ now \in Nat
  /\ req \in [Requests -> Request]
  /\ forced \subseteq Appts
  /\ warned \subseteq Block \X Appts
  /\ \A a \in Booked : appts[a].end > appts[a].start

\* No double booking: whatever requests run together, two rows that hold
\* their slot never overlap for one professional.  Every writer of the table
\* has to go through the exclusion constraint for this: creations, moves and
\* status writes that bring a cancelled row back.
NoDoubleBooking ==
  \A a, b \in Booked : a # b => ~ Clash(appts[a], appts[b])

\* The slots the table holds, as the abstract diary sees them.
SlotOf(a) ==
  IF appts[a] # NoAppt /\ HoldsSlot(appts[a].status)
    THEN [prof |-> appts[a].prof, start |-> appts[a].start, end |-> appts[a].end]
    ELSE NoAppt

slots == [a \in Appts |-> SlotOf(a)]

Diary == INSTANCE Agenda WITH Free <- NoAppt, slot <- slots

\* The handlers implement the abstract diary: each of their steps takes,
\* exchanges or releases the slot of one appointment, or changes none.
ImplementsAgenda == Diary!Spec

\* A removed professional keeps no upcoming appointment that is still open: remove counts them
\* first so as not to leave customers with orphan appointments.
NoOrphans ==
  \A a \in Booked :
    /\ appts[a].start >= now
    /\ appts[a].status \notin Terminal
    => staff[appts[a].prof] # "deleted"

\* A completed, cancelled or missed appointment never changes status again.
TerminalIsFinal ==
  [][\A a \in Booked :
       appts[a].status \in Terminal => appts'[a].status = appts[a].status]_vars

\* Rows whose hour the availability engine accepted, still holding it.
Checked == {a \in Booked \ forced : appts[a].status \in ActiveStatuses}

\* Between two appointments of a professional there is the buffer, which the
\* exclusion constraint knows nothing of.
BufferKept ==
  \A a, b \in Checked :
    a # b /\ appts[a].prof = appts[b].prof =>
      \/ appts[a].end + Buffer <= appts[b].start
      \/ appts[b].end + Buffer <= appts[a].start

\* An appointment accepted by the engine ends before closing time, for the
\* duration it was given and not only for the one that was checked.
HoursKept ==
  \A a \in Checked : appts[a].start >= Opening /\ appts[a].end <= Closing

\* When no time off request is waiting for its count, every appointment a
\* block covers is one the panel was told about.
BlocksKept ==
  (\A r \in Requests : req[r].op # "timeOff") =>
    \A a \in Checked, b \in blocks : Covers(b, a) => <<b, a>> \in warned

\* The slot a row holds is as long as the duration it was sold with.
SnapshotCoherent ==
  \A a \in Booked : appts[a].end = appts[a].start + appts[a].dur
=============================================================================
