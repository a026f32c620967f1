--------------------------- MODULE BookingProofs ----------------------------
(***************************************************************************)
(* Theorems about Booking for every set of requests, appointments,         *)
(* professionals, services, hours and settings.                            *)
(***************************************************************************)
EXTENDS Booking, TLAPS

\* What the code has established about a request by the time it writes: the
\* row it is about exists, and what it read has the shape the write needs.
Bookings == {"createPublic", "createManual", "update"}
Legit(q) ==
  /\ q.op \in {"update", "status"} => q.appt \in Booked
  /\ q.step \in {"context", "resolve"} => q.op \in Bookings
  /\ q.op \in Bookings => q.svc \in Services
  /\ q.op \in Bookings /\ q.step # "resolve" => q.prof \in Professionals
  /\ q.op \in Bookings /\ q.step # "context" => q.len > 0
  /\ q.op \in {"createPublic", "createManual", "status"} => q.to \in Statuses
  /\ q.op = "remove" => q.prof \in Professionals

LegitRequests == \A r \in Requests : Legit(req[r])

IInv == TypeOK /\ LegitRequests

USE DEF IsIdle, Advance, Reply, catalog, history

-----------------------------------------------------------------------------
(* The shape of what the steps write.                                      *)

\* The empty request is well formed and asks for nothing.
LEMMA IdleLegit == Idle \in Request /\ Legit(Idle)
BY DEF Idle, Request, Legit, Bookings, Modes

\* A creation starts as a well formed request that names its service and the
\* status it will write.
LEMMA CreationLegit ==
  ASSUME IInv, NEW s \in Services, NEW t \in Nat
  PROVE  /\ \A cands \in SUBSET Professionals :
              /\ PublicRequest(s, t, cands) \in Request
              /\ Legit(PublicRequest(s, t, cands))
         /\ \A p \in Professionals, st \in {"PENDING", "CONFIRMED"},
              mode \in Modes :
                /\ ManualRequest(s, p, t, st, mode) \in Request
                /\ Legit(ManualRequest(s, p, t, st, mode))
<1>1. /\ services[s].dur \in Nat \ {0} /\ WebStatus \in Statuses
      /\ {"PENDING", "CONFIRMED"} \subseteq Statuses /\ Idle \in Request
  BY IdleLegit DEF IInv, TypeOK, WebStatus, Statuses
<1>2. ASSUME NEW cands \in SUBSET Professionals
      PROVE  /\ PublicRequest(s, t, cands) \in Request
             /\ Legit(PublicRequest(s, t, cands))
  <2> DEFINE q == PublicRequest(s, t, cands)
  <2>1. q \in Request
    BY <1>1 DEF Request, PublicRequest
  <2>2. Legit(q)
    BY <1>1 DEF Request, Legit, Bookings, PublicRequest
  <2> QED
    BY <2>1, <2>2
<1>3. ASSUME NEW p \in Professionals, NEW st \in {"PENDING", "CONFIRMED"},
             NEW mode \in Modes
      PROVE  /\ ManualRequest(s, p, t, st, mode) \in Request
             /\ Legit(ManualRequest(s, p, t, st, mode))
  <2> DEFINE q == ManualRequest(s, p, t, st, mode)
  <2>1. AfterContext(mode) \in {"commit", "resolve"}
    BY DEF AfterContext
  <2>2. q \in Request
    BY <1>1, <2>1 DEF Request, ManualRequest
  <2>3. Legit(q)
    BY <1>1, <2>1 DEF Request, Legit, Bookings, ManualRequest
  <2> QED
    BY <2>2, <2>3
<1> QED
  BY <1>2, <1>3

\* A step that replaces one request and touches no appointment keeps the
\* requests legitimate.
LEMMA RequestStep ==
  ASSUME IInv, NEW r \in Requests, NEW q \in Request, Legit(q),
         req' = [req EXCEPT ![r] = q], appts' = appts
  PROVE  req' \in [Requests -> Request] /\ LegitRequests'
<1>1. Booked' = Booked
  BY DEF Booked
<1>2. \A x \in Requests : req'[x] \in Request /\ (req'[x] = q \/ req'[x] = req[x])
  BY DEF IInv, TypeOK
<1>3. \A x \in Requests : Legit(req'[x])
  BY <1>2 DEF IInv, LegitRequests
<1>4. \A x \in Requests : Legit(req[x])'
  BY <1>1, <1>3 DEF Legit
<1> QED
  BY <1>4 DEF IInv, TypeOK, LegitRequests

\* Writing one well formed row keeps the table and the requests well formed.
LEMMA PutType ==
  ASSUME IInv, NEW r \in Requests, NEW a \in Appts, NEW row \in Row,
         row.end > row.start,
         req' = [req EXCEPT ![r] = Idle], appts' = [appts EXCEPT ![a] = row]
  PROVE  /\ appts' \in [Appts -> Row \cup {NoAppt}]
         /\ (\A b \in Booked : appts[b].end > appts[b].start)'
         /\ req' \in [Requests -> Request]
         /\ LegitRequests'
<1>1. appts' \in [Appts -> Row \cup {NoAppt}]
  BY DEF IInv, TypeOK
<1>2. Booked \subseteq Booked' /\ Booked' \subseteq Booked \cup {a}
  BY NoApptAssumption DEF IInv, TypeOK, Booked
<1>3. \A b \in Booked' : appts'[b].end > appts'[b].start
  BY <1>2 DEF IInv, TypeOK, Booked
<1>4. \A x \in Requests : req'[x] \in Request /\ (req'[x] = Idle \/ req'[x] = req[x])
  BY IdleLegit DEF IInv, TypeOK
<1>5. \A x \in Requests : Legit(req'[x])
  BY <1>4, IdleLegit DEF IInv, LegitRequests
<1>6. \A x \in Requests : Legit(req[x])'
  BY <1>2, <1>5 DEF Legit
<1>7. req' \in [Requests -> Request]
  BY IdleLegit DEF IInv, TypeOK
<1> QED
  BY <1>1, <1>3, <1>6, <1>7 DEF LegitRequests

\* The row each committing request writes is well formed.
LEMMA CreateRow ==
  ASSUME IInv, NEW r \in Requests, Creating(r), req[r].step = "commit"
  PROVE  LET q == req[r]
             row == [prof |-> q.prof, svc |-> q.svc, start |-> q.start,
                     end |-> q.start + q.len, dur |-> q.len, status |-> q.to]
         IN row \in Row /\ row.end > row.start
<1>1. /\ req[r] \in Request /\ Legit(req[r])
      /\ req[r].op \in {"createPublic", "createManual"}
  BY DEF IInv, TypeOK, LegitRequests, Creating
<1> QED
  BY <1>1 DEF Request, Legit, Bookings, Row

\* The same for a move: the duration is the snapshot's or the new service's.
LEMMA UpdateRow ==
  ASSUME IInv, NEW r \in Requests, req[r].op = "update", req[r].step = "commit"
  PROVE  LET q == req[r]
             dur == IF q.keep = 0 THEN q.len ELSE q.keep
             row == [prof |-> q.prof, svc |-> q.svc, start |-> q.start,
                     end |-> q.start + dur,
                     dur |-> IF q.keep = 0 THEN dur ELSE appts[q.appt].dur,
                     status |-> appts[q.appt].status]
         IN q.appt \in Appts /\ row \in Row /\ row.end > row.start
<1>1. req[r] \in Request /\ Legit(req[r])
  BY DEF IInv, TypeOK, LegitRequests
<1>2. req[r].appt \in Appts /\ appts[req[r].appt] \in Row
  BY <1>1 DEF IInv, TypeOK, Legit, Booked
<1> QED
  BY <1>1, <1>2 DEF Request, Legit, Bookings, Row

\* A status write only changes the status.
LEMMA StatusRow ==
  ASSUME IInv, NEW r \in Requests, req[r].op = "status"
  PROVE  LET row == [appts[req[r].appt] EXCEPT !.status = req[r].to]
         IN req[r].appt \in Appts /\ row \in Row /\ row.end > row.start
<1>1. req[r] \in Request /\ Legit(req[r])
  BY DEF IInv, TypeOK, LegitRequests
<1>2. /\ req[r].appt \in Appts /\ appts[req[r].appt] \in Row
      /\ appts[req[r].appt].end > appts[req[r].appt].start
  BY <1>1 DEF IInv, TypeOK, Legit, Booked
<1>3. req[r].to \in Statuses
  BY <1>1 DEF Legit
<1> QED
  BY <1>2, <1>3 DEF Row
-----------------------------------------------------------------------------
(* The inductive invariant, one lemma per group of handlers.               *)

\* Conjuncts a step that leaves tables alone cannot disturb.
LEMMA TablesKept ==
  ASSUME IInv, UNCHANGED <<appts, staff, offers, services, blocks>>,
         now' \in Nat, UNCHANGED <<forced, warned>>,
         req' \in [Requests -> Request], LegitRequests'
  PROVE  IInv'
BY DEF IInv, TypeOK, Booked

\* The handlers that create appointments.
LEMMA CreateStep ==
  ASSUME IInv, NEW r \in Requests,
         \/ BeginCreatePublic(r) \/ BeginCreateManual(r)
         \/ Resolve(r) \/ CommitCreate(r)
  PROVE  IInv'
<1>1. CASE BeginCreatePublic(r)
  <2>1. PICK s \in Services, t \in StartTimes, cands \in SUBSET Professionals :
          req' = [req EXCEPT ![r] = PublicRequest(s, t, cands)]
    BY <1>1 DEF BeginCreatePublic, Offering
  <2>2. UNCHANGED <<appts, staff, offers, services, blocks, now, forced, warned>>
    BY <1>1 DEF BeginCreatePublic
  <2>3. req' \in [Requests -> Request] /\ LegitRequests'
    BY <2>1, <2>2, CreationLegit, RequestStep, TimesAssumption
  <2> QED
    BY <2>2, <2>3, TablesKept DEF IInv, TypeOK
<1>2. CASE BeginCreateManual(r)
  <2>1. PICK s \in Services, p \in Professionals, t \in StartTimes,
             st \in {"PENDING", "CONFIRMED"}, mode \in Modes :
          req' = [req EXCEPT ![r] = ManualRequest(s, p, t, st, mode)]
    BY <1>2 DEF BeginCreateManual
  <2>2. UNCHANGED <<appts, staff, offers, services, blocks, now, forced, warned>>
    BY <1>2 DEF BeginCreateManual
  <2>3. req' \in [Requests -> Request] /\ LegitRequests'
    BY <2>1, <2>2, CreationLegit, RequestStep, TimesAssumption
  <2> QED
    BY <2>2, <2>3, TablesKept DEF IInv, TypeOK
<1>3. CASE Resolve(r)
  <2>1. PICK q \in {Idle} \cup {[req[r] EXCEPT !.step = "commit", !.prof = p,
                                   !.cands = {}] : p \in req[r].cands} :
          req' = [req EXCEPT ![r] = q]
    BY <1>3 DEF Resolve, LeastLoaded
  <2>2. /\ req[r] \in Request /\ Legit(req[r]) /\ req[r].step = "resolve"
    BY <1>3 DEF Resolve, IInv, TypeOK, LegitRequests
  <2>3. q \in Request /\ Legit(q)
    <3>1. CASE q = Idle
      BY <3>1, IdleLegit
    <3>2. CASE q # Idle
      <4>1. PICK p \in req[r].cands :
              q = [req[r] EXCEPT !.step = "commit", !.prof = p, !.cands = {}]
        BY <2>1, <3>2
      <4>2. p \in Professionals
        BY <2>2, <4>1 DEF Request
      <4> QED
        BY <2>2, <4>1, <4>2 DEF Request, Legit, Bookings
    <3> QED
      BY <3>1, <3>2
  <2>4. UNCHANGED <<appts, staff, offers, services, blocks, now, forced, warned>>
    BY <1>3 DEF Resolve
  <2>5. req' \in [Requests -> Request] /\ LegitRequests'
    BY <2>1, <2>3, <2>4, RequestStep
  <2> QED
    BY <2>4, <2>5, TablesKept DEF IInv, TypeOK
<1>4. CASE CommitCreate(r)
  <2> DEFINE row == [prof |-> req[r].prof, svc |-> req[r].svc,
                     start |-> req[r].start,
                     end |-> req[r].start + req[r].len,
                     dur |-> req[r].len, status |-> req[r].to]
  <2>1. row \in Row /\ row.end > row.start
    BY <1>4, CreateRow DEF CommitCreate
  <2>2. UNCHANGED <<staff, offers, services, blocks, now, warned>>
    BY <1>4 DEF CommitCreate
  <2>3. req' = [req EXCEPT ![r] = Idle]
    BY <1>4 DEF CommitCreate
  <2>4. CASE \E a \in Appts : /\ appts' = [appts EXCEPT ![a] = row]
                              /\ forced' \in {forced, forced \cup {a}}
    BY <2>1, <2>2, <2>3, <2>4, PutType DEF IInv, TypeOK
  <2>5. CASE UNCHANGED <<appts, forced>>
    <3>1. req' \in [Requests -> Request] /\ LegitRequests'
      BY <2>3, <2>5, IdleLegit, RequestStep
    <3> QED
      BY <2>2, <2>5, <3>1, TablesKept DEF IInv, TypeOK
  <2> QED
    BY <1>4, <2>4, <2>5 DEF CommitCreate
<1> QED
  BY <1>1, <1>2, <1>3, <1>4
\* A move starts from a row that exists, with a whole request.
LEMMA MoveLegit ==
  ASSUME IInv, NEW a \in Booked, NEW s \in Services, NEW p \in Professionals,
         NEW t \in Nat, NEW mode \in Modes
  PROVE  /\ MoveRequest(a, s, p, t, mode) \in Request
         /\ Legit(MoveRequest(a, s, p, t, mode))
<1> DEFINE q == MoveRequest(a, s, p, t, mode)
           keep == IF s = appts[a].svc THEN appts[a].dur ELSE 0
<1>1. a \in Appts /\ appts[a] \in Row /\ Idle \in Request
  BY IdleLegit DEF IInv, TypeOK, Booked
<1>2. keep \in Nat
  BY <1>1 DEF Row
<1>3. q \in Request
  BY <1>1, <1>2 DEF Request, MoveRequest
<1>4. Legit(q)
  BY <1>1 DEF Request, Legit, Bookings, MoveRequest
<1> QED
  BY <1>3, <1>4

\* The handlers that move an appointment.
LEMMA UpdateStep ==
  ASSUME IInv, NEW r \in Requests,
         ReadForUpdate(r) \/ UpdateContext(r) \/ CommitUpdate(r)
  PROVE  IInv'
<1>1. CASE ReadForUpdate(r)
  <2>1. PICK a \in Booked, s \in Services, p \in Professionals,
             t \in StartTimes, mode \in Modes :
          req' = [req EXCEPT ![r] = MoveRequest(a, s, p, t, mode)]
    BY <1>1 DEF ReadForUpdate
  <2>2. UNCHANGED <<appts, staff, offers, services, blocks, now, forced, warned>>
    BY <1>1 DEF ReadForUpdate
  <2>3. req' \in [Requests -> Request] /\ LegitRequests'
    BY <2>1, <2>2, MoveLegit, RequestStep, TimesAssumption
  <2> QED
    BY <2>2, <2>3, TablesKept DEF IInv, TypeOK
<1>2. CASE UpdateContext(r)
  <2> DEFINE q == [req[r] EXCEPT !.step = AfterContext(req[r].mode),
                                 !.cands = {req[r].prof},
                                 !.len = services[req[r].svc].dur]
  <2>1. /\ req[r] \in Request /\ Legit(req[r]) /\ req[r].op = "update"
        /\ req[r].step = "context"
    BY <1>2 DEF UpdateContext, IInv, TypeOK, LegitRequests
  <2>2. /\ req[r].svc \in Services /\ req[r].prof \in Professionals
        /\ services[req[r].svc].dur \in Nat \ {0}
        /\ AfterContext(req[r].mode) \in {"commit", "resolve"}
    BY <2>1 DEF Legit, Bookings, IInv, TypeOK, AfterContext
  <2>3. q \in Request
    BY <2>1, <2>2 DEF Request
  <2>4. Legit(q)
    BY <2>1, <2>2 DEF Request, Legit, Bookings
  <2>5. req' = [req EXCEPT ![r] = q] \/ req' = [req EXCEPT ![r] = Idle]
    BY <1>2 DEF UpdateContext
  <2>6. UNCHANGED <<appts, staff, offers, services, blocks, now, forced, warned>>
    BY <1>2 DEF UpdateContext
  <2>7. req' \in [Requests -> Request] /\ LegitRequests'
    BY <2>3, <2>4, <2>5, <2>6, IdleLegit, RequestStep
  <2> QED
    BY <2>6, <2>7, TablesKept DEF IInv, TypeOK
<1>3. CASE CommitUpdate(r)
  <2> DEFINE a == req[r].appt
             dur == IF req[r].keep = 0 THEN req[r].len ELSE req[r].keep
             row == [prof |-> req[r].prof, svc |-> req[r].svc,
                     start |-> req[r].start, end |-> req[r].start + dur,
                     dur |-> IF req[r].keep = 0 THEN dur ELSE appts[a].dur,
                     status |-> appts[a].status]
  <2>1. a \in Appts /\ row \in Row /\ row.end > row.start
    BY <1>3, UpdateRow DEF CommitUpdate
  <2>2. UNCHANGED <<staff, offers, services, blocks, now, warned>>
    BY <1>3 DEF CommitUpdate
  <2>3. req' = [req EXCEPT ![r] = Idle]
    BY <1>3 DEF CommitUpdate
  <2>4. CASE /\ appts' = [appts EXCEPT ![a] = row]
             /\ forced' \in {forced \cup {a}, forced \ {a}}
    BY <2>1, <2>2, <2>3, <2>4, PutType DEF IInv, TypeOK
  <2>5. CASE UNCHANGED <<appts, forced>>
    <3>1. req' \in [Requests -> Request] /\ LegitRequests'
      BY <2>3, <2>5, IdleLegit, RequestStep
    <3> QED
      BY <2>2, <2>5, <3>1, TablesKept DEF IInv, TypeOK
  <2> QED
    BY <1>3, <2>4, <2>5 DEF CommitUpdate
<1> QED
  BY <1>1, <1>2, <1>3

\* A status decision is a well formed request about a row that exists.
LEMMA DecideStep ==
  ASSUME IInv, NEW r \in Requests, NEW a \in Booked, NEW to \in Statuses,
         DecideStatus(r, a, to)
  PROVE  IInv'
<1> DEFINE q == [Idle EXCEPT !.op = "status", !.step = "commit",
                   !.appt = a, !.to = to]
<1>1. Idle \in Request /\ a \in Appts
  BY IdleLegit DEF Booked
<1>2. q \in Request
  BY <1>1 DEF Request
<1>3. Legit(q)
  BY <1>1 DEF Request, Legit, Bookings
<1>4. /\ req' = [req EXCEPT ![r] = q]
      /\ UNCHANGED <<appts, staff, offers, services, blocks, now, forced, warned>>
  BY DEF DecideStatus
<1>5. req' \in [Requests -> Request] /\ LegitRequests'
  BY <1>2, <1>3, <1>4, RequestStep
<1> QED
  BY <1>4, <1>5, TablesKept DEF IInv, TypeOK

\* The writers of the status column.
LEMMA StatusStep ==
  ASSUME IInv, NEW r \in Requests,
         \/ ReadForCancel(r) \/ ReadForStatus(r) \/ ReadForPayment(r)
         \/ CommitStatus(r)
  PROVE  IInv'
<1>1. CASE ReadForCancel(r)
  BY <1>1, DecideStep DEF ReadForCancel, Statuses
<1>2. CASE ReadForStatus(r)
  BY <1>2, DecideStep DEF ReadForStatus
<1>3. CASE ReadForPayment(r)
  BY <1>3, DecideStep DEF ReadForPayment, Statuses
<1>4. CASE CommitStatus(r)
  <2> DEFINE a == req[r].appt
             row == [appts[a] EXCEPT !.status = req[r].to]
  <2>1. a \in Appts /\ row \in Row /\ row.end > row.start
    BY <1>4, StatusRow DEF CommitStatus
  <2>2. /\ UNCHANGED <<staff, offers, services, blocks, now, forced, warned>>
        /\ req' = [req EXCEPT ![r] = Idle]
    BY <1>4 DEF CommitStatus
  <2>3. CASE appts' = [appts EXCEPT ![a] = row]
    BY <2>1, <2>2, <2>3, PutType DEF IInv, TypeOK
  <2>4. CASE UNCHANGED appts
    <3>1. req' \in [Requests -> Request] /\ LegitRequests'
      BY <2>2, <2>4, IdleLegit, RequestStep
    <3> QED
      BY <2>2, <2>4, <3>1, TablesKept DEF IInv, TypeOK
  <2> QED
    BY <1>4, <2>3, <2>4 DEF CommitStatus
<1> QED
  BY <1>1, <1>2, <1>3, <1>4

\* The handlers of professionals and time off.
LEMMA StaffStep ==
  ASSUME IInv, NEW r \in Requests,
         \/ CountUpcoming(r) \/ RemoveProfessional(r)
         \/ InsertBlock(r) \/ CountConflicts(r) \/ RemoveBlock(r)
  PROVE  IInv'
<1>1. CASE CountUpcoming(r)
  <2>1. PICK p \in Professionals :
          req' = [req EXCEPT ![r] = [Idle EXCEPT !.op = "remove",
                                       !.step = "commit", !.prof = p]]
    BY <1>1 DEF CountUpcoming
  <2> DEFINE q == [Idle EXCEPT !.op = "remove", !.step = "commit", !.prof = p]
  <2>2. q \in Request
    BY IdleLegit DEF Request
  <2>3. Legit(q)
    BY IdleLegit DEF Request, Legit, Bookings
  <2>4. UNCHANGED <<appts, staff, offers, services, blocks, now, forced, warned>>
    BY <1>1 DEF CountUpcoming
  <2>5. req' \in [Requests -> Request] /\ LegitRequests'
    BY <2>1, <2>2, <2>3, <2>4, RequestStep
  <2> QED
    BY <2>4, <2>5, TablesKept DEF IInv, TypeOK
<1>2. CASE RemoveProfessional(r)
  <2>1. /\ req' = [req EXCEPT ![r] = Idle]
        /\ UNCHANGED <<appts, services, blocks, now, forced, warned>>
    BY <1>2 DEF RemoveProfessional
  <2>2. /\ staff' \in [Professionals -> State]
        /\ offers' \in [Professionals -> SUBSET Services]
    BY <1>2 DEF RemoveProfessional, IInv, TypeOK, State
  <2>3. req' \in [Requests -> Request] /\ LegitRequests'
    BY <2>1, IdleLegit, RequestStep
  <2> QED
    BY <2>1, <2>2, <2>3 DEF IInv, TypeOK, Booked
<1>3. CASE InsertBlock(r)
  <2>1. PICK p \in Professionals \cup {None}, i \in BlockPeriods :
          /\ blocks' = blocks \cup {[prof |-> p, start |-> i[1], end |-> i[2]]}
          /\ req' = [req EXCEPT ![r] =
                       [Idle EXCEPT !.op = "timeOff", !.step = "count",
                          !.prof = p, !.start = i[1], !.len = i[2]]]
    BY <1>3 DEF InsertBlock
  <2> DEFINE q == [Idle EXCEPT !.op = "timeOff", !.step = "count",
                     !.prof = p, !.start = i[1], !.len = i[2]]
  <2>2. i[1] \in Nat /\ i[2] \in Nat
    BY TimesAssumption
  <2>3. q \in Request
    BY <2>2, IdleLegit DEF Request
  <2>4. Legit(q)
    BY IdleLegit DEF Request, Legit, Bookings
  <2>5. UNCHANGED <<appts, staff, offers, services, now, forced, warned>>
    BY <1>3 DEF InsertBlock
  <2>6. blocks' \subseteq Block
    BY <2>1, <2>2 DEF Block, IInv, TypeOK
  <2>7. req' \in [Requests -> Request] /\ LegitRequests'
    BY <2>1, <2>3, <2>4, <2>5, RequestStep
  <2> QED
    BY <2>5, <2>6, <2>7 DEF IInv, TypeOK, Booked
<1>4. CASE CountConflicts(r)
  <2> DEFINE b == [prof |-> req[r].prof, start |-> req[r].start, end |-> req[r].len]
  <2>1. /\ req' = [req EXCEPT ![r] = Idle]
        /\ UNCHANGED <<appts, staff, offers, services, blocks, now, forced>>
    BY <1>4 DEF CountConflicts
  <2>2. req[r] \in Request
    BY DEF IInv, TypeOK
  <2>3. b \in Block
    BY <2>2 DEF Request, Block
  <2>4. warned' \subseteq Block \X Appts
    BY <1>4, <2>3 DEF CountConflicts, IInv, TypeOK, Booked
  <2>5. req' \in [Requests -> Request] /\ LegitRequests'
    BY <2>1, IdleLegit, RequestStep
  <2> QED
    BY <2>1, <2>4, <2>5 DEF IInv, TypeOK, Booked
<1>5. CASE RemoveBlock(r)
  <2>1. UNCHANGED <<appts, staff, offers, services, now, req, forced>>
    BY <1>5 DEF RemoveBlock
  <2>2. blocks' \subseteq blocks /\ warned' \subseteq warned
    BY <1>5 DEF RemoveBlock
  <2>3. LegitRequests'
    BY <2>1 DEF IInv, LegitRequests, Legit, Booked
  <2> QED
    BY <2>1, <2>2, <2>3 DEF IInv, TypeOK, Booked
<1> QED
  BY <1>1, <1>2, <1>3, <1>4, <1>5

\* The catalogue handlers, a handler that dies, and the clock.
LEMMA CatalogStep ==
  ASSUME IInv,
         \/ \E r \in Requests :
              \/ SetServices(r) \/ PauseProfessional(r)
              \/ EditService(r) \/ RemoveService(r)
              \/ Abort(r)
         \/ Tick
  PROVE  IInv'
<1>1. ASSUME NEW r \in Requests,
             \/ SetServices(r) \/ PauseProfessional(r)
             \/ EditService(r) \/ RemoveService(r)
      PROVE  IInv'
  <2>1. UNCHANGED <<appts, blocks, now, req, forced, warned>>
    BY <1>1 DEF SetServices, PauseProfessional, EditService, RemoveService
  <2>2. staff' \in [Professionals -> State]
    BY <1>1 DEF SetServices, PauseProfessional, EditService, RemoveService,
                IInv, TypeOK, State
  <2>3. offers' \in [Professionals -> SUBSET Services]
    BY <1>1 DEF SetServices, PauseProfessional, EditService, RemoveService,
                IInv, TypeOK
  <2>4. services' \in [Services -> [dur : Nat \ {0}, state : State]]
    <3>1. CASE UNCHANGED services
      BY <3>1 DEF IInv, TypeOK
    <3>2. CASE EditService(r)
      BY <3>2, TimesAssumption DEF EditService, IInv, TypeOK, State
    <3>3. CASE RemoveService(r)
      BY <3>3 DEF RemoveService, IInv, TypeOK, State
    <3> QED
      BY <1>1, <3>1, <3>2, <3>3 DEF SetServices, PauseProfessional
  <2>5. LegitRequests'
    BY <2>1 DEF IInv, LegitRequests, Legit, Booked
  <2> QED
    BY <2>1, <2>2, <2>3, <2>4, <2>5 DEF IInv, TypeOK, Booked
<1>2. ASSUME NEW r \in Requests, Abort(r)
      PROVE  IInv'
  <2>1. /\ req' = [req EXCEPT ![r] = Idle]
        /\ UNCHANGED <<appts, staff, offers, services, blocks, now, forced, warned>>
    BY <1>2 DEF Abort
  <2>2. req' \in [Requests -> Request] /\ LegitRequests'
    BY <2>1, IdleLegit, RequestStep
  <2> QED
    BY <2>1, <2>2, TablesKept DEF IInv, TypeOK
<1>3. CASE Tick
  <2>1. /\ UNCHANGED <<appts, staff, offers, services, blocks, req, forced, warned>>
        /\ now' \in Nat
    BY <1>3 DEF Tick, IInv, TypeOK
  <2>2. req' \in [Requests -> Request] /\ LegitRequests'
    BY <2>1 DEF IInv, TypeOK, LegitRequests, Legit, Booked
  <2> QED
    BY <2>1, <2>2, TablesKept
<1> QED
  BY <1>1, <1>2, <1>3

\* What a request in flight has established survives every step of the
\* others, because no step deletes an appointment.
THEOREM Invariance == Spec => []IInv
<1>1. Init => IInv
  <2>1. SUFFICES ASSUME Init PROVE IInv
    OBVIOUS
  <2>2. Booked = {}
    BY <2>1 DEF Init, Booked
  <2>3. LegitRequests
    BY <2>1, IdleLegit DEF Init, LegitRequests
  <2>4. TypeOK
    BY <2>1, <2>2, IdleLegit, TimesAssumption DEF Init, TypeOK, State
  <2> QED
    BY <2>3, <2>4 DEF IInv
<1>2. IInv /\ [Next]_vars => IInv'
  <2> SUFFICES ASSUME IInv, [Next]_vars PROVE IInv'
    OBVIOUS
  <2>1. CASE Next
    BY <2>1, CreateStep, UpdateStep, StatusStep, StaffStep, CatalogStep DEF Next
  <2>2. CASE UNCHANGED vars
    BY <2>2 DEF vars, IInv, TypeOK, LegitRequests, Legit, Booked
  <2> QED
    BY <2>1, <2>2
<1> QED
  BY <1>1, <1>2, PTL DEF Spec

\* Every table and every request keeps its shape, and every appointment ends
\* after it starts, as the check constraint of the migration demands.
THEOREM TypeCorrect == Spec => []TypeOK
<1>1. IInv => TypeOK
  BY DEF IInv
<1> QED
  BY <1>1, Invariance, PTL
-----------------------------------------------------------------------------
(* No double booking, and the abstract diary.                              *)

\* The appointments table only changes one row at a time, to a value the
\* exclusion constraint admits.
Write(a, row) ==
  /\ row.end > row.start
  /\ Admits(a, row)
  /\ appts' = [appts EXCEPT ![a] = row]

\* Every step leaves the table alone or is such a write.
LEMMA WriteOrNothing ==
  ASSUME IInv, [Next]_vars
  PROVE  UNCHANGED appts \/ \E a \in Appts, row \in Row : Write(a, row)
<1>1. ASSUME NEW r \in Requests, CommitCreate(r)
      PROVE  UNCHANGED appts \/ \E a \in Appts, row \in Row : Write(a, row)
  <2> DEFINE row == [prof |-> req[r].prof, svc |-> req[r].svc,
                     start |-> req[r].start,
                     end |-> req[r].start + req[r].len,
                     dur |-> req[r].len, status |-> req[r].to]
  <2>1. row \in Row /\ row.end > row.start
    BY <1>1, CreateRow DEF CommitCreate
  <2>2. \/ UNCHANGED appts
        \/ \E a \in Appts : Admits(a, row) /\ appts' = [appts EXCEPT ![a] = row]
    BY <1>1 DEF CommitCreate
  <2> QED
    BY <2>1, <2>2 DEF Write
<1>2. ASSUME NEW r \in Requests, CommitUpdate(r)
      PROVE  UNCHANGED appts \/ \E a \in Appts, row \in Row : Write(a, row)
  <2> DEFINE a == req[r].appt
             dur == IF req[r].keep = 0 THEN req[r].len ELSE req[r].keep
             row == [prof |-> req[r].prof, svc |-> req[r].svc,
                     start |-> req[r].start, end |-> req[r].start + dur,
                     dur |-> IF req[r].keep = 0 THEN dur ELSE appts[a].dur,
                     status |-> appts[a].status]
  <2>1. a \in Appts /\ row \in Row /\ row.end > row.start
    BY <1>2, UpdateRow DEF CommitUpdate
  <2>2. \/ UNCHANGED appts
        \/ Admits(a, row) /\ appts' = [appts EXCEPT ![a] = row]
    BY <1>2 DEF CommitUpdate
  <2> QED
    BY <2>1, <2>2 DEF Write
<1>3. ASSUME NEW r \in Requests, CommitStatus(r)
      PROVE  UNCHANGED appts \/ \E a \in Appts, row \in Row : Write(a, row)
  <2> DEFINE a == req[r].appt
             row == [appts[a] EXCEPT !.status = req[r].to]
  <2>1. a \in Appts /\ row \in Row /\ row.end > row.start
    BY <1>3, StatusRow DEF CommitStatus
  <2>2. \/ UNCHANGED appts
        \/ Admits(a, row) /\ appts' = [appts EXCEPT ![a] = row]
    BY <1>3 DEF CommitStatus
  <2> QED
    BY <2>1, <2>2 DEF Write
<1>4. ASSUME NEW r \in Requests,
             \/ BeginCreatePublic(r) \/ BeginCreateManual(r) \/ Resolve(r)
             \/ ReadForUpdate(r) \/ UpdateContext(r)
             \/ ReadForCancel(r) \/ ReadForStatus(r) \/ ReadForPayment(r)
             \/ CountUpcoming(r) \/ RemoveProfessional(r)
             \/ InsertBlock(r) \/ CountConflicts(r) \/ RemoveBlock(r)
      PROVE  UNCHANGED appts
  BY <1>4 DEF BeginCreatePublic, BeginCreateManual, Resolve, ReadForUpdate,
              UpdateContext, ReadForCancel, ReadForStatus, ReadForPayment,
              DecideStatus, CountUpcoming, RemoveProfessional, InsertBlock,
              CountConflicts, RemoveBlock
<1>5. ASSUME NEW r \in Requests,
             \/ SetServices(r) \/ PauseProfessional(r)
             \/ EditService(r) \/ RemoveService(r) \/ Abort(r)
      PROVE  UNCHANGED appts
  BY <1>5 DEF SetServices, PauseProfessional, EditService, RemoveService, Abort
<1> QED
  BY <1>1, <1>2, <1>3, <1>4, <1>5 DEF Next, Tick, vars

\* A write the constraint admits brings no double booking.
LEMMA WriteKeepsApart ==
  ASSUME IInv, NoDoubleBooking, NEW a \in Appts, NEW row \in Row, Write(a, row)
  PROVE  NoDoubleBooking'
<1>1. \A b \in Appts : appts'[b] = IF b = a THEN row ELSE appts[b]
  BY DEF Write, IInv, TypeOK
<1>2. SUFFICES ASSUME NEW x \in Appts, NEW y \in Appts, x # y,
                      appts'[x] # NoAppt, appts'[y] # NoAppt
               PROVE  ~ Clash(appts'[x], appts'[y])
  BY DEF NoDoubleBooking, Booked
<1>3. CASE x = a
  BY <1>1, <1>2, <1>3 DEF Write, Admits, Booked
<1>4. CASE y = a
  <2>1. ~ Clash(row, appts[x])
    BY <1>1, <1>2, <1>4 DEF Write, Admits, Booked
  <2> QED
    BY <1>1, <1>2, <1>4, <2>1 DEF Clash, Intersect
<1>5. CASE x # a /\ y # a
  BY <1>1, <1>2, <1>5 DEF NoDoubleBooking, Booked
<1> QED
  BY <1>3, <1>4, <1>5

\* Two rows that hold their slot never overlap for one professional, however
\* many handlers run at once and whatever they read before they wrote.
THEOREM NeverDoubleBooked == Spec => []NoDoubleBooking
<1>1. Init => NoDoubleBooking
  BY DEF Init, NoDoubleBooking, Booked
<1>2. IInv /\ NoDoubleBooking /\ [Next]_vars => NoDoubleBooking'
  <2> SUFFICES ASSUME IInv, NoDoubleBooking, [Next]_vars PROVE NoDoubleBooking'
    OBVIOUS
  <2>1. CASE UNCHANGED appts
    BY <2>1 DEF NoDoubleBooking, Booked
  <2>2. CASE \E a \in Appts, row \in Row : Write(a, row)
    BY <2>2, WriteKeepsApart
  <2> QED
    BY <2>1, <2>2, WriteOrNothing
<1> QED
  BY <1>1, <1>2, Invariance, PTL DEF Spec

\* A write takes, exchanges or releases one slot of the diary, or touches none.
LEMMA WriteIsDiaryStep ==
  ASSUME IInv, NEW a \in Appts, NEW row \in Row, Write(a, row)
  PROVE  Diary!Next \/ UNCHANGED slots
<1>1. \A b \in Appts : appts'[b] = IF b = a THEN row ELSE appts[b]
  BY DEF Write, IInv, TypeOK
<1>2. \A b \in Appts \ {a} : SlotOf(b)' = SlotOf(b)
  BY <1>1 DEF SlotOf
<1>3. slots' = [slots EXCEPT ![a] = SlotOf(a)']
  BY <1>2 DEF slots
<1>4. CASE HoldsSlot(row.status)
  <2>1. SlotOf(a)' = [prof |-> row.prof, start |-> row.start, end |-> row.end]
    BY <1>1, <1>4, NoApptAssumption DEF SlotOf
  <2>2. SlotOf(a)' \in Diary!Slots
    BY <2>1 DEF Diary!Slots, Row
  <2>3. Diary!Open(a, SlotOf(a)')
    BY <1>4, <2>1 DEF Diary!Open, Diary!Intersect, Write, Admits, Clash,
                      Intersect, SlotOf, Booked, slots
  <2>4. Diary!Take(a)
    BY <1>3, <2>2, <2>3 DEF Diary!Take, slots
  <2> QED
    BY <2>4 DEF Diary!Next
<1>5. CASE ~ HoldsSlot(row.status)
  <2>1. SlotOf(a)' = NoAppt
    BY <1>1, <1>5 DEF SlotOf
  <2>2. CASE SlotOf(a) = NoAppt
    BY <1>3, <2>1, <2>2 DEF slots
  <2>3. CASE SlotOf(a) # NoAppt
    BY <1>3, <2>1, <2>3 DEF Diary!Release, Diary!Next, slots
  <2> QED
    BY <2>2, <2>3
<1> QED
  BY <1>4, <1>5

\* The handlers, with their stale reads and their aborts, implement a diary
\* whose slots change one at a time and never over one another.
THEOREM Refinement == Spec => ImplementsAgenda
<1>1. Init => Diary!Init
  BY DEF Init, Diary!Init, SlotOf, slots
<1>2. IInv /\ [Next]_vars => [Diary!Next]_slots
  <2> SUFFICES ASSUME IInv, [Next]_vars
               PROVE  Diary!Next \/ UNCHANGED slots
    OBVIOUS
  <2>1. CASE UNCHANGED appts
    BY <2>1 DEF SlotOf, slots
  <2>2. CASE \E a \in Appts, row \in Row : Write(a, row)
    BY <2>2, WriteIsDiaryStep
  <2> QED
    BY <2>1, <2>2, WriteOrNothing
<1> QED
  BY <1>1, <1>2, Invariance, PTL DEF Spec, ImplementsAgenda, Diary!Spec

-----------------------------------------------------------------------------
(* What a request has read still holds when it writes, and the promises    *)
(* that rest on a check made before the write are kept, as long as no      *)
(* other request in flight is changing just that.  Any number of requests  *)
(* may run together otherwise; with a single one nothing is asked.         *)

\* Two moves of one appointment, or two changes of its status.
SharesRow(q, o) ==
  q.op = o.op /\ q.op \in {"update", "status"} /\ q.appt = o.appt

\* The removal of a professional, and a booking that has already found them.
SharesStaff(q, o) ==
  /\ q.op = "remove" /\ o.op \in Bookings /\ o.step \in {"resolve", "commit"}
  /\ q.prof \in o.cands \cup {o.prof}

\* A booking that has found its hour free, and another one about to take an
\* hour of the same professional, or a block being made of their time.
SharesDay(q, o) ==
  /\ o.op \in Bookings /\ o.step = "commit"
  /\ \/ q.op = "timeOff" /\ q.prof \in {o.prof, None}
     \/ q.op \in Bookings /\ q.step = "commit" /\ q.prof = o.prof

RowsApart ==
  \A r, s \in Requests : r # s =>
    ~ SharesRow(req[r], req[s]) /\ ~ SharesStaff(req[r], req[s])

DaysApart == \A r, s \in Requests : r # s => ~ SharesDay(req[r], req[s])

\* A single request is apart from all others.
LEMMA OneIsApart == ASSUME NEW r, Requests = {r} PROVE RowsApart /\ DaysApart
BY DEF RowsApart, DaysApart

\* What a request has read of statuses, durations and staff, and relies on.
Sound(q) ==
  /\ q.op = "status" => CanTransition(appts[q.appt].status, q.to)
  /\ q.op = "update" /\ q.keep # 0 => q.keep = appts[q.appt].dur
  /\ q.op = "remove" => Commitments(q.prof) = {}
  /\ q.op \in Bookings /\ q.step = "resolve" =>
       \A p \in q.cands : staff[p] # "deleted"
  /\ q.op \in Bookings /\ q.step = "commit" => staff[q.prof] # "deleted"

Orderly(r) == SnapshotCoherent /\ NoOrphans /\ Sound(req[r])

Ordered ==
  /\ SnapshotCoherent /\ NoOrphans
  /\ \A r \in Requests : Sound(req[r])

-----------------------------------------------------------------------------
(* Statuses, durations and staff.                                          *)

\* What the transition table says of the statuses the code asks about.
LEMMA Transitions ==
  /\ \A s \in Terminal, to \in Statuses : ~ CanTransition(s, to)
  /\ \A s \in {"PENDING", "CONFIRMED"} : CanTransition(s, "CANCELLED")
  /\ CanTransition("PENDING", "CONFIRMED")
BY DEF CanTransition, TRANSITIONS, Terminal, Statuses

LEMMA IdleSound == Sound(Idle)
BY DEF Idle, Sound, Bookings

\* A step that only takes the request further.
LEMMA FurtherStep ==
  ASSUME IInv, NEW r \in Requests, Orderly(r), NEW q, Sound(q),
         req' = [req EXCEPT ![r] = q], UNCHANGED <<appts, staff, now>>
  PROVE  Orderly(r)'
<1>1. req'[r] = q
  BY DEF IInv, TypeOK
<1>2. Sound(req[r])'
  BY <1>1 DEF Sound, Commitments, Booked
<1>3. SnapshotCoherent' /\ NoOrphans'
  BY DEF Orderly, SnapshotCoherent, NoOrphans, Booked
<1> QED
  BY <1>2, <1>3 DEF Orderly

\* A row is written that is as long as it says, and no orphan; the request
\* is answered.
LEMMA RowStep ==
  ASSUME IInv, NEW r \in Requests, Orderly(r), NEW a \in Appts, NEW row \in Row,
         row.end = row.start + row.dur,
         row.start >= now /\ row.status \notin Terminal =>
           staff[row.prof] # "deleted",
         appts' = [appts EXCEPT ![a] = row], req' = [req EXCEPT ![r] = Idle],
         UNCHANGED <<staff, now>>
  PROVE  Orderly(r)'
<1>1. req'[r] = Idle
  BY DEF IInv, TypeOK
<1>2. Sound(req[r])'
  BY <1>1 DEF Sound, Idle, Bookings
<1>3. \A b \in Booked' : appts'[b] = row \/ (b \in Booked /\ appts'[b] = appts[b])
  BY DEF IInv, TypeOK, Booked
<1>4. SnapshotCoherent' /\ NoOrphans'
  BY <1>3 DEF Orderly, SnapshotCoherent, NoOrphans
<1> QED
  BY <1>2, <1>4 DEF Orderly

LEMMA CreateOrderly ==
  ASSUME IInv, NEW r \in Requests, Orderly(r),
         \/ BeginCreatePublic(r) \/ BeginCreateManual(r)
         \/ Resolve(r) \/ CommitCreate(r)
  PROVE  Orderly(r)'
<1>1. CASE BeginCreatePublic(r)
  <2>1. PICK s \in Services, t \in StartTimes, wanted \in SUBSET Professionals :
          req' = [req EXCEPT ![r] = PublicRequest(s, t, Offering(s) \cap wanted)]
    BY <1>1 DEF BeginCreatePublic
  <2>2. Sound(PublicRequest(s, t, Offering(s) \cap wanted))
    BY DEF PublicRequest, Idle, Sound, Bookings, Offering
  <2> QED
    BY <1>1, <2>1, <2>2, FurtherStep DEF BeginCreatePublic
<1>2. CASE BeginCreateManual(r)
  <2>1. PICK s \in Services, p \in Professionals, t \in StartTimes,
             st \in {"PENDING", "CONFIRMED"}, mode \in Modes :
          /\ StaffAccepts(s, p)
          /\ req' = [req EXCEPT ![r] = ManualRequest(s, p, t, st, mode)]
    BY <1>2 DEF BeginCreateManual
  <2>2. staff[p] # "deleted"
    BY <2>1 DEF StaffAccepts, Offering
  <2>3. Sound(ManualRequest(s, p, t, st, mode))
    BY <2>2 DEF ManualRequest, Idle, Sound, Bookings
  <2> QED
    BY <1>2, <2>1, <2>3, FurtherStep DEF BeginCreateManual
<1>3. CASE Resolve(r)
  <2>1. PICK q \in {Idle} \cup {[req[r] EXCEPT !.step = "commit", !.prof = p,
                                   !.cands = {}] : p \in req[r].cands} :
          req' = [req EXCEPT ![r] = q]
    BY <1>3 DEF Resolve, LeastLoaded
  <2>2. req[r] \in Request /\ Legit(req[r]) /\ req[r].step = "resolve"
    BY <1>3 DEF Resolve, IInv, TypeOK, LegitRequests
  <2>3. Sound(req[r]) /\ req[r].op \in Bookings
    BY <2>2 DEF Orderly, Legit
  <2>4. Sound(q)
    <3>1. ASSUME NEW p \in req[r].cands,
                 q = [req[r] EXCEPT !.step = "commit", !.prof = p, !.cands = {}]
          PROVE  Sound(q)
      <4>1. /\ q.op = req[r].op /\ q.step = "commit" /\ q.prof = p
            /\ q.keep = req[r].keep /\ q.appt = req[r].appt
        BY <2>2, <3>1 DEF Request
      <4>2. staff[p] # "deleted"
        BY <2>2, <2>3 DEF Sound
      <4> QED
        BY <2>3, <4>1, <4>2 DEF Sound, Bookings
    <3> QED
      BY <3>1, IdleSound
  <2> QED
    BY <1>3, <2>1, <2>4, FurtherStep DEF Resolve
<1>4. CASE CommitCreate(r)
  <2> DEFINE row == [prof |-> req[r].prof, svc |-> req[r].svc,
                     start |-> req[r].start,
                     end |-> req[r].start + req[r].len,
                     dur |-> req[r].len, status |-> req[r].to]
  <2>1. row \in Row
    BY <1>4, CreateRow DEF CommitCreate
  <2>2. staff[row.prof] # "deleted"
    BY <1>4 DEF CommitCreate, Creating, Orderly, Sound, Bookings
  <2>3. /\ UNCHANGED <<staff, now>> /\ req' = [req EXCEPT ![r] = Idle]
        /\ UNCHANGED appts \/ \E a \in Appts : appts' = [appts EXCEPT ![a] = row]
    BY <1>4 DEF CommitCreate
  <2> QED
    BY <2>1, <2>2, <2>3, RowStep, FurtherStep, IdleSound
<1> QED
  BY <1>1, <1>2, <1>3, <1>4

LEMMA UpdateOrderly ==
  ASSUME IInv, NEW r \in Requests, Orderly(r),
         ReadForUpdate(r) \/ UpdateContext(r) \/ CommitUpdate(r)
  PROVE  Orderly(r)'
<1>1. CASE ReadForUpdate(r)
  <2>1. PICK a \in Booked, s \in Services, p \in Professionals,
             t \in StartTimes, mode \in Modes :
          req' = [req EXCEPT ![r] = MoveRequest(a, s, p, t, mode)]
    BY <1>1 DEF ReadForUpdate
  <2>2. Sound(MoveRequest(a, s, p, t, mode))
    BY DEF MoveRequest, Idle, Sound, Bookings
  <2> QED
    BY <1>1, <2>1, <2>2, FurtherStep DEF ReadForUpdate
<1>2. CASE UpdateContext(r)
  <2> DEFINE q == [req[r] EXCEPT !.step = AfterContext(req[r].mode),
                                 !.cands = {req[r].prof},
                                 !.len = services[req[r].svc].dur]
  <2>1. req[r] \in Request /\ req[r].op = "update" /\ Sound(req[r])
    BY <1>2 DEF UpdateContext, IInv, TypeOK, Orderly
  <2>2. CASE /\ StaffAccepts(req[r].svc, req[r].prof)
             /\ req' = [req EXCEPT ![r] = q]
    <3>1. staff[req[r].prof] # "deleted"
      BY <2>2 DEF StaffAccepts, Offering
    <3>2. /\ q.op = "update" /\ q.prof = req[r].prof /\ q.cands = {req[r].prof}
          /\ q.keep = req[r].keep /\ q.appt = req[r].appt
      BY <2>1 DEF Request
    <3> HIDE DEF q
    <3>3. Sound(q)
      BY <2>1, <3>1, <3>2 DEF Sound
    <3> QED
      BY <1>2, <2>2, <3>3, FurtherStep DEF UpdateContext
  <2>3. CASE req' = [req EXCEPT ![r] = Idle]
    BY <1>2, <2>3, FurtherStep, IdleSound DEF UpdateContext
  <2> QED
    BY <1>2, <2>2, <2>3 DEF UpdateContext
<1>3. CASE CommitUpdate(r)
  <2> DEFINE a == req[r].appt
             dur == IF req[r].keep = 0 THEN req[r].len ELSE req[r].keep
             row == [prof |-> req[r].prof, svc |-> req[r].svc,
                     start |-> req[r].start, end |-> req[r].start + dur,
                     dur |-> IF req[r].keep = 0 THEN dur ELSE appts[a].dur,
                     status |-> appts[a].status]
  <2>1. a \in Appts /\ row \in Row
    BY <1>3, UpdateRow DEF CommitUpdate
  <2>2. row.end = row.start + row.dur /\ staff[row.prof] # "deleted"
    BY <1>3 DEF CommitUpdate, Orderly, Sound, Bookings
  <2>3. /\ UNCHANGED <<staff, now>> /\ req' = [req EXCEPT ![r] = Idle]
        /\ UNCHANGED appts \/ appts' = [appts EXCEPT ![a] = row]
    BY <1>3 DEF CommitUpdate
  <2> HIDE DEF row
  <2> QED
    BY <2>1, <2>2, <2>3, RowStep, FurtherStep, IdleSound
<1> QED
  BY <1>1, <1>2, <1>3

LEMMA StatusOrderly ==
  ASSUME IInv, NEW r \in Requests, Orderly(r),
         \/ ReadForCancel(r) \/ ReadForStatus(r) \/ ReadForPayment(r)
         \/ CommitStatus(r)
  PROVE  Orderly(r)'
<1>1. ASSUME NEW a \in Booked, NEW to \in Statuses,
             CanTransition(appts[a].status, to), DecideStatus(r, a, to)
      PROVE  Orderly(r)'
  <2> DEFINE q == [Idle EXCEPT !.op = "status", !.step = "commit",
                     !.appt = a, !.to = to]
  <2>1. Sound(q)
    BY <1>1 DEF Idle, Sound, Bookings
  <2> QED
    BY <1>1, <2>1, FurtherStep DEF DecideStatus
<1>2. CASE ReadForCancel(r)
  BY <1>1, <1>2, Transitions DEF ReadForCancel, canCancel, Statuses
<1>3. CASE ReadForStatus(r)
  BY <1>1, <1>3 DEF ReadForStatus
<1>4. CASE ReadForPayment(r)
  BY <1>1, <1>4, Transitions DEF ReadForPayment, Statuses
<1>5. CASE CommitStatus(r)
  <2> DEFINE a == req[r].appt
             row == [appts[a] EXCEPT !.status = req[r].to]
  <2>1. /\ a \in Booked /\ req[r].to \in Statuses
        /\ CanTransition(appts[a].status, req[r].to)
    BY <1>5 DEF CommitStatus, IInv, LegitRequests, Legit, Orderly, Sound
  <2>2. appts[a] \in Row /\ a \in Appts
    BY <2>1 DEF IInv, TypeOK, Booked
  <2>3. /\ row \in Row /\ row.end = appts[a].end /\ row.start = appts[a].start
        /\ row.dur = appts[a].dur /\ row.prof = appts[a].prof
    BY <2>1, <2>2 DEF Row
  <2>4. row.end = row.start + row.dur
    BY <2>1, <2>3 DEF Orderly, SnapshotCoherent
  <2>5. row.start >= now => staff[row.prof] # "deleted"
    BY <2>1, <2>3, Transitions DEF Orderly, NoOrphans
  <2>6. /\ UNCHANGED <<staff, now>> /\ req' = [req EXCEPT ![r] = Idle]
        /\ UNCHANGED appts \/ appts' = [appts EXCEPT ![a] = row]
    BY <1>5 DEF CommitStatus
  <2> HIDE DEF row
  <2> QED
    BY <2>2, <2>3, <2>4, <2>5, <2>6, RowStep, FurtherStep, IdleSound
<1> QED
  BY <1>2, <1>3, <1>4, <1>5

LEMMA StaffOrderly ==
  ASSUME IInv, NEW r \in Requests, Orderly(r),
         \/ CountUpcoming(r) \/ RemoveProfessional(r)
         \/ InsertBlock(r) \/ CountConflicts(r) \/ RemoveBlock(r)
  PROVE  Orderly(r)'
<1>1. CASE CountUpcoming(r)
  <2>1. PICK p \in Professionals :
          /\ Commitments(p) = {}
          /\ req' = [req EXCEPT ![r] = [Idle EXCEPT !.op = "remove",
                                          !.step = "commit", !.prof = p]]
    BY <1>1 DEF CountUpcoming
  <2>2. Sound([Idle EXCEPT !.op = "remove", !.step = "commit", !.prof = p])
    BY <2>1 DEF Idle, Sound, Bookings
  <2> QED
    BY <1>1, <2>1, <2>2, FurtherStep DEF CountUpcoming
<1>2. CASE RemoveProfessional(r)
  <2> DEFINE p == req[r].prof
  <2>1. /\ req[r].op = "remove" /\ staff' = [staff EXCEPT ![p] = "deleted"]
        /\ req' = [req EXCEPT ![r] = Idle] /\ UNCHANGED <<appts, now>>
    BY <1>2 DEF RemoveProfessional
  <2>2. Commitments(p) = {}
    BY <2>1 DEF Orderly, Sound
  <2>3. \A q \in Professionals : staff'[q] = "deleted" => staff[q] = "deleted" \/ q = p
    BY <2>1 DEF IInv, TypeOK
  <2>4. \A a \in Booked : appts[a].prof \in Professionals /\ appts[a].status \in Statuses
    BY DEF IInv, TypeOK, Booked, Row
  <2>5. NoOrphans'
    BY <2>1, <2>2, <2>3, <2>4
       DEF Orderly, NoOrphans, Booked, Commitments, Upcoming, Terminal, Statuses
  <2>6. SnapshotCoherent'
    BY <2>1 DEF Orderly, SnapshotCoherent, Booked
  <2>7. req'[r] = Idle
    BY <2>1 DEF IInv, TypeOK
  <2> QED
    BY <2>5, <2>6, <2>7 DEF Orderly, Sound, Idle, Bookings
<1>3. CASE InsertBlock(r)
  <2>1. PICK p \in Professionals \cup {None}, i \in BlockPeriods :
          req' = [req EXCEPT ![r] = [Idle EXCEPT !.op = "timeOff",
                    !.step = "count", !.prof = p, !.start = i[1], !.len = i[2]]]
    BY <1>3 DEF InsertBlock
  <2>2. Sound([Idle EXCEPT !.op = "timeOff", !.step = "count", !.prof = p,
                 !.start = i[1], !.len = i[2]])
    BY DEF Idle, Sound, Bookings
  <2> QED
    BY <1>3, <2>1, <2>2, FurtherStep DEF InsertBlock
<1>4. CASE CountConflicts(r)
  BY <1>4, IdleSound, FurtherStep DEF CountConflicts
<1>5. CASE RemoveBlock(r)
  BY <1>5 DEF RemoveBlock, Orderly, SnapshotCoherent, NoOrphans, Booked, Sound,
              Commitments
<1> QED
  BY <1>1, <1>2, <1>3, <1>4, <1>5

LEMMA CatalogOrderly ==
  ASSUME IInv, NEW r \in Requests, Orderly(r),
         \/ SetServices(r) \/ PauseProfessional(r) \/ EditService(r)
         \/ RemoveService(r) \/ Abort(r)
  PROVE  Orderly(r)'
<1>1. CASE SetServices(r) \/ EditService(r) \/ RemoveService(r)
  BY <1>1 DEF SetServices, EditService, RemoveService, Orderly, SnapshotCoherent,
              NoOrphans, Booked, Sound, Commitments
<1>2. CASE PauseProfessional(r)
  <2>1. /\ UNCHANGED <<appts, now, req>> /\ req[r] = Idle
        /\ \A p \in Professionals : staff'[p] = "deleted" => staff[p] = "deleted"
    BY <1>2 DEF PauseProfessional, IInv, TypeOK
  <2>2. \A a \in Booked : appts[a].prof \in Professionals
    BY DEF IInv, TypeOK, Booked, Row
  <2>3. SnapshotCoherent' /\ NoOrphans'
    BY <2>1, <2>2 DEF Orderly, SnapshotCoherent, NoOrphans, Booked
  <2> QED
    BY <2>1, <2>3 DEF Orderly, Sound, Idle, Bookings
<1>3. CASE Abort(r)
  BY <1>3, IdleSound, FurtherStep DEF Abort
<1> QED
  BY <1>1, <1>2, <1>3

\* Time passes: nothing that is still to come begins to be.
LEMMA TickOrdered == ASSUME IInv, Ordered, Tick PROVE Ordered'
<1>1. /\ UNCHANGED <<appts, staff, req>> /\ now' = now + 1 /\ now \in Nat
  BY DEF Tick, IInv, TypeOK
<1>2. \A a \in Booked : appts[a].start \in Nat
  BY DEF IInv, TypeOK, Booked, Row
<1>3. \A a \in Booked : appts[a].start >= now' => appts[a].start >= now
  BY <1>1, <1>2
<1>4. SnapshotCoherent' /\ NoOrphans'
  BY <1>1, <1>3 DEF Ordered, SnapshotCoherent, NoOrphans, Booked
<1>5. \A p : Commitments(p) = {} => Commitments(p)' = {}
  BY <1>1, <1>3 DEF Commitments, Booked
<1> QED
  BY <1>1, <1>4, <1>5 DEF Ordered, Sound

-----------------------------------------------------------------------------
(* The others, when a request takes a step.                                *)

LEMMA StillSound ==
  ASSUME NEW s \in Requests, Sound(req[s]), req'[s] = req[s],
         UNCHANGED <<appts, now>>,
         \A p \in Professionals :
           staff'[p] = "deleted" /\ staff[p] # "deleted" =>
             /\ req[s].op \in Bookings /\ req[s].step = "resolve" =>
                  p \notin req[s].cands
             /\ req[s].op \in Bookings /\ req[s].step = "commit" =>
                  p # req[s].prof,
         req[s] \in Request, Legit(req[s])
  PROVE  Sound(req[s])'
<1>1. Commitments(req[s].prof)' = Commitments(req[s].prof)
  BY DEF Commitments, Booked
<1>2. req[s].cands \subseteq Professionals
  BY DEF Request
<1>3. req[s].op \in Bookings /\ req[s].step = "commit" =>
        req[s].prof \in Professionals
  BY DEF Legit
<1> QED
  BY <1>1, <1>2, <1>3 DEF Sound

\* A row is written that another request relies on in nothing it changes.
LEMMA OtherRow ==
  ASSUME IInv, NEW s \in Requests, Sound(req[s]), req'[s] = req[s],
         NEW a \in Appts, NEW row \in Row,
         req[s].op = "status" /\ req[s].appt = a => row.status = appts[a].status,
         req[s].op = "update" /\ req[s].appt = a => row.dur = appts[a].dur,
         /\ req[s].op = "remove" /\ row.prof = req[s].prof
         /\ row.start >= now /\ row.status \in Upcoming
         => a \in Commitments(req[s].prof),
         appts' = [appts EXCEPT ![a] = row], UNCHANGED <<staff, now>>
  PROVE  Sound(req[s])'
<1>1. appts'[a] = row /\ \A b \in Appts \ {a} : appts'[b] = appts[b]
  BY DEF IInv, TypeOK
<1>2. req[s].op \in {"update", "status"} => req[s].appt \in Appts
  BY DEF IInv, LegitRequests, Legit, Booked
<1>3. req[s].op = "remove" => Commitments(req[s].prof)' = {}
  BY <1>1 DEF Sound, Commitments, Booked
<1> QED
  BY <1>1, <1>2, <1>3 DEF Sound

LEMMA WritesSound ==
  ASSUME IInv, NEW r \in Requests, NEW s \in Requests, r # s,
         Sound(req[r]), Sound(req[s]), RowsApart,
         CommitCreate(r) \/ CommitUpdate(r) \/ CommitStatus(r)
  PROVE  Sound(req[s])'
<1>1. /\ req'[s] = req[s] /\ UNCHANGED <<staff, now>>
      /\ req[s] \in Request /\ Legit(req[s])
  BY DEF CommitCreate, CommitUpdate, CommitStatus, IInv, TypeOK, LegitRequests
<1>2. CASE UNCHANGED appts
  BY <1>1, <1>2, StillSound
<1>3. /\ ~ SharesRow(req[r], req[s]) /\ ~ SharesStaff(req[s], req[r])
  BY DEF RowsApart
<1>4. CASE CommitCreate(r) /\ ~ UNCHANGED appts
  <2> DEFINE row == [prof |-> req[r].prof, svc |-> req[r].svc,
                     start |-> req[r].start,
                     end |-> req[r].start + req[r].len,
                     dur |-> req[r].len, status |-> req[r].to]
  <2>1. PICK a \in Appts \ Booked : appts' = [appts EXCEPT ![a] = row]
    BY <1>4 DEF CommitCreate
  <2>2. row \in Row
    BY <1>4, CreateRow DEF CommitCreate
  <2>3. req[s].op = "remove" => row.prof # req[s].prof
    BY <1>3, <1>4 DEF SharesStaff, CommitCreate, Creating, Bookings
  <2>4. req[s].op \in {"update", "status"} => req[s].appt # a
    BY <1>1 DEF Legit
  <2> HIDE DEF row
  <2> QED
    BY <1>1, <2>1, <2>2, <2>3, <2>4, OtherRow
<1>5. CASE CommitUpdate(r) /\ ~ UNCHANGED appts
  <2> DEFINE a == req[r].appt
             dur == IF req[r].keep = 0 THEN req[r].len ELSE req[r].keep
             row == [prof |-> req[r].prof, svc |-> req[r].svc,
                     start |-> req[r].start, end |-> req[r].start + dur,
                     dur |-> IF req[r].keep = 0 THEN dur ELSE appts[a].dur,
                     status |-> appts[a].status]
  <2>1. a \in Appts /\ row \in Row
    BY <1>5, UpdateRow DEF CommitUpdate
  <2>2. appts' = [appts EXCEPT ![a] = row] /\ row.status = appts[a].status
    BY <1>5 DEF CommitUpdate
  <2>3. req[s].op = "remove" => row.prof # req[s].prof
    BY <1>3, <1>5 DEF SharesStaff, CommitUpdate, Bookings
  <2>4. req[s].op = "update" => req[s].appt # a
    BY <1>3, <1>5 DEF SharesRow, CommitUpdate
  <2> HIDE DEF row
  <2> QED
    BY <1>1, <2>1, <2>2, <2>3, <2>4, OtherRow
<1>6. CASE CommitStatus(r) /\ ~ UNCHANGED appts
  <2> DEFINE a == req[r].appt
             row == [appts[a] EXCEPT !.status = req[r].to]
  <2>1. /\ a \in Booked /\ a \in Appts /\ appts[a] \in Row
        /\ req[r].to \in Statuses
        /\ CanTransition(appts[a].status, req[r].to)
    BY <1>6 DEF CommitStatus, IInv, TypeOK, LegitRequests, Legit, Sound, Booked
  <2>2. /\ row \in Row /\ row.start = appts[a].start
        /\ row.dur = appts[a].dur /\ row.prof = appts[a].prof
    BY <2>1 DEF Row
  <2>3. appts' = [appts EXCEPT ![a] = row]
    BY <1>6 DEF CommitStatus
  <2>4. appts[a].status \in Upcoming
    BY <2>1, Transitions DEF Row, Upcoming, Terminal, Statuses
  <2>5. req[s].op = "status" => req[s].appt # a
    BY <1>3, <1>6 DEF SharesRow, CommitStatus
  <2>6. row.prof = req[s].prof /\ row.start >= now =>
          a \in Commitments(req[s].prof)
    BY <2>1, <2>2, <2>4 DEF Commitments
  <2> HIDE DEF row
  <2> QED
    BY <1>1, <2>1, <2>2, <2>3, <2>5, <2>6, OtherRow
<1> QED
  BY <1>2, <1>4, <1>5, <1>6

\* A step of request r, whichever it is.
Act(r) ==
  \/ BeginCreatePublic(r) \/ BeginCreateManual(r)
  \/ Resolve(r) \/ CommitCreate(r)
  \/ ReadForUpdate(r) \/ UpdateContext(r) \/ CommitUpdate(r)
  \/ ReadForCancel(r) \/ ReadForStatus(r) \/ ReadForPayment(r)
  \/ CommitStatus(r)
  \/ CountUpcoming(r) \/ RemoveProfessional(r)
  \/ InsertBlock(r) \/ CountConflicts(r) \/ RemoveBlock(r)
  \/ SetServices(r) \/ PauseProfessional(r)
  \/ EditService(r) \/ RemoveService(r)
  \/ Abort(r)

LEMMA OthersSound ==
  ASSUME IInv, NEW r \in Requests, NEW s \in Requests, r # s,
         Sound(req[r]), Sound(req[s]), RowsApart, Act(r)
  PROVE  Sound(req[s])'
<1>1. req[s] \in Request /\ Legit(req[s]) /\ req \in [Requests -> Request]
  BY DEF IInv, TypeOK, LegitRequests
<1>2. CASE \/ BeginCreatePublic(r) \/ BeginCreateManual(r) \/ Resolve(r)
           \/ ReadForUpdate(r) \/ UpdateContext(r)
           \/ ReadForCancel(r) \/ ReadForStatus(r) \/ ReadForPayment(r)
  <2>1. UNCHANGED <<appts, staff, now>> /\ req'[s] = req[s]
    BY <1>1, <1>2
       DEF BeginCreatePublic, BeginCreateManual, Resolve, ReadForUpdate,
           UpdateContext, ReadForCancel, ReadForStatus, ReadForPayment,
           DecideStatus
  <2> QED
    BY <1>1, <2>1, StillSound
<1>3. CASE \/ CountUpcoming(r) \/ InsertBlock(r) \/ CountConflicts(r)
           \/ RemoveBlock(r) \/ SetServices(r) \/ EditService(r)
           \/ RemoveService(r) \/ Abort(r)
  <2>1. UNCHANGED <<appts, staff, now>> /\ req'[s] = req[s]
    BY <1>1, <1>3
       DEF CountUpcoming, InsertBlock, CountConflicts, RemoveBlock, SetServices,
           EditService, RemoveService, Abort
  <2> QED
    BY <1>1, <2>1, StillSound
<1>4. CASE RemoveProfessional(r)
  <2>1. /\ req[r].op = "remove" /\ UNCHANGED <<appts, now>> /\ req'[s] = req[s]
        /\ staff' = [staff EXCEPT ![req[r].prof] = "deleted"]
    BY <1>1, <1>4 DEF RemoveProfessional
  <2>2. \A p \in Professionals :
          staff'[p] = "deleted" /\ staff[p] # "deleted" => p = req[r].prof
    BY <2>1 DEF IInv, TypeOK
  <2>3. ~ SharesStaff(req[r], req[s])
    BY DEF RowsApart
  <2> QED
    BY <1>1, <2>1, <2>2, <2>3, StillSound DEF SharesStaff
<1>5. CASE PauseProfessional(r)
  <2>1. /\ UNCHANGED <<appts, now, req>>
        /\ \A p \in Professionals : staff'[p] = "deleted" => staff[p] = "deleted"
    BY <1>5 DEF PauseProfessional, IInv, TypeOK
  <2> QED
    BY <1>1, <2>1, StillSound
<1> QED
  BY <1>2, <1>3, <1>4, <1>5, WritesSound DEF Act

LEMMA OrderedKept ==
  ASSUME IInv, Ordered, RowsApart, [Next]_vars
  PROVE  Ordered'
<1>1. CASE UNCHANGED vars
  BY <1>1 DEF vars, Ordered, SnapshotCoherent, NoOrphans, Booked, Sound, Commitments
<1>2. CASE Tick
  BY <1>2, TickOrdered
<1>3. ASSUME NEW r \in Requests, Act(r)
      PROVE  Ordered'
  <2>1. Orderly(r) /\ Sound(req[r])
    BY DEF Ordered, Orderly
  <2>2. Orderly(r)'
    BY <1>3, <2>1, CreateOrderly, UpdateOrderly, StatusOrderly, StaffOrderly,
       CatalogOrderly DEF Act
  <2>3. ASSUME NEW s \in Requests, s # r PROVE Sound(req[s])'
    <3>1. Sound(req[s])
      BY DEF Ordered
    <3> QED
      BY <1>3, <2>1, <2>3, <3>1, OthersSound
  <2> QED
    BY <2>2, <2>3 DEF Ordered, Orderly
<1> QED
  BY <1>1, <1>2, <1>3 DEF Next, Act

LEMMA OrderedBegins == Init => Ordered
BY IdleSound DEF Init, Ordered, SnapshotCoherent, NoOrphans, Booked

-----------------------------------------------------------------------------
(* The theorems about statuses, durations and staff.                       *)

\* A removed professional keeps no upcoming appointment, as long as nobody is
\* being booked who is also being removed.
THEOREM NobodyIsOrphaned == Spec /\ []RowsApart => []NoOrphans
<1>1. IInv /\ Ordered /\ RowsApart /\ [Next]_vars => Ordered'
  BY OrderedKept
<1>2. Ordered => NoOrphans
  BY DEF Ordered
<1> QED
  BY <1>1, <1>2, OrderedBegins, Invariance, PTL DEF Spec

\* The slot a row holds is always as long as the duration it was sold with,
\* through moves that keep the service and moves that change it, as long as
\* no two moves of one appointment run together.
THEOREM SnapshotsHold == Spec /\ []RowsApart => []SnapshotCoherent
<1>1. IInv /\ Ordered /\ RowsApart /\ [Next]_vars => Ordered'
  BY OrderedKept
<1>2. Ordered => SnapshotCoherent
  BY DEF Ordered
<1> QED
  BY <1>1, <1>2, OrderedBegins, Invariance, PTL DEF Spec

\* A completed, cancelled or missed appointment never changes status again,
\* as long as no two changes of its status run together.
THEOREM TerminalStays == Spec /\ []RowsApart => TerminalIsFinal
<1> DEFINE Stays ==
      \A a \in Booked :
        appts[a].status \in Terminal => appts'[a].status = appts[a].status
<1>1. IInv /\ Ordered /\ RowsApart /\ [Next]_vars => Ordered'
  BY OrderedKept
<1>2. IInv /\ Ordered /\ [Next]_vars => [Stays]_vars
  <2> SUFFICES ASSUME IInv, Ordered, Next PROVE Stays
    OBVIOUS
  <2>1. CASE UNCHANGED appts
    BY <2>1
  <2>2. ASSUME NEW r \in Requests, CommitCreate(r) PROVE Stays
    BY <2>2 DEF CommitCreate, IInv, TypeOK, Booked
  <2>3. ASSUME NEW r \in Requests, CommitUpdate(r) PROVE Stays
    BY <2>3 DEF CommitUpdate, IInv, TypeOK, Booked
  <2>4. ASSUME NEW r \in Requests, CommitStatus(r) PROVE Stays
    <3> DEFINE b == req[r].appt
               row == [appts[b] EXCEPT !.status = req[r].to]
    <3>1. /\ b \in Booked /\ req[r].to \in Statuses
          /\ CanTransition(appts[b].status, req[r].to)
      BY <2>4 DEF CommitStatus, IInv, LegitRequests, Legit, Ordered, Sound
    <3>2. appts[b].status \notin Terminal
      BY <3>1, Transitions
    <3>3. UNCHANGED appts \/ appts' = [appts EXCEPT ![b] = row]
      BY <2>4 DEF CommitStatus
    <3> QED
      BY <3>2, <3>3 DEF IInv, TypeOK, Booked
  <2> HIDE DEF Stays
  <2>5. ASSUME NEW r \in Requests, Act(r) PROVE Stays
    BY <2>1, <2>2, <2>3, <2>4, <2>5
       DEF Act, BeginCreatePublic, BeginCreateManual, Resolve, ReadForUpdate,
           UpdateContext, ReadForCancel, ReadForStatus, ReadForPayment,
           DecideStatus, CountUpcoming, RemoveProfessional, InsertBlock,
           CountConflicts, RemoveBlock, SetServices, PauseProfessional,
           EditService, RemoveService, Abort
  <2> QED
    BY <2>1, <2>5 DEF Next, Act, Tick
<1>3. Spec /\ []RowsApart => [][Stays]_vars
  <2> HIDE DEF Stays
  <2> QED
    BY <1>1, <1>2, OrderedBegins, Invariance, PTL DEF Spec
<1> QED
  BY <1>3 DEF TerminalIsFinal

-----------------------------------------------------------------------------
(* Buffers and time off, when no service is edited.                        *)

\* Nothing that is taken, buffer included, is in the way.
Clear(p, start, end, exclude) ==
  \A i \in Taken(p, exclude) : ~ Intersect(start, end, i[1] - Buffer, i[2] + Buffer)

\* What a request that books has read of its service and of the day.
Careful(q) ==
  /\ q.op \in Bookings /\ q.step \in {"resolve", "commit"} =>
       q.len = services[q.svc].dur
  /\ q.op = "update" /\ q.keep # 0 => q.keep = services[q.svc].dur
  /\ q.op \in {"createPublic", "createManual"} => q.appt = None
  /\ q.op \in Bookings /\ q.step = "commit" /\ q.mode # "force" =>
       Clear(q.prof, q.start, q.start + q.len, q.appt)

\* The request is about to count the conflicts of block b.
Counting(q, b) ==
  /\ q.op = "timeOff" /\ q.step = "count"
  /\ b = [prof |-> q.prof, start |-> q.start, end |-> q.len]

SoldAsNow == \A a \in Booked : appts[a].dur = services[appts[a].svc].dur

\* What a block covers was told, or is about to be, unless handlers die.
Told ==
  \/ "abort" \in Endpoints
  \/ \A a \in Checked, b \in blocks :
       Covers(b, a) =>
         <<b, a>> \in warned \/ \E t \in Requests : Counting(req[t], b)

Calm(r) == SoldAsNow /\ BufferKept /\ Told /\ Careful(req[r])

AllCalm ==
  /\ SoldAsNow /\ BufferKept /\ Told
  /\ \A r \in Requests : Careful(req[r])

LEMMA IdleCareful == Careful(Idle) /\ \A b : ~ Counting(Idle, b)
BY DEF Idle, Careful, Counting, Bookings

\* The requests about to count stay so when another one goes further.
LEMMA StillCounting ==
  ASSUME IInv, NEW r \in Requests, NEW q, req' = [req EXCEPT ![r] = q],
         req[r].op # "timeOff", NEW b, \E t \in Requests : Counting(req[t], b)
  PROVE  \E t \in Requests : Counting(req'[t], b)
<1>1. PICK t \in Requests : Counting(req[t], b)
  OBVIOUS
<1>2. t # r
  BY <1>1 DEF Counting
<1>3. req'[t] = req[t]
  BY <1>2 DEF IInv, TypeOK
<1> QED
  BY <1>1, <1>3

\* A step that only takes a request further, which was not about time off.
LEMMA FurtherCalm ==
  ASSUME IInv, NEW r \in Requests, Calm(r), NEW q, Careful(q),
         \/ req[r].op # "timeOff"
         \/ "abort" \in Endpoints,
         req' = [req EXCEPT ![r] = q],
         UNCHANGED <<appts, services, blocks, forced, warned>>
  PROVE  Calm(r)'
<1>1. req'[r] = q
  BY DEF IInv, TypeOK
<1>2. Careful(req[r])'
  BY <1>1 DEF Careful, Clear, Taken, Booked
<1>3. SoldAsNow' /\ BufferKept' /\ Checked' = Checked
  BY DEF Calm, SoldAsNow, BufferKept, Checked, Booked
<1>4. Told'
  <2> SUFFICES ASSUME "abort" \notin Endpoints, NEW a \in Checked,
                      NEW b \in blocks, Covers(b, a), <<b, a>> \notin warned
               PROVE  \E t \in Requests : Counting(req'[t], b)
    BY <1>3 DEF Told, Counting, Covers
  <2>1. \E t \in Requests : Counting(req[t], b)
    BY DEF Calm, Told
  <2> QED
    BY <2>1, StillCounting
<1> QED
  BY <1>2, <1>3, <1>4 DEF Calm

\* A slot is written that the engine found clear, or with force.
LEMMA SlotCalm ==
  ASSUME IInv, NEW r \in Requests, Calm(r), NEW a \in Appts, NEW row \in Row,
         NEW x, x = a \/ (x = None /\ a \notin Booked),
         req[r].op # "timeOff",
         row.dur = services[row.svc].dur,
         a \in forced' \/ Clear(row.prof, row.start, row.end, x),
         \A b \in Appts \ {a} : b \in forced <=> b \in forced',
         appts' = [appts EXCEPT ![a] = row], req' = [req EXCEPT ![r] = Idle],
         UNCHANGED <<services, blocks, warned>>
  PROVE  Calm(r)'
<1>1. req'[r] = Idle
  BY DEF IInv, TypeOK
<1>2. Careful(req[r])'
  BY <1>1 DEF Careful, Idle, Bookings
<1>3. appts'[a] = row /\ \A b \in Appts \ {a} : appts'[b] = appts[b]
  BY DEF IInv, TypeOK
<1>4. SoldAsNow'
  BY <1>3 DEF Calm, SoldAsNow, Booked
<1>5. \A b \in Checked' : b # a => b \in Checked /\ b \in Appts /\ b \in Booked \ {x}
  BY <1>3, NoneAssumption DEF Checked, Booked
<1>6. \A b \in Checked' : b # a /\ a \in Checked' /\ appts'[b].prof = row.prof =>
        \/ row.end + Buffer <= appts'[b].start
        \/ appts'[b].end + Buffer <= row.start
  <2> SUFFICES ASSUME NEW b \in Checked', b # a, a \in Checked',
                      appts'[b].prof = row.prof
               PROVE  \/ row.end + Buffer <= appts'[b].start
                      \/ appts'[b].end + Buffer <= row.start
    OBVIOUS
  <2>1. Clear(row.prof, row.start, row.end, x)
    BY DEF Checked
  <2>2. appts'[b] = appts[b] /\ appts[b] \in Row
    BY <1>3, <1>5 DEF IInv, TypeOK, Booked
  <2>3. <<appts[b].start, appts[b].end>> \in Taken(row.prof, x)
    BY <1>5, <2>2 DEF Taken, Checked
  <2>4. ~ Intersect(row.start, row.end, appts[b].start - Buffer, appts[b].end + Buffer)
    BY <2>1, <2>3 DEF Clear
  <2>5. /\ row.start \in Nat /\ row.end \in Nat /\ Buffer \in Nat
        /\ appts[b].start \in Nat /\ appts[b].end \in Nat
    BY <2>2, TimesAssumption DEF Row
  <2> QED
    BY <2>2, <2>4, <2>5 DEF Intersect
<1>7. BufferKept'
  <2> SUFFICES ASSUME NEW b \in Checked', NEW c \in Checked', b # c,
                      appts'[b].prof = appts'[c].prof
               PROVE  \/ appts'[b].end + Buffer <= appts'[c].start
                      \/ appts'[c].end + Buffer <= appts'[b].start
    BY DEF BufferKept
  <2>1. CASE b = a
    BY <1>3, <1>6, <2>1
  <2>2. CASE c = a
    BY <1>3, <1>6, <2>2
  <2>3. CASE b # a /\ c # a
    BY <1>3, <1>5, <2>3 DEF Calm, BufferKept
  <2> QED
    BY <2>1, <2>2, <2>3
<1>8. Told'
  <2> SUFFICES ASSUME "abort" \notin Endpoints, NEW c \in Checked',
                      NEW b \in blocks, Covers(b, c)', <<b, c>> \notin warned
               PROVE  \E t \in Requests : Counting(req'[t], b)
    BY DEF Told, Counting
  <2>1. CASE c = a
    <3>1. Clear(row.prof, row.start, row.end, x)
      BY <2>1 DEF Checked
    <3>2. /\ b.prof \in {row.prof, None}
          /\ Intersect(b.start, b.end, row.start, row.end)
      BY <1>3, <2>1 DEF Covers
    <3>3. <<b.start, b.end>> \in Taken(row.prof, x)
      BY <3>2 DEF Taken
    <3>4. ~ Intersect(row.start, row.end, b.start - Buffer, b.end + Buffer)
      BY <3>1, <3>3 DEF Clear
    <3>5. /\ row.start \in Nat /\ row.end \in Nat /\ Buffer \in Nat
          /\ b.start \in Nat /\ b.end \in Nat
      BY TimesAssumption DEF Row, IInv, TypeOK, Block
    <3> QED
      BY <3>2, <3>4, <3>5 DEF Intersect
  <2>2. CASE c # a
    <3>1. c \in Checked /\ appts'[c] = appts[c]
      BY <1>3, <1>5, <2>2
    <3>2. Covers(b, c)
      BY <3>1 DEF Covers
    <3>3. \E t \in Requests : Counting(req[t], b)
      BY <3>1, <3>2 DEF Calm, Told
    <3> QED
      BY <3>3, StillCounting
  <2> QED
    BY <2>1, <2>2
<1> QED
  BY <1>2, <1>4, <1>7, <1>8 DEF Calm

LEMMA CreateCalm ==
  ASSUME IInv, NEW r \in Requests, Calm(r),
         \/ BeginCreatePublic(r) \/ BeginCreateManual(r)
         \/ Resolve(r) \/ CommitCreate(r)
  PROVE  Calm(r)'
<1>1. CASE BeginCreatePublic(r)
  <2>1. PICK s \in Services, t \in StartTimes, cands \in SUBSET Professionals :
          req' = [req EXCEPT ![r] = PublicRequest(s, t, cands)]
    BY <1>1 DEF BeginCreatePublic, Offering
  <2>2. Careful(PublicRequest(s, t, cands))
    BY DEF PublicRequest, Idle, Careful, Bookings
  <2>3. req[r].op # "timeOff"
    BY <1>1 DEF BeginCreatePublic, Idle
  <2> QED
    BY <1>1, <2>1, <2>2, <2>3, FurtherCalm DEF BeginCreatePublic
<1>2. CASE BeginCreateManual(r)
  <2>1. PICK s \in Services, p \in Professionals, t \in StartTimes,
             st \in {"PENDING", "CONFIRMED"}, mode \in Modes :
          req' = [req EXCEPT ![r] = ManualRequest(s, p, t, st, mode)]
    BY <1>2 DEF BeginCreateManual
  <2>2. Careful(ManualRequest(s, p, t, st, mode))
    BY DEF ManualRequest, Idle, Careful, Bookings, AfterContext
  <2>3. req[r].op # "timeOff"
    BY <1>2 DEF BeginCreateManual, Idle
  <2> QED
    BY <1>2, <2>1, <2>2, <2>3, FurtherCalm DEF BeginCreateManual
<1>3. CASE Resolve(r)
  <2>1. req[r] \in Request /\ req[r].step = "resolve" /\ req[r].op \in Bookings
    BY <1>3 DEF Resolve, IInv, TypeOK, LegitRequests, Legit
  <2>2. req[r].op # "timeOff" /\ Careful(req[r])
    BY <2>1 DEF Bookings, Calm
  <2>3. CASE req' = [req EXCEPT ![r] = Idle]
    BY <1>3, <2>2, <2>3, IdleCareful, FurtherCalm DEF Resolve
  <2>4. ASSUME NEW p,
               Bookable(p, req[r].start, req[r].len,
                        req[r].op = "createPublic", req[r].appt),
               req' = [req EXCEPT ![r] =
                 [req[r] EXCEPT !.step = "commit", !.prof = p, !.cands = {}]]
        PROVE  Calm(r)'
    <3> DEFINE q == [req[r] EXCEPT !.step = "commit", !.prof = p, !.cands = {}]
    <3>1. /\ q.op = req[r].op /\ q.step = "commit" /\ q.prof = p
          /\ q.keep = req[r].keep /\ q.appt = req[r].appt /\ q.svc = req[r].svc
          /\ q.start = req[r].start /\ q.len = req[r].len
      BY <2>1 DEF Request
    <3>2. Clear(p, req[r].start, req[r].start + req[r].len, req[r].appt)
      BY <2>4 DEF Bookable, Clear
    <3>3. req' = [req EXCEPT ![r] = q]
      BY <2>4
    <3> HIDE DEF q
    <3>4. Careful(q)
      BY <2>1, <2>2, <3>1, <3>2 DEF Careful
    <3> QED
      BY <1>3, <2>2, <3>3, <3>4, FurtherCalm DEF Resolve
  <2> QED
    BY <1>3, <2>3, <2>4 DEF Resolve, LeastLoaded
<1>4. CASE CommitCreate(r)
  <2> DEFINE row == [prof |-> req[r].prof, svc |-> req[r].svc,
                     start |-> req[r].start,
                     end |-> req[r].start + req[r].len,
                     dur |-> req[r].len, status |-> req[r].to]
  <2>1. row \in Row
    BY <1>4, CreateRow DEF CommitCreate
  <2>2. /\ req[r].op \in {"createPublic", "createManual"}
        /\ req[r].step = "commit" /\ req[r].op # "timeOff"
    BY <1>4 DEF CommitCreate, Creating
  <2>3. /\ row.dur = services[row.svc].dur /\ req[r].appt = None
        /\ req[r].mode # "force" => Clear(row.prof, row.start, row.end, None)
    BY <2>2 DEF Calm, Careful, Bookings
  <2>4. /\ UNCHANGED <<services, blocks, warned>>
        /\ req' = [req EXCEPT ![r] = Idle]
        /\ \/ UNCHANGED <<appts, forced>>
           \/ \E a \in Appts \ Booked :
                /\ appts' = [appts EXCEPT ![a] = row]
                /\ forced' = IF req[r].mode = "force" THEN forced \cup {a} ELSE forced
    BY <1>4 DEF CommitCreate
  <2>5. CASE UNCHANGED <<appts, forced>>
    BY <2>2, <2>4, <2>5, IdleCareful, FurtherCalm
  <2>6. ASSUME NEW a \in Appts \ Booked,
               appts' = [appts EXCEPT ![a] = row],
               forced' = IF req[r].mode = "force" THEN forced \cup {a} ELSE forced
        PROVE  Calm(r)'
    <3>1. a \in forced' \/ Clear(row.prof, row.start, row.end, None)
      BY <2>3, <2>6
    <3>2. \A b \in Appts \ {a} : b \in forced <=> b \in forced'
      BY <2>6
    <3> HIDE DEF row
    <3> QED
      BY <2>1, <2>2, <2>3, <2>4, <2>6, <3>1, <3>2, SlotCalm
  <2> QED
    BY <2>4, <2>5, <2>6
<1> QED
  BY <1>1, <1>2, <1>3, <1>4

LEMMA UpdateCalm ==
  ASSUME IInv, NEW r \in Requests, Orderly(r), Calm(r),
         ReadForUpdate(r) \/ UpdateContext(r) \/ CommitUpdate(r)
  PROVE  Calm(r)'
<1>1. CASE ReadForUpdate(r)
  <2>1. PICK a \in Booked, s \in Services, p \in Professionals,
             t \in StartTimes, mode \in Modes :
          req' = [req EXCEPT ![r] = MoveRequest(a, s, p, t, mode)]
    BY <1>1 DEF ReadForUpdate
  <2>2. Careful(MoveRequest(a, s, p, t, mode))
    BY DEF MoveRequest, Idle, Careful, Bookings, Calm, SoldAsNow
  <2>3. req[r].op # "timeOff"
    BY <1>1 DEF ReadForUpdate, Idle
  <2> QED
    BY <1>1, <2>1, <2>2, <2>3, FurtherCalm DEF ReadForUpdate
<1>2. CASE UpdateContext(r)
  <2> DEFINE q == [req[r] EXCEPT !.step = AfterContext(req[r].mode),
                                 !.cands = {req[r].prof},
                                 !.len = services[req[r].svc].dur]
  <2>1. req[r] \in Request /\ req[r].op = "update" /\ Careful(req[r])
    BY <1>2 DEF UpdateContext, IInv, TypeOK, Calm
  <2>2. CASE req' = [req EXCEPT ![r] = q]
    <3>1. /\ q.op = "update" /\ q.svc = req[r].svc /\ q.keep = req[r].keep
          /\ q.len = services[req[r].svc].dur /\ q.mode = req[r].mode
          /\ q.step = "commit" => q.mode = "force"
      BY <2>1 DEF Request, AfterContext
    <3> HIDE DEF q
    <3>2. Careful(q)
      BY <2>1, <3>1 DEF Careful
    <3> QED
      BY <1>2, <2>1, <2>2, <3>2, FurtherCalm DEF UpdateContext
  <2>3. CASE req' = [req EXCEPT ![r] = Idle]
    BY <1>2, <2>1, <2>3, FurtherCalm, IdleCareful DEF UpdateContext
  <2> QED
    BY <1>2, <2>2, <2>3 DEF UpdateContext
<1>3. CASE CommitUpdate(r)
  <2> DEFINE a == req[r].appt
             dur == IF req[r].keep = 0 THEN req[r].len ELSE req[r].keep
             row == [prof |-> req[r].prof, svc |-> req[r].svc,
                     start |-> req[r].start, end |-> req[r].start + dur,
                     dur |-> IF req[r].keep = 0 THEN dur ELSE appts[a].dur,
                     status |-> appts[a].status]
  <2>1. a \in Appts /\ row \in Row
    BY <1>3, UpdateRow DEF CommitUpdate
  <2>2. /\ req[r].op = "update" /\ req[r].step = "commit"
        /\ req[r].op # "timeOff"
    BY <1>3 DEF CommitUpdate
  <2>3. dur = req[r].len /\ dur = services[req[r].svc].dur
    BY <2>2 DEF Calm, Careful, Bookings
  <2>4. row.dur = services[row.svc].dur
    BY <2>2, <2>3 DEF Orderly, Sound
  <2>5. req[r].mode # "force" => Clear(row.prof, row.start, row.end, a)
    BY <2>2, <2>3 DEF Calm, Careful, Bookings
  <2>6. /\ UNCHANGED <<services, blocks, warned>>
        /\ req' = [req EXCEPT ![r] = Idle]
        /\ \/ UNCHANGED <<appts, forced>>
           \/ /\ appts' = [appts EXCEPT ![a] = row]
              /\ forced' = IF req[r].mode = "force" THEN forced \cup {a}
                                                    ELSE forced \ {a}
    BY <1>3 DEF CommitUpdate
  <2>7. CASE UNCHANGED <<appts, forced>>
    BY <2>2, <2>6, <2>7, IdleCareful, FurtherCalm
  <2>8. CASE /\ appts' = [appts EXCEPT ![a] = row]
             /\ forced' = IF req[r].mode = "force" THEN forced \cup {a}
                                                   ELSE forced \ {a}
    <3>1. a \in forced' \/ Clear(row.prof, row.start, row.end, a)
      BY <2>5, <2>8
    <3>2. \A b \in Appts \ {a} : b \in forced <=> b \in forced'
      BY <2>8
    <3> HIDE DEF row
    <3> QED
      BY <2>1, <2>2, <2>4, <2>6, <2>8, <3>1, <3>2, SlotCalm
  <2> QED
    BY <2>6, <2>7, <2>8
<1> QED
  BY <1>1, <1>2, <1>3

LEMMA StatusCalm ==
  ASSUME IInv, NEW r \in Requests, Orderly(r), Calm(r),
         \/ ReadForCancel(r) \/ ReadForStatus(r) \/ ReadForPayment(r)
         \/ CommitStatus(r)
  PROVE  Calm(r)'
<1>1. ASSUME NEW a, NEW to, DecideStatus(r, a, to)
      PROVE  Calm(r)'
  <2>1. Careful([Idle EXCEPT !.op = "status", !.step = "commit",
                   !.appt = a, !.to = to])
    BY DEF Idle, Careful, Bookings
  <2>2. req[r].op # "timeOff"
    BY <1>1 DEF DecideStatus, Idle
  <2> QED
    BY <1>1, <2>1, <2>2, FurtherCalm DEF DecideStatus
<1>2. CASE ReadForCancel(r) \/ ReadForStatus(r) \/ ReadForPayment(r)
  BY <1>1, <1>2 DEF ReadForCancel, ReadForStatus, ReadForPayment
<1>3. CASE CommitStatus(r)
  <2> DEFINE a == req[r].appt
             row == [appts[a] EXCEPT !.status = req[r].to]
  <2>1. /\ a \in Booked /\ req[r].to \in Statuses /\ req[r].op # "timeOff"
        /\ CanTransition(appts[a].status, req[r].to)
    BY <1>3 DEF CommitStatus, IInv, LegitRequests, Legit, Orderly, Sound
  <2>2. /\ appts[a] \in Row /\ a \in Appts
        /\ appts[a].status \in ActiveStatuses
    BY <2>1, Transitions
       DEF IInv, TypeOK, Booked, Row, Statuses, Terminal, ActiveStatuses
  <2>3. /\ row.end = appts[a].end /\ row.start = appts[a].start
        /\ row.dur = appts[a].dur /\ row.prof = appts[a].prof
        /\ row.svc = appts[a].svc
    BY <2>2 DEF Row
  <2>4. /\ UNCHANGED <<services, blocks, forced, warned>>
        /\ req' = [req EXCEPT ![r] = Idle]
        /\ UNCHANGED appts \/ appts' = [appts EXCEPT ![a] = row]
    BY <1>3 DEF CommitStatus
  <2>5. CASE appts' = [appts EXCEPT ![a] = row]
    <3>1. \A b \in Booked' :
            /\ b \in Booked
            /\ appts'[b].end = appts[b].end /\ appts'[b].start = appts[b].start
            /\ appts'[b].dur = appts[b].dur /\ appts'[b].prof = appts[b].prof
            /\ appts'[b].svc = appts[b].svc
            /\ b # a => appts'[b].status = appts[b].status
      BY <2>1, <2>2, <2>3, <2>5 DEF IInv, TypeOK, Booked
    <3>2. Checked' \subseteq Checked /\ Checked' \subseteq Booked'
      BY <2>1, <2>2, <2>4, <3>1 DEF Checked
    <3>3. SoldAsNow' /\ BufferKept'
      BY <2>4, <3>1, <3>2 DEF Calm, SoldAsNow, BufferKept
    <3>4. \A b \in blocks, c \in Checked' : Covers(b, c)' => Covers(b, c)
      BY <3>1, <3>2 DEF Covers, Checked
    <3>5. req'[r] = Idle
      BY <2>4 DEF IInv, TypeOK
    <3>6. ASSUME NEW b, \E t \in Requests : Counting(req[t], b)
          PROVE  \E t \in Requests : Counting(req'[t], b)
      BY <2>1, <2>4, <3>6, StillCounting
    <3>7. Told'
      BY <2>4, <3>2, <3>4, <3>6 DEF Calm, Told, Counting
    <3> QED
      BY <3>3, <3>5, <3>7 DEF Calm, Careful, Idle, Bookings
  <2> QED
    BY <2>1, <2>4, <2>5, IdleCareful, FurtherCalm
<1> QED
  BY <1>2, <1>3

LEMMA StaffCalm ==
  ASSUME IInv, NEW r \in Requests, Calm(r),
         \/ CountUpcoming(r) \/ RemoveProfessional(r)
         \/ InsertBlock(r) \/ CountConflicts(r) \/ RemoveBlock(r)
  PROVE  Calm(r)'
<1>1. CASE CountUpcoming(r)
  <2>1. PICK p \in Professionals : req' = [req EXCEPT ![r] =
          [Idle EXCEPT !.op = "remove", !.step = "commit", !.prof = p]]
    BY <1>1 DEF CountUpcoming
  <2>2. Careful([Idle EXCEPT !.op = "remove", !.step = "commit", !.prof = p])
    BY DEF Idle, Careful, Bookings
  <2>3. req[r] = Idle
    BY <1>1 DEF CountUpcoming
  <2>4. req[r].op # "timeOff"
    BY <2>3 DEF Idle
  <2> QED
    BY <1>1, <2>1, <2>2, <2>4, FurtherCalm DEF CountUpcoming
<1>2. CASE RemoveProfessional(r)
  BY <1>2, IdleCareful, FurtherCalm DEF RemoveProfessional
<1>3. CASE InsertBlock(r)
  <2>1. PICK p \in Professionals \cup {None}, i \in BlockPeriods :
          /\ blocks' = blocks \cup {[prof |-> p, start |-> i[1], end |-> i[2]]}
          /\ req' = [req EXCEPT ![r] = [Idle EXCEPT !.op = "timeOff",
               !.step = "count", !.prof = p, !.start = i[1], !.len = i[2]]]
    BY <1>3 DEF InsertBlock
  <2>2. /\ UNCHANGED <<appts, services, forced, warned>> /\ req[r] = Idle
    BY <1>3 DEF InsertBlock
  <2>3. /\ req'[r].op = "timeOff" /\ req'[r].step = "count"
        /\ req'[r].prof = p /\ req'[r].start = i[1] /\ req'[r].len = i[2]
    BY <2>1 DEF Idle, IInv, TypeOK
  <2>4. SoldAsNow' /\ BufferKept' /\ Checked' = Checked
    BY <2>2 DEF Calm, SoldAsNow, BufferKept, Checked, Booked
  <2>5. Told'
    <3> SUFFICES ASSUME "abort" \notin Endpoints, NEW a \in Checked,
                        NEW b \in blocks', Covers(b, a), <<b, a>> \notin warned
                 PROVE  \E t \in Requests : Counting(req'[t], b)
      BY <2>2, <2>4 DEF Told, Counting, Covers
    <3>1. CASE b \in blocks
      <4>1. \E t \in Requests : Counting(req[t], b)
        BY <3>1 DEF Calm, Told
      <4>2. req[r].op # "timeOff"
        BY <2>2 DEF Idle
      <4> QED
        BY <2>1, <4>1, <4>2, StillCounting
    <3>2. CASE b \notin blocks
      <4>1. Counting(req'[r], b)
        BY <2>1, <2>3, <3>2 DEF Counting
      <4> QED
        BY <4>1
    <3> QED
      BY <3>1, <3>2
  <2>6. Careful(req[r])'
    BY <2>3 DEF Careful, Bookings
  <2> QED
    BY <2>4, <2>5, <2>6 DEF Calm
<1>4. CASE CountConflicts(r)
  <2> DEFINE b == [prof |-> req[r].prof, start |-> req[r].start, end |-> req[r].len]
  <2>1. /\ warned' = warned \cup {<<b, a>> : a \in {c \in Booked : Covers(b, c)}}
        /\ req' = [req EXCEPT ![r] = Idle]
        /\ UNCHANGED <<appts, services, blocks, forced>>
    BY <1>4 DEF CountConflicts
  <2>2. SoldAsNow' /\ BufferKept' /\ Checked' = Checked
    BY <2>1 DEF Calm, SoldAsNow, BufferKept, Checked, Booked
  <2>3. Told'
    <3> SUFFICES ASSUME "abort" \notin Endpoints, NEW a \in Checked,
                        NEW c \in blocks, Covers(c, a), <<c, a>> \notin warned'
                 PROVE  \E t \in Requests : Counting(req'[t], c)
      BY <2>1, <2>2 DEF Told, Counting, Covers
    <3>1. ~ Counting(req[r], c)
      BY <2>1 DEF Counting, Checked
    <3>2. PICK t \in Requests : Counting(req[t], c)
      BY <2>1 DEF Calm, Told
    <3>3. req'[t] = req[t]
      BY <2>1, <3>1, <3>2 DEF IInv, TypeOK
    <3> QED
      BY <3>2, <3>3
  <2>4. req'[r] = Idle
    BY <2>1 DEF IInv, TypeOK
  <2> QED
    BY <2>2, <2>3, <2>4 DEF Calm, Careful, Idle, Bookings
<1>5. CASE RemoveBlock(r)
  <2>1. PICK b \in blocks : /\ blocks' = blocks \ {b}
                            /\ warned' = {w \in warned : w[1] # b}
    BY <1>5 DEF RemoveBlock
  <2>2. UNCHANGED <<appts, services, req, forced>> /\ req[r] = Idle
    BY <1>5 DEF RemoveBlock
  <2>3. SoldAsNow' /\ BufferKept' /\ Checked' = Checked
    BY <2>2 DEF Calm, SoldAsNow, BufferKept, Checked, Booked
  <2>4. Told'
    BY <2>1, <2>2, <2>3 DEF Calm, Told, Covers, Counting
  <2> QED
    BY <2>2, <2>3, <2>4 DEF Calm, Careful, Idle, Bookings
<1> QED
  BY <1>1, <1>2, <1>3, <1>4, <1>5

\* Neither the catalogue nor the clock changes what was read of a day.
LEMMA CatalogCalm ==
  ASSUME IInv, AllCalm,
         \/ Tick
         \/ \E r \in Requests :
              SetServices(r) \/ PauseProfessional(r) \/ RemoveService(r)
  PROVE  AllCalm'
<1>1. UNCHANGED <<appts, blocks, req, forced, warned>>
  BY DEF SetServices, PauseProfessional, RemoveService, Tick
<1>2. \A s \in Services : services'[s].dur = services[s].dur
  BY DEF SetServices, PauseProfessional, RemoveService, Tick, IInv, TypeOK
<1>3. /\ \A a \in Booked : appts[a].svc \in Services
      /\ \A r \in Requests : req[r].op \in Bookings => req[r].svc \in Services
  BY DEF IInv, TypeOK, Booked, Row, LegitRequests, Legit
<1>4. BufferKept' /\ Told'
  BY <1>1 DEF AllCalm, BufferKept, Told, Checked, Booked, Covers, Counting
<1>5. SoldAsNow'
  BY <1>1, <1>2, <1>3 DEF AllCalm, SoldAsNow, Booked
<1>6. \A r \in Requests : Careful(req[r])'
  BY <1>1, <1>2, <1>3 DEF AllCalm, Careful, Clear, Taken, Booked, Bookings
<1> QED
  BY <1>4, <1>5, <1>6 DEF AllCalm

\* A handler that dies: nothing was read by it any more.
LEMMA AbortCalm ==
  ASSUME IInv, NEW r \in Requests, Calm(r), Abort(r)
  PROVE  Calm(r)'
BY IdleCareful, FurtherCalm DEF Abort

-----------------------------------------------------------------------------
(* The others, when a request takes a step.                                *)

\* Nothing more is taken of the day another request has found free.
LEMMA StillCareful ==
  ASSUME IInv, NEW s \in Requests, Careful(req[s]), req'[s] = req[s],
         UNCHANGED services,
         req[s].op \in Bookings /\ req[s].step = "commit" =>
           Taken(req[s].prof, req[s].appt)' \subseteq
             Taken(req[s].prof, req[s].appt)
  PROVE  Careful(req[s])'
BY DEF Careful, Clear

\* A row of somebody else's day is written.
LEMMA TakenElsewhere ==
  ASSUME IInv, NEW a \in Appts, NEW row \in Row, NEW p, p # row.prof, NEW x,
         appts' = [appts EXCEPT ![a] = row], UNCHANGED blocks
  PROVE  Taken(p, x)' \subseteq Taken(p, x)
<1>1. appts'[a] = row /\ \A b \in Appts \ {a} : appts'[b] = appts[b]
  BY DEF IInv, TypeOK
<1>2. \A b \in Booked' \ {x} :
        appts'[b].prof = p => b \in Booked \ {x} /\ appts'[b] = appts[b]
  BY <1>1 DEF Booked
<1> QED
  BY <1>2 DEF Taken

LEMMA WritesCareful ==
  ASSUME IInv, NEW r \in Requests, NEW s \in Requests, r # s,
         Sound(req[r]), Careful(req[s]), DaysApart,
         CommitCreate(r) \/ CommitUpdate(r) \/ CommitStatus(r)
  PROVE  Careful(req[s])'
<1>1. req'[s] = req[s] /\ UNCHANGED <<services, blocks>>
  BY DEF CommitCreate, CommitUpdate, CommitStatus, IInv, TypeOK
<1>2. CASE UNCHANGED appts
  BY <1>1, <1>2, StillCareful DEF Taken, Booked
<1>3. ~ SharesDay(req[r], req[s])
  BY DEF DaysApart
<1>4. ASSUME NEW a \in Appts, NEW row \in Row,
             req[r].op \in Bookings, req[r].step = "commit",
             row.prof = req[r].prof, appts' = [appts EXCEPT ![a] = row]
      PROVE  Careful(req[s])'
  <2>1. req[s].op \in Bookings /\ req[s].step = "commit" =>
          req[s].prof # row.prof
    BY <1>3, <1>4 DEF SharesDay
  <2> QED
    BY <1>1, <1>4, <2>1, StillCareful, TakenElsewhere
<1>5. CASE CommitCreate(r) /\ ~ UNCHANGED appts
  <2> DEFINE row == [prof |-> req[r].prof, svc |-> req[r].svc,
                     start |-> req[r].start,
                     end |-> req[r].start + req[r].len,
                     dur |-> req[r].len, status |-> req[r].to]
  <2>1. row \in Row /\ req[r].op \in Bookings /\ req[r].step = "commit"
    BY <1>5, CreateRow DEF CommitCreate, Creating, Bookings
  <2>2. PICK a \in Appts : appts' = [appts EXCEPT ![a] = row]
    BY <1>5 DEF CommitCreate
  <2> QED
    BY <1>4, <2>1, <2>2
<1>6. CASE CommitUpdate(r) /\ ~ UNCHANGED appts
  <2> DEFINE a == req[r].appt
             dur == IF req[r].keep = 0 THEN req[r].len ELSE req[r].keep
             row == [prof |-> req[r].prof, svc |-> req[r].svc,
                     start |-> req[r].start, end |-> req[r].start + dur,
                     dur |-> IF req[r].keep = 0 THEN dur ELSE appts[a].dur,
                     status |-> appts[a].status]
  <2>1. a \in Appts /\ row \in Row
    BY <1>6, UpdateRow DEF CommitUpdate
  <2>2. /\ req[r].op \in Bookings /\ req[r].step = "commit"
        /\ appts' = [appts EXCEPT ![a] = row]
    BY <1>6 DEF CommitUpdate, Bookings
  <2> QED
    BY <1>4, <2>1, <2>2
<1>7. CASE CommitStatus(r) /\ ~ UNCHANGED appts
  <2> DEFINE a == req[r].appt
             row == [appts[a] EXCEPT !.status = req[r].to]
  <2>1. /\ a \in Booked /\ a \in Appts /\ appts[a] \in Row
        /\ req[r].to \in Statuses /\ CanTransition(appts[a].status, req[r].to)
    BY <1>7 DEF CommitStatus, IInv, TypeOK, LegitRequests, Legit, Sound, Booked
  <2>2. appts[a].status \in ActiveStatuses
    BY <2>1, Transitions DEF Row, Statuses, Terminal, ActiveStatuses
  <2>3. /\ row.end = appts[a].end /\ row.start = appts[a].start
        /\ row.prof = appts[a].prof
    BY <2>1 DEF Row
  <2>4. appts' = [appts EXCEPT ![a] = row]
    BY <1>7 DEF CommitStatus
  <2> HIDE DEF row
  <2>5. \A b \in Booked' :
          /\ b \in Booked /\ appts'[b].end = appts[b].end
          /\ appts'[b].start = appts[b].start /\ appts'[b].prof = appts[b].prof
          /\ appts'[b].status \in ActiveStatuses =>
               appts[b].status \in ActiveStatuses
    BY <2>1, <2>2, <2>3, <2>4 DEF IInv, TypeOK, Booked
  <2>6. \A p, x : Taken(p, x)' \subseteq Taken(p, x)
    BY <1>1, <2>5 DEF Taken
  <2> QED
    BY <1>1, <2>6, StillCareful
<1> QED
  BY <1>2, <1>5, <1>6, <1>7

LEMMA OthersCareful ==
  ASSUME IInv, NEW r \in Requests, NEW s \in Requests, r # s,
         Sound(req[r]), Careful(req[s]), DaysApart, DaysApart',
         Act(r), ~ EditService(r), UNCHANGED services
  PROVE  Careful(req[s])'
<1>1. req \in [Requests -> Request]
  BY DEF IInv, TypeOK
<1>2. CASE CommitCreate(r) \/ CommitUpdate(r) \/ CommitStatus(r)
  BY <1>2, WritesCareful
<1>3. CASE InsertBlock(r)
  <2>1. PICK p \in Professionals \cup {None}, i \in BlockPeriods :
          /\ blocks' = blocks \cup {[prof |-> p, start |-> i[1], end |-> i[2]]}
          /\ req' = [req EXCEPT ![r] = [Idle EXCEPT !.op = "timeOff",
               !.step = "count", !.prof = p, !.start = i[1], !.len = i[2]]]
    BY <1>3 DEF InsertBlock
  <2>2. /\ req'[r].op = "timeOff" /\ req'[r].prof = p
        /\ req'[s] = req[s] /\ UNCHANGED appts
    BY <1>1, <1>3, <2>1 DEF Idle, InsertBlock
  <2>3. ~ SharesDay(req'[r], req'[s])
    BY DEF DaysApart, SharesDay
  <2>4. req[s].op \in Bookings /\ req[s].step = "commit" =>
          p \notin {req[s].prof, None}
    BY <2>2, <2>3 DEF SharesDay
  <2>5. p \notin {req[s].prof, None} =>
          Taken(req[s].prof, req[s].appt)' = Taken(req[s].prof, req[s].appt)
    BY <2>1, <2>2 DEF Taken, Booked
  <2> QED
    BY <2>2, <2>4, <2>5, StillCareful
<1>4. CASE RemoveBlock(r)
  <2>1. req'[s] = req[s] /\ UNCHANGED appts /\ blocks' \subseteq blocks
    BY <1>4 DEF RemoveBlock
  <2>2. \A p, x : Taken(p, x)' \subseteq Taken(p, x)
    BY <2>1 DEF Taken, Booked
  <2> QED
    BY <2>1, <2>2, StillCareful
<1>5. CASE \/ BeginCreatePublic(r) \/ BeginCreateManual(r) \/ Resolve(r)
           \/ ReadForUpdate(r) \/ UpdateContext(r)
           \/ ReadForCancel(r) \/ ReadForStatus(r) \/ ReadForPayment(r)
  <2>1. UNCHANGED <<appts, blocks>> /\ req'[s] = req[s]
    BY <1>1, <1>5
       DEF BeginCreatePublic, BeginCreateManual, Resolve, ReadForUpdate,
           UpdateContext, ReadForCancel, ReadForStatus, ReadForPayment,
           DecideStatus
  <2> QED
    BY <2>1, StillCareful DEF Taken, Booked
<1>6. CASE \/ CountUpcoming(r) \/ RemoveProfessional(r) \/ CountConflicts(r)
           \/ SetServices(r) \/ PauseProfessional(r) \/ RemoveService(r)
           \/ Abort(r)
  <2>1. UNCHANGED <<appts, blocks>> /\ req'[s] = req[s]
    BY <1>1, <1>6
       DEF CountUpcoming, RemoveProfessional, CountConflicts, SetServices,
           PauseProfessional, RemoveService, Abort
  <2> QED
    BY <2>1, StillCareful DEF Taken, Booked
<1> QED
  BY <1>2, <1>3, <1>4, <1>5, <1>6 DEF Act

LEMMA AllCalmKept ==
  ASSUME IInv, Ordered, AllCalm, DaysApart, DaysApart',
         "editService" \notin Endpoints, [Next]_vars
  PROVE  AllCalm'
<1>1. CASE UNCHANGED vars
  BY <1>1 DEF vars, AllCalm, SoldAsNow, BufferKept, Told, Counting, Careful, Clear,
              Taken, Checked, Booked, Covers
<1>2. ASSUME NEW r \in Requests, Act(r) PROVE AllCalm'
  <2>1. Orderly(r) /\ Sound(req[r]) /\ Calm(r) /\ ~ EditService(r)
    BY DEF Ordered, Orderly, AllCalm, Calm, EditService
  <2>2. CASE SetServices(r) \/ PauseProfessional(r) \/ RemoveService(r)
    BY <2>2, CatalogCalm
  <2>3. CASE ~ (SetServices(r) \/ PauseProfessional(r) \/ RemoveService(r))
    <3>1. Calm(r)'
      BY <1>2, <2>1, <2>3, CreateCalm, UpdateCalm, StatusCalm, StaffCalm,
         AbortCalm DEF Act
    <3>2. UNCHANGED services
      BY <1>2, <2>1, <2>3
         DEF Act, BeginCreatePublic, BeginCreateManual, Resolve, CommitCreate,
             ReadForUpdate, UpdateContext, CommitUpdate, ReadForCancel,
             ReadForStatus, ReadForPayment, DecideStatus, CommitStatus,
             CountUpcoming, RemoveProfessional, InsertBlock, CountConflicts,
             RemoveBlock, Abort
    <3>3. ASSUME NEW s \in Requests, s # r PROVE Careful(req[s])'
      <4>1. Careful(req[s])
        BY DEF AllCalm
      <4> QED
        BY <1>2, <2>1, <3>2, <3>3, <4>1, OthersCareful
    <3> QED
      BY <3>1, <3>3 DEF AllCalm, Calm
  <2> QED
    BY <2>2, <2>3
<1> QED
  BY <1>1, <1>2, CatalogCalm DEF Next, Act

LEMMA AllCalmBegins == Init => AllCalm
BY IdleCareful DEF Init, AllCalm, SoldAsNow, BufferKept, Told, Checked, Booked

\* Between two appointments the engine accepted there is always the buffer,
\* which the exclusion constraint knows nothing of, as long as services keep
\* their durations and no two bookings of one professional's time, nor a
\* booking and a block, run together.
THEOREM BuffersHold ==
  ASSUME "editService" \notin Endpoints
  PROVE  Spec /\ []RowsApart /\ []DaysApart => []BufferKept
<1>1. IInv /\ Ordered /\ RowsApart /\ [Next]_vars => Ordered'
  BY OrderedKept
<1>2. IInv /\ Ordered /\ AllCalm /\ DaysApart /\ DaysApart' /\ [Next]_vars =>
        AllCalm'
  BY AllCalmKept
<1>3. AllCalm => BufferKept
  BY DEF AllCalm
<1> QED
  BY <1>1, <1>2, <1>3, OrderedBegins, AllCalmBegins, Invariance, PTL DEF Spec

\* Every appointment a block covers is one the panel was told about when the
\* block was made: none is accepted inside it afterwards, as long as besides
\* no handler dies between its block and its count.
THEOREM BlocksHold ==
  ASSUME "editService" \notin Endpoints, "abort" \notin Endpoints
  PROVE  Spec /\ []RowsApart /\ []DaysApart => []BlocksKept
<1>1. IInv /\ Ordered /\ RowsApart /\ [Next]_vars => Ordered'
  BY OrderedKept
<1>2. IInv /\ Ordered /\ AllCalm /\ DaysApart /\ DaysApart' /\ [Next]_vars =>
        AllCalm'
  BY AllCalmKept
<1>3. AllCalm => BlocksKept
  BY DEF AllCalm, Told, Counting, BlocksKept
<1> QED
  BY <1>1, <1>2, <1>3, OrderedBegins, AllCalmBegins, Invariance, PTL DEF Spec
=============================================================================
