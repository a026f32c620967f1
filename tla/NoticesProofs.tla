---------------------------- MODULE NoticesProofs ----------------------------
(***************************************************************************)
(* Theorems about Notices: for every set of appointments, every length of  *)
(* the period and of the reminders' hours, and any number of runs of the   *)
(* job that overlap.                                                       *)
(***************************************************************************)
EXTENDS Notices, FiniteSetTheorems, WellFoundedInduction, TLAPS

\* What is left of an event has somebody to tell.
Addressed == \A i \in inbox : i.to # {}

\* A run is for a moment that came, and what it has in hand lies in the window
\* of the hours it works on, which it will not look at again.
Working(j) ==
  LET q == jobs[j] IN
  /\ Running(j) => IsMoment(q.at) /\ q.at <= begun
  /\ q.due # {} \/ q.mark # None => q.hours \in Hours \ q.left
  /\ \A d \in q.due : InWindow(d.start, q.at, q.hours) /\ rows[d.appt] # None
  /\ q.mark # None => rows[q.mark.appt] # None

\* A moment has one run.
Scheduled ==
  /\ begun <= now
  /\ \A j \in Runs : Working(j)
  /\ \A i, j \in Runs : Running(i) /\ Running(j) /\ jobs[i].at = jobs[j].at => i = j

\* A run may still remind d of h.
Pending(j, d, h) ==
  /\ Running(j)
  /\ h \in jobs[j].left \/ (jobs[j].hours = h /\ d \in jobs[j].due)

\* A reminder that went out did so in the run of its moment, which is done
\* with it.
Closed(d, h) ==
  told[<<d, h>>] # 0 =>
    /\ told[<<d, h>>] = 1
    /\ Moment(d.start, h) <= begun
    /\ \A j \in Runs : jobs[j].at = Moment(d.start, h) => ~ Pending(j, d, h)
Settled == \A d \in Due, h \in Hours : Closed(d, h)

\* An appointment that was there before the moment of one of its hours came is
\* tried, or the run of that moment has yet to come to it.
Considered(a, h) ==
  LET t == Moment(rows[a].start, h)
      d == [appt |-> a, start |-> rows[a].start]
  IN /\ Live(a) /\ rows[a].since < t /\ t >= 0 /\ h \notin rows[a].sent
     /\ t < now \/ t = begun
     /\ t \notin lost
     => \/ <<d, h>> \in tried
        \/ \E j \in Runs : jobs[j].at = t /\ Pending(j, d, h)
Attended == Cardinality(Appts) <= Batch => \A a \in Appts, h \in Hours : Considered(a, h)

IInv == TypeOK /\ NobodyForgotten /\ Addressed /\ Scheduled /\ Settled /\ Attended

-----------------------------------------------------------------------------
(* Moments and windows.                                                     *)

LEMMA Quotient ==
  ASSUME NEW W \in Nat \ {0}, NEW x \in Int
  PROVE  x = W * (x \div W) + (x % W) /\ x \div W \in Int /\ x % W \in 0 .. W - 1
OBVIOUS

LEMMA Multiple ==
  ASSUME NEW W \in Nat \ {0}, NEW k \in Int
  PROVE  (W * k) % W = 0 /\ W * k \in Int
OBVIOUS

LEMMA Multiples ==
  ASSUME NEW W \in Nat \ {0}, NEW x \in Int, x % W = 0
  PROVE  \E k \in Int : x = W * k /\ W * k \in Int
BY Quotient

LEMMA Near ==
  ASSUME NEW W \in Nat \ {0}, NEW k \in Int, NEW l \in Int,
         W * k < W * l + W, W * l < W * k + W
  PROVE  k = l
OBVIOUS

\* Every start has one moment at which it is in the window of an hour.
LEMMA MomentIs ==
  ASSUME Assumptions, NEW start \in Starts, NEW h \in Hours
  PROVE  /\ Moment(start, h) \in Int
         /\ IsMoment(Moment(start, h)) /\ InWindow(start, Moment(start, h), h)
         /\ \A t \in Int : IsMoment(t) /\ InWindow(start, t, h) => t = Moment(start, h)
<1>1. start \in Int /\ h \in Int /\ Width \in Nat \ {0}
  BY DEF Assumptions
<1>2. \E t \in (start - h) .. (start - h + Width - 1) : IsMoment(t)
  <2>0. PICK x \in Int : x = start - h + Width - 1
    BY <1>1
  <2>1. PICK k \in Int, r \in 0 .. Width - 1 : x = Width * k + r
    BY <1>1, Quotient
  <2>2. IsMoment(Width * k) /\ Width * k \in Int
    BY <1>1, Multiple DEF IsMoment
  <2>3. Width * k \in (start - h) .. (start - h + Width - 1)
    BY <1>1, <2>0, <2>1, <2>2
  <2> QED
    BY <2>2, <2>3
<1>3. PICK m : m = Moment(start, h)
  OBVIOUS
<1>4. m \in (start - h) .. (start - h + Width - 1) /\ IsMoment(m)
  BY <1>2, <1>3 DEF Moment
<1>5. m \in Int /\ InWindow(start, m, h)
  BY <1>1, <1>4 DEF InWindow
<1>6. ASSUME NEW t \in Int, IsMoment(t), InWindow(start, t, h)
      PROVE  t = m
  <2>1. PICK k \in Int : t = Width * k /\ Width * k \in Int
    BY <1>1, <1>6, Multiples DEF IsMoment
  <2>2. PICK l \in Int : m = Width * l /\ Width * l \in Int
    BY <1>1, <1>4, <1>5, Multiples DEF IsMoment
  <2>3. Width * k < Width * l + Width /\ Width * l < Width * k + Width
    BY <1>1, <1>5, <1>6, <2>1, <2>2 DEF InWindow
  <2> QED
    BY <1>1, <2>1, <2>2, <2>3, Near
<1> QED
  BY <1>3, <1>4, <1>5, <1>6

\* A finite set has a least of some of its subsets.
LEMMA Smallest ==
  ASSUME NEW S, IsFiniteSet(S), NEW B, B \subseteq SUBSET S, B # {}
  PROVE  \E t \in B : \A u \in SUBSET t : u # t => u \notin B
<1>1. IsWellFoundedOn(StrictSubsetOrdering(S), FiniteSubsetsOf(S)) /\ FiniteSubsetsOf(S) = SUBSET S
  BY FS_StrictSubsetOrderingWellFounded, FS_FiniteSubsetsOfFinite
<1>2. PICK t \in B : \A u \in B : ~ <<u, t>> \in StrictSubsetOrdering(S)
  BY <1>1, WFMin
<1>3. ASSUME NEW u \in SUBSET t, u # t, u \in B
      PROVE  FALSE
  BY <1>2, <1>3 DEF StrictSubsetOrdering
<1> QED
  BY <1>3

\* The longest of the hours a run has left.
LEMMA LongestLeft ==
  ASSUME NEW S, IsFiniteSet(S), S \subseteq Nat, S # {}
  PROVE  Max(S) \in S
<1> DEFINE Tops(T) == \E x \in T : \A y \in T : x >= y
           B == {T \in SUBSET S : T # {} /\ ~ Tops(T)}
<1>1. ASSUME B # {}
      PROVE  FALSE
  <2>1. B \subseteq SUBSET S
    OBVIOUS
  <2>2. PICK T \in B : \A U \in SUBSET T : U # T => U \notin B
    <3> HIDE DEF B
    <3> QED
      BY <1>1, <2>1, Smallest
  <2>4. PICK x \in T : T \in SUBSET S /\ ~ Tops(T)
    BY <2>2
  <2>5. CASE T \ {x} = {}
    BY <2>4, <2>5
  <2>6. CASE T \ {x} # {}
    <3>1. T \ {x} \in SUBSET T /\ T \ {x} # T /\ T \ {x} \in SUBSET S
      BY <2>4
    <3>2. PICK y \in T \ {x} : \A z \in T \ {x} : y >= z
      BY <2>2, <2>6, <3>1
    <3>3. x \in Nat /\ y \in Nat /\ \A z \in T : z \in Nat
      BY <2>4
    <3> QED
      BY <2>4, <3>2, <3>3
  <2> QED
    BY <2>5, <2>6
<1>2. Tops(S)
  BY <1>1
<1> QED
  BY <1>2 DEF Max

-----------------------------------------------------------------------------
(* Events.                                                                  *)

Eventful ==
  /\ inbox \subseteq [event : Notice, to : SUBSET Parties]
  /\ feed \subseteq [event : Notice, read : BOOLEAN]
  /\ NobodyForgotten /\ Addressed

\* Whom the handlers tell is who has to know, for every event that is emitted.
LEMMA EmitKeeps ==
  ASSUME Eventful, NEW e \in Notice, Emit(e), Audience(e) = Concerned(e)
  PROVE  Eventful'
<1>1. Audience(e) \in SUBSET Parties
  BY DEF Concerned
<1>2. CASE UNCHANGED events
  BY <1>2 DEF events, Eventful, NobodyForgotten, Addressed
<1>3. CASE /\ inbox' = inbox \cup
                (IF Audience(e) = {} THEN {} ELSE {[event |-> e, to |-> Audience(e)]})
           /\ owed' = owed \cup {<<e, p>> : p \in Concerned(e)}
           /\ UNCHANGED <<feed, news>>
  <2> DEFINE Owing(S) == UNION {{<<i.event, p>> : p \in i.to} : i \in S}
  <2>1. Owing(inbox') = Owing(inbox) \cup {<<e, p>> : p \in Audience(e)}
    <3>1. CASE Audience(e) = {}
      BY <1>3, <3>1
    <3>2. CASE Audience(e) # {}
      <4>1. inbox' = inbox \cup {[event |-> e, to |-> Audience(e)]}
        BY <1>3, <3>2
      <4>2. Owing({[event |-> e, to |-> Audience(e)]}) = {<<e, p>> : p \in Audience(e)}
        OBVIOUS
      <4>3. Owing(inbox \cup {[event |-> e, to |-> Audience(e)]}) =
              Owing(inbox) \cup Owing({[event |-> e, to |-> Audience(e)]})
        OBVIOUS
      <4> QED
        BY <4>1, <4>2, <4>3
    <3> QED
      BY <3>1, <3>2
  <2>2. owed = news \cup Owing(inbox)
    BY DEF Eventful, NobodyForgotten
  <2>3. owed' = news' \cup Owing(inbox')
    <3> HIDE DEF Owing
    <3> QED
      BY <1>3, <2>1, <2>2
  <2>4. NobodyForgotten'
    BY <1>3, <2>3 DEF Eventful, NobodyForgotten
  <2>5. Addressed'
    BY <1>3 DEF Eventful, Addressed
  <2>6. /\ inbox' \subseteq [event : Notice, to : SUBSET Parties]
        /\ feed' \subseteq [event : Notice, read : BOOLEAN]
    BY <1>1, <1>3 DEF Eventful
  <2> QED
    BY <2>4, <2>5, <2>6 DEF Eventful
<1> QED
  BY <1>2, <1>3 DEF Emit

LEMMA TellKeeps ==
  ASSUME Eventful, NEW item \in inbox, Tell(item)
  PROVE  Eventful'
<1>1. PICK p : p = IF "CUSTOMER" \in item.to THEN "CUSTOMER" ELSE "STAFF"
  OBVIOUS
<1>2. PICK rest : rest = item.to \ {p}
  OBVIOUS
<1>3. /\ item.event \in Notice /\ item.to \in SUBSET Parties /\ item.to # {}
      /\ item = [event |-> item.event, to |-> item.to]
  BY DEF Eventful, Addressed
<1>4. p \in item.to
  BY <1>1, <1>3 DEF Parties
<1>5. /\ news' = news \cup {<<item.event, p>>}
      /\ inbox' = (inbox \ {item}) \cup
           (IF rest = {} THEN {} ELSE {[item EXCEPT !.to = rest]})
      /\ UNCHANGED owed
  BY <1>1, <1>2 DEF Tell
<1>6. [item EXCEPT !.to = rest] = [event |-> item.event, to |-> rest]
  BY <1>3
<1> DEFINE Left(S) == UNION {{<<i.event, q>> : q \in i.to} : i \in S}
<1>7. Left(inbox') \cup {<<item.event, p>>} \cup Left(inbox \ {item}) =
        Left(inbox) \cup {<<item.event, p>>}
  <2>1. Left(inbox) = Left(inbox \ {item}) \cup {<<item.event, q>> : q \in item.to}
    OBVIOUS
  <2>2. {<<item.event, q>> : q \in item.to} =
          {<<item.event, p>>} \cup {<<item.event, q>> : q \in rest}
    BY <1>2, <1>4
  <2>3. Left(inbox') = Left(inbox \ {item}) \cup {<<item.event, q>> : q \in rest}
    <3>1. CASE rest = {}
      <4>1. inbox' = inbox \ {item}
        BY <1>5, <3>1
      <4> QED
        BY <3>1, <4>1
    <3>2. CASE rest # {}
      <4>1. inbox' = (inbox \ {item}) \cup {[event |-> item.event, to |-> rest]}
        BY <1>5, <1>6, <3>2
      <4>2. Left({[event |-> item.event, to |-> rest]}) = {<<item.event, q>> : q \in rest}
        OBVIOUS
      <4>3. Left((inbox \ {item}) \cup {[event |-> item.event, to |-> rest]}) =
              Left(inbox \ {item}) \cup Left({[event |-> item.event, to |-> rest]})
        OBVIOUS
      <4> QED
        BY <4>1, <4>2, <4>3
    <3> QED
      BY <3>1, <3>2
  <2> HIDE DEF Left
  <2> QED
    BY <2>1, <2>2, <2>3
<1>8. Left(inbox \ {item}) \subseteq Left(inbox')
  BY <1>5
<1>9. owed' = news' \cup Left(inbox')
  <2>1. owed = news \cup Left(inbox)
    BY DEF Eventful, NobodyForgotten
  <2> HIDE DEF Left
  <2>2. news' \cup Left(inbox') = news \cup (Left(inbox) \cup {<<item.event, p>>})
    BY <1>5, <1>7, <1>8
  <2>3. <<item.event, p>> \in Left(inbox)
    BY <1>4 DEF Left
  <2> QED
    BY <1>5, <2>1, <2>2, <2>3
<1>10. PICK done \in SUBSET {c \in {"in-app", "email"} : supports(c, p)} :
         feed' = IF "in-app" \in done
                   THEN feed \cup {[event |-> item.event, read |-> FALSE]} ELSE feed
  BY <1>1 DEF Tell
<1>11. "in-app" \in done => p = "STAFF"
  BY <1>10 DEF supports
<1>12. PICK notice \in [event : Notice, read : BOOLEAN] :
         /\ notice.event = item.event
         /\ feed' = IF "in-app" \in done THEN feed \cup {notice} ELSE feed
  <2>1. [event |-> item.event, read |-> FALSE] \in [event : Notice, read : BOOLEAN]
    BY <1>3
  <2> QED
    BY <1>10, <2>1
<1>13. /\ \A n \in feed' : <<n.event, "STAFF">> \in news'
       /\ feed' \subseteq [event : Notice, read : BOOLEAN]
  <2>1. /\ \A n \in feed : <<n.event, "STAFF">> \in news
        /\ feed \subseteq [event : Notice, read : BOOLEAN]
    BY DEF Eventful, NobodyForgotten
  <2>2. CASE "in-app" \in done
    <3>1. feed' = feed \cup {notice} /\ <<notice.event, "STAFF">> \in news'
      BY <1>5, <1>11, <1>12, <2>2
    <3> QED
      BY <1>5, <2>1, <3>1
  <2>3. CASE "in-app" \notin done
    BY <1>5, <1>12, <2>1, <2>3
  <2> QED
    BY <2>2, <2>3
<1>14. inbox' \subseteq [event : Notice, to : SUBSET Parties]
  BY <1>2, <1>3, <1>5, <1>6 DEF Eventful
<1>15. Addressed'
  BY <1>5, <1>6 DEF Eventful, Addressed
<1> QED
  BY <1>9, <1>13, <1>14, <1>15 DEF Eventful, NobodyForgotten

-----------------------------------------------------------------------------
(* Appointments.                                                            *)

LEMMA IdleTyped ==
  /\ Idle \in Job
  /\ Idle.at = 0 /\ Idle.left = {} /\ Idle.due = {} /\ Idle.mark = None /\ Idle.hours = None
BY DEF Idle, Job

LEMMA Typed ==
  ASSUME IInv
  PROVE  Eventful
BY DEF IInv, TypeOK, Eventful

\* A step that writes one appointment and emits its event: what runs have in
\* hand is not touched, and an appointment that is given a time now is not due
\* for a moment that came.
LEMMA RowWritten ==
  ASSUME Assumptions, IInv, Eventful', NEW a \in Appts, NEW row \in Row,
         rows' = [rows EXCEPT ![a] = row],
         row.since = now \/ ~ row.active \/ row = rows[a],
         UNCHANGED <<now, up, begun, jobs, history>>
  PROVE  IInv'
<1>1. /\ \A b \in Appts : rows'[b] = IF b = a THEN row ELSE rows[b]
      /\ UNCHANGED <<now, up, begun, jobs, told, tried, lost>>
      /\ row # None
  BY DEF IInv, TypeOK, history, Assumptions
<1>2. TypeOK'
  BY <1>1 DEF IInv, TypeOK, Eventful
<1>3. \A b \in Appts : rows[b] # None => rows'[b] # None
  BY <1>1
<1>4. Scheduled'
  <2>1. ASSUME NEW j \in Runs
        PROVE  Working(j)'
    <3>1. Working(j) /\ jobs[j] \in Job
      BY DEF IInv, Scheduled, TypeOK
    <3>2. \A d \in jobs[j].due \cup ({jobs[j].mark} \ {None}) : d.appt \in Appts
      BY <3>1 DEF Job, Due
    <3> QED
      BY <1>1, <1>3, <3>1, <3>2 DEF Working, Running, InWindow, IsMoment
  <2> QED
    BY <1>1, <2>1 DEF IInv, Scheduled, Running
<1>5. Settled'
  BY <1>1 DEF IInv, Settled, Closed, Pending, Running
<1>6. Attended'
  <2> SUFFICES ASSUME Cardinality(Appts) <= Batch, NEW b \in Appts, NEW h \in Hours
               PROVE  Considered(b, h)'
    BY DEF Attended
  <2>1. Considered(b, h)
    BY DEF IInv, Attended
  <2>2. CASE rows'[b] = rows[b]
    BY <1>1, <2>1, <2>2 DEF Considered, Live, Pending, Running
  <2>3. CASE rows'[b] = row /\ ~ row.active
    BY <2>3 DEF Considered, Live
  <2>4. CASE rows'[b] = row /\ row.since = now
    <3>1. now \in Nat /\ begun \in Int /\ begun <= now
      BY DEF IInv, TypeOK, Scheduled
    <3>2. row.start \in Starts
      BY DEF Row
    <3>3. Moment(row.start, h) \in Int
      BY <3>2, MomentIs
    <3> QED
      BY <1>1, <2>4, <3>1, <3>3 DEF Considered
  <2> QED
    BY <1>1, <2>2, <2>3, <2>4
<1> QED
  BY <1>2, <1>4, <1>5, <1>6 DEF IInv, Eventful

\* Events that are told, and notices that are read.
LEMMA OnlyEvents ==
  ASSUME IInv, Eventful', UNCHANGED <<now, up, begun, rows, jobs, history>>
  PROVE  IInv'
<1>1. UNCHANGED <<now, up, begun, rows, jobs, told, tried, lost>>
  BY DEF history
<1>2. TypeOK'
  BY <1>1 DEF IInv, TypeOK, Eventful
<1>3. Scheduled'
  BY <1>1 DEF IInv, Scheduled, Working, Running, InWindow, IsMoment
<1>4. Settled'
  BY <1>1 DEF IInv, Settled, Closed, Pending, Running
<1>5. Attended'
  BY <1>1 DEF IInv, Attended, Considered, Live, Pending, Running
<1> QED
  BY <1>2, <1>3, <1>4, <1>5 DEF IInv, Eventful

LEMMA AppointmentSteps ==
  ASSUME Assumptions, IInv, NEW a \in Appts,
         \/ Confirm(a) \/ Cancel(a) \/ Hear(a)
         \/ \E s \in Starts : Book(a, s) \/ Move(a, s)
  PROVE  IInv'
<1>0. now \in Nat /\ rows[a] \in Row \cup {None} /\ Eventful
  BY Typed DEF IInv, TypeOK
<1>1. ASSUME NEW s \in Starts, Book(a, s)
      PROVE  IInv'
  <2>1. PICK row : row = [start |-> s, active |-> TRUE, since |-> now, sent |-> {}]
    OBVIOUS
  <2>2. row \in Row /\ row.since = now /\ rows' = [rows EXCEPT ![a] = row]
    BY <1>0, <1>1, <2>1 DEF Row, Book
  <2>3. PICK source \in {"WEB", "ADMIN"} :
          Emit([appt |-> a, type |-> "created", source |-> source])
    BY <1>1 DEF Book
  <2>4. PICK e : e = [appt |-> a, type |-> "created", source |-> source]
    OBVIOUS
  <2>5. e \in Notice /\ Audience(e) = Concerned(e)
    BY <2>4 DEF Notice, Types, Audience, Concerned, Parties
  <2>6. Eventful'
    BY <1>0, <2>3, <2>4, <2>5, EmitKeeps
  <2> QED
    BY <1>1, <2>2, <2>6, RowWritten DEF Book
<1>2. ASSUME NEW s \in Starts, Move(a, s)
      PROVE  IInv'
  <2>1. PICK row : row = [rows[a] EXCEPT !.start = s, !.since = now]
    OBVIOUS
  <2>2. rows[a] \in Row /\ rows' = [rows EXCEPT ![a].start = s, ![a].since = now]
    BY <1>0, <1>2 DEF Move, Live
  <2>3. row \in Row /\ row.since = now
    BY <1>0, <2>1, <2>2 DEF Row
  <2>4. rows' = [rows EXCEPT ![a] = row]
    BY <2>1, <2>2 DEF IInv, TypeOK
  <2>5. PICK e : e = [appt |-> a, type |-> "rescheduled", source |-> "ADMIN"]
    OBVIOUS
  <2>6. e \in Notice /\ Audience(e) = Concerned(e)
    BY <2>5 DEF Notice, Types, Audience, Concerned, Parties
  <2>7. Eventful'
    BY <1>0, <1>2, <2>5, <2>6, EmitKeeps DEF Move
  <2> QED
    BY <1>2, <2>3, <2>4, <2>7, RowWritten DEF Move
<1>3. CASE Confirm(a)
  <2>1. PICK e : e = [appt |-> a, type |-> "confirmed", source |-> "ADMIN"]
    OBVIOUS
  <2>2. e \in Notice /\ Audience(e) = Concerned(e)
    BY <2>1 DEF Notice, Types, Audience, Concerned, Parties
  <2>3. Eventful'
    BY <1>0, <1>3, <2>1, <2>2, EmitKeeps DEF Confirm
  <2> QED
    BY <1>3, <2>3, OnlyEvents DEF Confirm
<1>4. CASE Cancel(a)
  <2>1. PICK row : row = [rows[a] EXCEPT !.active = FALSE]
    OBVIOUS
  <2>2. rows[a] \in Row /\ rows' = [rows EXCEPT ![a].active = FALSE]
    BY <1>0, <1>4 DEF Cancel, Live
  <2>3. row \in Row /\ ~ row.active
    BY <2>1, <2>2 DEF Row
  <2>4. rows' = [rows EXCEPT ![a] = row]
    BY <2>1, <2>2 DEF IInv, TypeOK
  <2>5. PICK source \in {"ADMIN", "CUSTOMER"} :
          Emit([appt |-> a, type |-> "cancelled", source |-> source])
    BY <1>4 DEF Cancel
  <2>6. PICK e : e = [appt |-> a, type |-> "cancelled", source |-> source]
    OBVIOUS
  <2>7. e \in Notice /\ Audience(e) = Concerned(e)
    BY <2>6 DEF Notice, Types, Audience, Concerned, Parties
  <2>8. Eventful'
    BY <1>0, <2>5, <2>6, <2>7, EmitKeeps
  <2> QED
    BY <1>4, <2>3, <2>4, <2>8, RowWritten DEF Cancel
<1>5. CASE Hear(a)
  <2>1. PICK type \in Heard : Emit([appt |-> a, type |-> type, source |-> "CUSTOMER"])
    BY <1>5 DEF Hear
  <2>2. PICK e : e = [appt |-> a, type |-> type, source |-> "CUSTOMER"]
    OBVIOUS
  <2>3. type \in {"message", "paid", "failed", "pending"}
    BY DEF Assumptions
  <2>4. e \in Notice /\ Audience(e) = Concerned(e)
    BY <2>2, <2>3 DEF Notice, Types, Audience, Concerned, Parties
  <2>5. Eventful'
    BY <1>0, <2>1, <2>2, <2>4, EmitKeeps
  <2> QED
    BY <1>5, <2>5, OnlyEvents DEF Hear
<1> QED
  BY <1>1, <1>2, <1>3, <1>4, <1>5

LEMMA EventSteps ==
  ASSUME IInv, (\E i \in inbox : Tell(i)) \/ markAllRead
  PROVE  IInv'
<1>1. CASE \E i \in inbox : Tell(i)
  <2>1. PICK i \in inbox : Tell(i)
    BY <1>1
  <2>2. Eventful'
    BY <2>1, Typed, TellKeeps
  <2> QED
    BY <2>1, <2>2, OnlyEvents DEF Tell
<1>2. CASE markAllRead
  <2>1. /\ Eventful /\ feed' = {[n EXCEPT !.read = TRUE] : n \in feed}
        /\ UNCHANGED <<inbox, owed, news>>
    BY <1>2, Typed DEF markAllRead
  <2>2. ASSUME NEW n \in feed
        PROVE  /\ [n EXCEPT !.read = TRUE] \in [event : Notice, read : BOOLEAN]
               /\ [n EXCEPT !.read = TRUE].event = n.event
    BY <2>1 DEF Eventful
  <2>3. /\ feed' \subseteq [event : Notice, read : BOOLEAN]
        /\ \A n \in feed' : <<n.event, "STAFF">> \in news
    BY <2>1, <2>2 DEF Eventful, NobodyForgotten
  <2>4. Eventful'
    BY <2>1, <2>3 DEF Eventful, NobodyForgotten, Addressed
  <2> QED
    BY <1>2, <2>4, OnlyEvents DEF markAllRead
<1> QED
  BY <1>1, <1>2

-----------------------------------------------------------------------------
(* Runs of the job.                                                         *)

\* Runs that are in no moment any more, or go on in theirs with nothing more in
\* hand, settle what they had settled.
LEMMA SettledStays ==
  ASSUME IInv, begun' = begun, told' = told,
         \A i \in Runs : \A d \in Due, h \in Hours :
           Pending(i, d, h)' => Pending(i, d, h) /\ jobs'[i].at = jobs[i].at
  PROVE  Settled'
BY DEF IInv, Settled, Closed

\* A run that is written: what is known of the others stays.
LEMMA OthersWork ==
  ASSUME Assumptions, IInv, NEW j \in Runs, NEW q \in Job,
         jobs' = [jobs EXCEPT ![j] = q], begun \in Int, begun' \in Int, begun <= begun', begun' <= now',
         \A a \in Appts : rows[a] # None => rows'[a] # None,
         Working(j)',
         q # Idle => \A i \in Runs : Running(i) /\ jobs[i].at = q.at => i = j
  PROVE  Scheduled'
<1>1. \A i \in Runs : jobs'[i] = IF i = j THEN q ELSE jobs[i]
  BY DEF IInv, TypeOK
<1>2. ASSUME NEW i \in Runs, i # j
      PROVE  Working(i)'
  <2>1. Working(i) /\ jobs[i] \in Job /\ jobs'[i] = jobs[i]
    BY <1>1, <1>2 DEF IInv, Scheduled, TypeOK
  <2>2. \A d \in jobs[i].due \cup ({jobs[i].mark} \ {None}) : d.appt \in Appts
    BY <2>1 DEF Job, Due
  <2>3. jobs[i].at \in Nat
    BY <2>1 DEF Job
  <2> QED
    BY <2>1, <2>2, <2>3 DEF Working, Running, InWindow, IsMoment
<1>3. \A i, k \in Runs : Running(i)' /\ Running(k)' /\ jobs'[i].at = jobs'[k].at => i = k
  BY <1>1 DEF Running, IInv, Scheduled
<1> QED
  BY <1>2, <1>3 DEF Scheduled

LEMMA RunStarts ==
  ASSUME Assumptions, IInv, NEW j \in Runs, StartRun(j)
  PROVE  IInv'
<1>1. PICK q : q = [Idle EXCEPT !.at = now, !.left = Hours]
  OBVIOUS
<1>2. /\ begun' = now /\ begun # now /\ IsMoment(now) /\ ~ Running(j)
      /\ jobs' = [jobs EXCEPT ![j] = q]
      /\ UNCHANGED <<now, up, rows, told, tried, lost>>
      /\ UNCHANGED <<inbox, feed, owed, news>>
  BY <1>1 DEF StartRun, Set, history, events
<1>3. now \in Nat /\ begun \in Int /\ begun <= now
  BY DEF IInv, TypeOK, Scheduled
<1>4. /\ q \in Job /\ q.at = now /\ q.left = Hours /\ q.due = {} /\ q.mark = None /\ q.hours = None
  BY <1>1, <1>3 DEF Idle, Job
<1>5. \A i \in Runs : jobs'[i] = IF i = j THEN q ELSE jobs[i]
  BY <1>2 DEF IInv, TypeOK
<1>6. TypeOK'
  BY <1>2, <1>3, <1>4 DEF IInv, TypeOK
<1>7. Scheduled'
  <2>1. Working(j)'
    BY <1>2, <1>3, <1>4, <1>5 DEF Working, IsMoment
  <2>2. \A i \in Runs : Running(i) => jobs[i].at # now
    <3> SUFFICES ASSUME NEW i \in Runs, Running(i)
                 PROVE  jobs[i].at # now
      OBVIOUS
    <3>1. jobs[i].at \in Nat /\ jobs[i].at <= begun
      BY DEF IInv, TypeOK, Job, Scheduled, Working
    <3> QED
      BY <1>2, <1>3, <3>1
  <2>3. /\ \A a \in Appts : rows[a] # None => rows'[a] # None
        /\ begun \in Int /\ begun' \in Int /\ begun <= begun' /\ begun' <= now'
        /\ \A i \in Runs : Running(i) /\ jobs[i].at = q.at => i = j
    BY <1>2, <1>3, <1>4, <2>2
  <2> QED
    BY <1>2, <1>4, <2>1, <2>3, OthersWork
<1>8. Settled'
  <2> SUFFICES ASSUME NEW d \in Due, NEW h \in Hours
               PROVE  Closed(d, h)'
    BY DEF Settled
  <2>1. Closed(d, h) /\ Moment(d.start, h) \in Int
    BY MomentIs DEF IInv, Settled, Due
  <2>2. SUFFICES ASSUME told[<<d, h>>] # 0
                 PROVE  /\ told[<<d, h>>] = 1
                        /\ Moment(d.start, h) <= now
                        /\ \A i \in Runs : jobs'[i].at = Moment(d.start, h) => ~ Pending(i, d, h)'
    BY <1>2 DEF Closed
  <2>3. Moment(d.start, h) <= begun /\ Moment(d.start, h) < now
    BY <1>2, <1>3, <2>1, <2>2 DEF Closed
  <2>4. ASSUME NEW i \in Runs, jobs'[i].at = Moment(d.start, h)
        PROVE  ~ Pending(i, d, h)'
    <3>1. i # j
      BY <1>3, <1>4, <1>5, <2>1, <2>3, <2>4
    <3> QED
      BY <1>5, <2>1, <2>2, <2>4, <3>1 DEF Closed, Pending, Running
  <2> QED
    BY <1>3, <2>1, <2>2, <2>3, <2>4 DEF Closed
<1>9. Attended'
  <2> SUFFICES ASSUME Cardinality(Appts) <= Batch, NEW a \in Appts, NEW h \in Hours
               PROVE  Considered(a, h)'
    BY DEF Attended
  <2>1. Considered(a, h)
    BY DEF IInv, Attended
  <2>2. ASSUME Considered(a, h)' = FALSE
        PROVE  Moment(rows[a].start, h) # now
    <3>1. q # Idle
      BY <1>4, IdleTyped
    <3>2. Pending(j, [appt |-> a, start |-> rows[a].start], h)' /\ jobs'[j].at = now
      BY <1>4, <1>5, <3>1 DEF Pending, Running
    <3> QED
      BY <1>2, <2>2, <3>2 DEF Considered
  <2>3. ASSUME NEW i \in Runs, NEW d, Pending(i, d, h)
        PROVE  Pending(i, d, h)' /\ jobs'[i].at = jobs[i].at
    BY <1>2, <1>5, <2>3 DEF Pending, Running
  <2> QED
    BY <1>2, <2>1, <2>2, <2>3 DEF Considered, Live
<1> QED
  BY <1>2, <1>6, <1>7, <1>8, <1>9 DEF IInv, NobodyForgotten, Addressed

LEMMA RunQueries ==
  ASSUME Assumptions, IInv, NEW j \in Runs, Query(j)
  PROVE  IInv'
<1>1. PICK p, h : p = jobs[j] /\ h = Max(p.left)
  OBVIOUS
<1>2. /\ p \in Job /\ p.left # {} /\ p.due = {} /\ p.mark = None
      /\ UNCHANGED <<now, up, begun, rows, told, tried, lost>>
      /\ UNCHANGED <<inbox, feed, owed, news>>
  BY <1>1 DEF Query, IInv, TypeOK, history, events
<1>3. h \in p.left /\ h \in Hours
  <2>1. p.left \subseteq Hours /\ IsFiniteSet(p.left) /\ p.left \subseteq Nat
    BY <1>2, FS_Subset DEF Job, Assumptions
  <2> QED
    BY <1>1, <1>2, <2>1, LongestLeft
<1>4. PICK found : found =
        {a \in Appts : Live(a) /\ InWindow(rows[a].start, p.at, h) /\ h \notin rows[a].sent}
  OBVIOUS
<1>5. PICK S \in kSubset(Min({Batch, Cardinality(found)}), found) :
        Set(j, [p EXCEPT !.left = @ \ {h}, !.hours = h,
                  !.due = {[appt |-> a, start |-> rows[a].start] : a \in S}])
  BY <1>1, <1>4 DEF Query
<1>6. PICK due, q :
        /\ due = {[appt |-> a, start |-> rows[a].start] : a \in S}
        /\ q = [p EXCEPT !.left = @ \ {h}, !.hours = h, !.due = due]
  OBVIOUS
<1>7. S \subseteq found
  BY <1>5 DEF kSubset
<1>8. ASSUME NEW d \in due
      PROVE  d \in Due /\ InWindow(d.start, p.at, h) /\ rows[d.appt] # None
  <2>1. PICK a \in found : d = [appt |-> a, start |-> rows[a].start]
    BY <1>6, <1>7, <1>8
  <2>2. a \in Appts /\ rows[a] \in Row /\ InWindow(rows[a].start, p.at, h)
    BY <1>4, <2>1 DEF Live, IInv, TypeOK
  <2>3. d.appt = a /\ d.start = rows[a].start
    BY <2>1
  <2> QED
    BY <2>1, <2>2, <2>3, Assumptions DEF Due, Row, Assumptions
<1>9. /\ q \in Job /\ q.at = p.at /\ q.left = p.left \ {h} /\ q.hours = h /\ q.due = due
      /\ q.mark = None
  BY <1>2, <1>3, <1>6, <1>8 DEF Job
<1>10. jobs' = [jobs EXCEPT ![j] = q]
  BY <1>5, <1>6 DEF Set
<1>11. \A i \in Runs : jobs'[i] = IF i = j THEN q ELSE jobs[i]
  BY <1>10 DEF IInv, TypeOK
<1>12. p # Idle /\ q # Idle /\ Running(j)
  BY <1>1, <1>2, <1>3, <1>9, IdleTyped DEF Running, Assumptions
<1>13. TypeOK'
  BY <1>2, <1>9, <1>10 DEF IInv, TypeOK
<1>14. Scheduled'
  <2>1. IsMoment(p.at) /\ p.at <= begun /\ begun \in Int /\ begun <= now
    BY <1>1, <1>12 DEF IInv, TypeOK, Scheduled, Working
  <2>2. Working(j)'
    <3>1. /\ IsMoment(jobs'[j].at) /\ jobs'[j].at <= begun'
      BY <1>2, <1>9, <1>11, <2>1 DEF IsMoment
    <3>2. jobs'[j].hours \in Hours \ jobs'[j].left /\ jobs'[j].mark = None
      BY <1>3, <1>9, <1>11
    <3>3. \A d \in jobs'[j].due :
            InWindow(d.start, jobs'[j].at, jobs'[j].hours) /\ rows'[d.appt] # None
      BY <1>2, <1>8, <1>9, <1>11
    <3> QED
      BY <3>1, <3>2, <3>3 DEF Working, InWindow, IsMoment
  <2>3. \A i \in Runs : Running(i) /\ jobs[i].at = q.at => i = j
    BY <1>1, <1>9, <1>12 DEF IInv, Scheduled
  <2>4. /\ \A a \in Appts : rows[a] # None => rows'[a] # None
        /\ begun' \in Int /\ begun <= begun' /\ begun' <= now'
    BY <1>2, <2>1
  <2> QED
    BY <1>9, <1>10, <2>1, <2>2, <2>3, <2>4, OthersWork
<1>15. ASSUME NEW i \in Runs, NEW d, NEW k, Pending(i, d, k)'
       PROVE  Pending(i, d, k) /\ jobs'[i].at = jobs[i].at
  BY <1>1, <1>3, <1>9, <1>11, <1>12, <1>15 DEF Pending, Running
<1>16. Settled'
  BY <1>2, <1>15, SettledStays
<1>17. Attended'
  <2> SUFFICES ASSUME Cardinality(Appts) <= Batch, NEW a \in Appts, NEW k \in Hours
               PROVE  Considered(a, k)'
    BY DEF Attended
  <2>1. Considered(a, k)
    BY DEF IInv, Attended
  <2>2. PICK d, t : d = [appt |-> a, start |-> rows[a].start] /\ t = Moment(rows[a].start, k)
    OBVIOUS
  <2>3. SUFFICES ASSUME Live(a), k \notin rows[a].sent, NEW i \in Runs,
                        jobs[i].at = t, Pending(i, d, k)
                 PROVE  \E s \in Runs : jobs'[s].at = t /\ Pending(s, d, k)'
    BY <1>2, <2>1, <2>2 DEF Considered, Live
  <2>4. CASE i # j
    BY <1>11, <2>3, <2>4 DEF Pending, Running
  <2>5. CASE i = j /\ k # h
    <3>1. k \in p.left
      BY <1>1, <1>2, <2>3, <2>5 DEF Pending
    <3> QED
      BY <1>1, <1>9, <1>11, <1>12, <2>3, <2>5, <3>1 DEF Pending, Running
  <2>6. CASE i = j /\ k = h
    <3>1. rows[a] \in Row
      BY <2>3 DEF Live, IInv, TypeOK
    <3>2. InWindow(rows[a].start, p.at, h)
      BY <1>1, <2>2, <2>3, <2>6, <3>1, MomentIs DEF Row
    <3>3. a \in found
      BY <1>4, <2>3, <2>6, <3>2
    <3>4. IsFiniteSet(found) /\ Cardinality(found) \in Nat /\ Cardinality(found) <= Cardinality(Appts)
      BY <1>4, FS_Subset, FS_CardinalityType DEF Assumptions
    <3>5. Cardinality(Appts) \in Nat /\ Batch \in Nat
      BY FS_CardinalityType DEF Assumptions
    <3>6. Min({Batch, Cardinality(found)}) = Cardinality(found)
      BY <3>4, <3>5 DEF Min
    <3>7. S = found
      BY <1>5, <1>7, <3>4, <3>6, FS_Subset DEF kSubset
    <3>8. d \in due
      BY <1>6, <2>2, <3>3, <3>7
    <3> QED
      BY <1>1, <1>9, <1>11, <1>12, <2>3, <2>6, <3>8 DEF Pending, Running
  <2> QED
    BY <2>4, <2>5, <2>6
<1> QED
  BY <1>2, <1>13, <1>14, <1>16, <1>17 DEF IInv, NobodyForgotten, Addressed

\* A reminder goes out in the run of its moment, which had it in hand, and so
\* for the first time.
LEMMA RunReminds ==
  ASSUME Assumptions, IInv, NEW j \in Runs, Remind(j)
  PROVE  IInv'
<1>1. PICK p, h : p = jobs[j] /\ h = p.hours
  OBVIOUS
<1>2. PICK d \in p.due :
        /\ tried' = tried \cup {<<d, h>>}
        /\ \/ /\ told' = [told EXCEPT ![<<d, h>>] = @ + 1]
              /\ Set(j, [p EXCEPT !.due = @ \ {d}, !.mark = d])
           \/ /\ Set(j, [p EXCEPT !.due = @ \ {d}])
              /\ UNCHANGED told
  BY <1>1 DEF Remind
<1>3. /\ p \in Job /\ p.mark = None
      /\ UNCHANGED <<now, up, begun, rows, lost>>
      /\ UNCHANGED <<inbox, feed, owed, news>>
  BY <1>1 DEF Remind, IInv, TypeOK, events
<1>4. /\ d \in Due /\ h \in Hours /\ h \notin p.left
      /\ InWindow(d.start, p.at, h) /\ rows[d.appt] # None
      /\ \A e \in p.due : InWindow(e.start, p.at, h) /\ rows[e.appt] # None
      /\ p.at \in Nat
  BY <1>1, <1>2, <1>3 DEF IInv, Scheduled, Working, Job
<1>5. p # Idle /\ Running(j)
  BY <1>1, <1>2, IdleTyped DEF Running
<1>6. IsMoment(p.at) /\ p.at <= begun /\ begun \in Int /\ begun <= now
  BY <1>1, <1>5 DEF IInv, TypeOK, Scheduled, Working
<1>7. Moment(d.start, h) = p.at
  BY <1>4, <1>6, MomentIs DEF Due
<1>8. Pending(j, d, h)
  BY <1>1, <1>2, <1>5 DEF Pending
<1>9. told[<<d, h>>] = 0
  BY <1>1, <1>4, <1>7, <1>8 DEF IInv, Settled, Closed
<1>10. PICK q \in {[p EXCEPT !.due = @ \ {d}, !.mark = d], [p EXCEPT !.due = @ \ {d}]} :
         /\ jobs' = [jobs EXCEPT ![j] = q]
         /\ told' = [told EXCEPT ![<<d, h>>] = @ + 1] \/ told' = told
  BY <1>2 DEF Set
<1>11. /\ q \in Job /\ q.at = p.at /\ q.left = p.left /\ q.hours = h /\ q.due = p.due \ {d}
       /\ q.mark \in {None, d}
  <2>1. CASE q = [p EXCEPT !.due = @ \ {d}, !.mark = d]
    BY <1>1, <1>3, <1>4, <2>1 DEF Job
  <2>2. CASE q = [p EXCEPT !.due = @ \ {d}]
    BY <1>1, <1>3, <1>4, <2>2 DEF Job
  <2> QED
    BY <1>10, <2>1, <2>2
<1>12. \A i \in Runs : jobs'[i] = IF i = j THEN q ELSE jobs[i]
  BY <1>10 DEF IInv, TypeOK
<1>13. q # Idle
  BY <1>4, <1>11, IdleTyped DEF Assumptions
<1>14. /\ told' \in [Due \X Hours -> Nat]
       /\ told'[<<d, h>>] \in {0, 1}
       /\ \A x \in Due \X Hours : x # <<d, h>> => told'[x] = told[x]
  BY <1>4, <1>9, <1>10 DEF IInv, TypeOK
<1>15. TypeOK'
  BY <1>2, <1>3, <1>4, <1>10, <1>11, <1>14 DEF IInv, TypeOK
<1>16. Scheduled'
  <2>1. Working(j)'
    <3>1. /\ IsMoment(jobs'[j].at) /\ jobs'[j].at <= begun'
      BY <1>3, <1>6, <1>11, <1>12 DEF IsMoment
    <3>2. jobs'[j].hours \in Hours \ jobs'[j].left
      BY <1>4, <1>11, <1>12
    <3>3. \A e \in jobs'[j].due :
            InWindow(e.start, jobs'[j].at, jobs'[j].hours) /\ rows'[e.appt] # None
      BY <1>3, <1>4, <1>11, <1>12
    <3>4. jobs'[j].mark # None => rows'[jobs'[j].mark.appt] # None
      BY <1>3, <1>4, <1>11, <1>12
    <3> QED
      BY <3>1, <3>2, <3>3, <3>4 DEF Working, InWindow, IsMoment
  <2>2. \A i \in Runs : Running(i) /\ jobs[i].at = q.at => i = j
    BY <1>1, <1>5, <1>11 DEF IInv, Scheduled
  <2>3. /\ \A a \in Appts : rows[a] # None => rows'[a] # None
        /\ begun' \in Int /\ begun <= begun' /\ begun' <= now'
    BY <1>3, <1>6
  <2> QED
    BY <1>6, <1>10, <1>11, <2>1, <2>2, <2>3, OthersWork
<1>17. ASSUME NEW i \in Runs, NEW e, NEW k, Pending(i, e, k)'
       PROVE  Pending(i, e, k) /\ jobs'[i].at = jobs[i].at
  BY <1>1, <1>5, <1>11, <1>12, <1>17 DEF Pending, Running
<1>18. Settled'
  <2> SUFFICES ASSUME NEW e \in Due, NEW k \in Hours
               PROVE  Closed(e, k)'
    BY DEF Settled
  <2>1. Closed(e, k)
    BY DEF IInv, Settled
  <2>2. CASE <<e, k>> # <<d, h>>
    <3>1. told'[<<e, k>>] = told[<<e, k>>]
      BY <1>14, <2>2
    <3> QED
      BY <1>3, <1>17, <2>1, <3>1 DEF Closed
  <2>3. CASE e = d /\ k = h
    <3>1. ASSUME NEW i \in Runs, jobs'[i].at = p.at
          PROVE  ~ Pending(i, d, h)'
      <4>1. CASE i = j
        BY <1>4, <1>11, <1>12, <4>1 DEF Pending
      <4>2. CASE i # j
        <5>1. jobs'[i] = jobs[i]
          BY <1>12, <4>2
        <5>2. ~ Running(i)
          BY <1>1, <1>5, <3>1, <4>2, <5>1 DEF IInv, Scheduled
        <5> QED
          BY <5>1, <5>2 DEF Pending, Running
      <4> QED
        BY <4>1, <4>2
    <3> QED
      BY <1>3, <1>6, <1>7, <1>14, <2>3, <3>1 DEF Closed
  <2> QED
    BY <2>2, <2>3
<1>19. Attended'
  <2> SUFFICES ASSUME Cardinality(Appts) <= Batch, NEW a \in Appts, NEW k \in Hours
               PROVE  Considered(a, k)'
    BY DEF Attended
  <2>1. Considered(a, k)
    BY DEF IInv, Attended
  <2>2. PICK e, t : e = [appt |-> a, start |-> rows[a].start] /\ t = Moment(rows[a].start, k)
    OBVIOUS
  <2>3. SUFFICES ASSUME NEW i \in Runs, jobs[i].at = t, Pending(i, e, k)
                 PROVE  \/ <<e, k>> \in tried'
                        \/ \E s \in Runs : jobs'[s].at = t /\ Pending(s, e, k)'
    BY <1>2, <1>3, <2>1, <2>2 DEF Considered, Live
  <2>4. CASE i # j
    BY <1>12, <2>3, <2>4 DEF Pending, Running
  <2>5. CASE i = j /\ (k \in p.left \/ e # d)
    BY <1>1, <1>11, <1>12, <1>13, <2>3, <2>5 DEF Pending, Running
  <2>6. CASE i = j /\ k \notin p.left /\ e = d
    BY <1>1, <1>2, <2>3, <2>6 DEF Pending
  <2> QED
    BY <2>4, <2>5, <2>6
<1> QED
  BY <1>3, <1>15, <1>16, <1>18, <1>19 DEF IInv, NobodyForgotten, Addressed

LEMMA RunMarks ==
  ASSUME Assumptions, IInv, NEW j \in Runs, Mark(j)
  PROVE  IInv'
<1>1. PICK p, h, a : p = jobs[j] /\ h = p.hours /\ a = p.mark.appt
  OBVIOUS
<1>2. /\ p \in Job /\ p.mark # None
      /\ rows' = [rows EXCEPT ![a].sent = @ \cup {h}]
      /\ Set(j, [p EXCEPT !.mark = None])
      /\ UNCHANGED <<now, up, begun, told, tried, lost>>
      /\ UNCHANGED <<inbox, feed, owed, news>>
  BY <1>1 DEF Mark, IInv, TypeOK, history, events
<1>3. /\ a \in Appts /\ rows[a] \in Row /\ h \in Hours /\ h \notin p.left /\ p.at \in Nat
      /\ \A e \in p.due : InWindow(e.start, p.at, h) /\ rows[e.appt] # None /\ e.appt \in Appts
  BY <1>1, <1>2 DEF IInv, TypeOK, Scheduled, Working, Job, Due
<1>4. PICK row : row = [rows[a] EXCEPT !.sent = @ \cup {h}]
  OBVIOUS
<1>5. /\ row \in Row /\ row.start = rows[a].start /\ row.active = rows[a].active
      /\ row.since = rows[a].since /\ rows[a].sent \subseteq row.sent /\ row # None
  BY <1>3, <1>4 DEF Row, Assumptions
<1>6. /\ rows' \in [Appts -> Row \cup {None}]
      /\ \A b \in Appts : rows'[b] = IF b = a THEN row ELSE rows[b]
  BY <1>2, <1>3, <1>4, <1>5 DEF IInv, TypeOK
<1>7. PICK q : q = [p EXCEPT !.mark = None]
  OBVIOUS
<1>8. /\ q \in Job /\ q.at = p.at /\ q.left = p.left /\ q.hours = h /\ q.due = p.due
      /\ q.mark = None
      /\ jobs' = [jobs EXCEPT ![j] = q]
  BY <1>1, <1>2, <1>7 DEF Job, Set
<1>9. \A i \in Runs : jobs'[i] = IF i = j THEN q ELSE jobs[i]
  BY <1>8 DEF IInv, TypeOK
<1>10. p # Idle /\ q # Idle /\ Running(j)
  BY <1>1, <1>2, <1>3, <1>8, IdleTyped DEF Running, Assumptions
<1>11. TypeOK'
  BY <1>2, <1>6, <1>8 DEF IInv, TypeOK
<1>12. \A b \in Appts : rows[b] # None => rows'[b] # None
  BY <1>5, <1>6
<1>13. Scheduled'
  <2>1. IsMoment(p.at) /\ p.at <= begun /\ begun \in Int /\ begun <= now
    BY <1>1, <1>10 DEF IInv, TypeOK, Scheduled, Working
  <2>2. Working(j)'
    <3>1. /\ IsMoment(jobs'[j].at) /\ jobs'[j].at <= begun'
      BY <1>2, <1>8, <1>9, <2>1 DEF IsMoment
    <3>2. jobs'[j].hours \in Hours \ jobs'[j].left /\ jobs'[j].mark = None
      BY <1>3, <1>8, <1>9
    <3>3. \A e \in jobs'[j].due :
            InWindow(e.start, jobs'[j].at, jobs'[j].hours) /\ rows'[e.appt] # None
      BY <1>3, <1>8, <1>9, <1>12
    <3> QED
      BY <3>1, <3>2, <3>3 DEF Working, InWindow, IsMoment
  <2>3. \A i \in Runs : Running(i) /\ jobs[i].at = q.at => i = j
    BY <1>1, <1>8, <1>10 DEF IInv, Scheduled
  <2>4. begun' \in Int /\ begun <= begun' /\ begun' <= now'
    BY <1>2, <2>1
  <2> QED
    BY <1>8, <1>12, <2>1, <2>2, <2>3, <2>4, OthersWork
<1>14. ASSUME NEW i \in Runs, NEW e, NEW k
       PROVE  jobs'[i].at = jobs[i].at /\ (Pending(i, e, k)' <=> Pending(i, e, k))
  BY <1>1, <1>8, <1>9, <1>10 DEF Pending, Running
<1>15. Settled'
  BY <1>2, <1>14, SettledStays
<1>16. Attended'
  <2> SUFFICES ASSUME Cardinality(Appts) <= Batch, NEW b \in Appts, NEW k \in Hours
               PROVE  Considered(b, k)'
    BY DEF Attended
  <2>1. Considered(b, k)
    BY DEF IInv, Attended
  <2>2. Live(b)' => /\ Live(b) /\ rows'[b].start = rows[b].start /\ rows'[b].since = rows[b].since
                    /\ rows[b].sent \subseteq rows'[b].sent
    BY <1>3, <1>5, <1>6 DEF Live, Assumptions
  <2>3. ASSUME Live(b)'
        PROVE  Considered(b, k)'
    <3>1. PICK e, t : /\ e = [appt |-> b, start |-> rows[b].start]
                      /\ t = Moment(rows[b].start, k)
      OBVIOUS
    <3>2. /\ Live(b) /\ rows'[b].start = rows[b].start /\ rows'[b].since = rows[b].since
          /\ rows[b].sent \subseteq rows'[b].sent
      BY <2>2, <2>3
    <3>3. SUFFICES ASSUME rows[b].since < t, t >= 0, k \notin rows[b].sent,
                          t < now \/ t = begun, t \notin lost
                   PROVE  \/ <<e, k>> \in tried
                          \/ \E s \in Runs : jobs'[s].at = t /\ Pending(s, e, k)'
      BY <1>2, <3>1, <3>2 DEF Considered
    <3>4. \/ <<e, k>> \in tried
          \/ \E s \in Runs : jobs[s].at = t /\ Pending(s, e, k)
      BY <2>1, <3>1, <3>2, <3>3 DEF Considered
    <3> QED
      BY <1>14, <3>4
  <2> QED
    BY <2>3 DEF Considered
<1> QED
  BY <1>2, <1>11, <1>13, <1>15, <1>16 DEF IInv, NobodyForgotten, Addressed

LEMMA RunEnds ==
  ASSUME Assumptions, IInv, NEW j \in Runs, EndRun(j)
  PROVE  IInv'
<1>1. /\ jobs[j].left = {} /\ jobs[j].due = {}
      /\ jobs' = [jobs EXCEPT ![j] = Idle]
      /\ UNCHANGED <<now, up, begun, rows, told, tried, lost>>
      /\ UNCHANGED <<inbox, feed, owed, news>>
  BY DEF EndRun, Set, history, events
<1>2. \A i \in Runs : jobs'[i] = IF i = j THEN Idle ELSE jobs[i]
  BY <1>1 DEF IInv, TypeOK
<1>3. TypeOK'
  BY <1>1, IdleTyped DEF IInv, TypeOK
<1>4. Scheduled'
  <2>1. Working(j)'
    BY <1>2, IdleTyped DEF Working, Running
  <2>2. begun \in Int /\ begun' \in Int /\ begun <= begun' /\ begun' <= now'
    BY <1>1 DEF IInv, TypeOK, Scheduled
  <2> QED
    BY <1>1, <2>1, <2>2, IdleTyped, OthersWork
<1>5. ASSUME NEW i \in Runs, NEW e, NEW k
      PROVE  /\ Pending(i, e, k)' <=> Pending(i, e, k)
             /\ Pending(i, e, k) => jobs'[i].at = jobs[i].at
  BY <1>1, <1>2 DEF Pending, Running
<1>6. Settled'
  BY <1>1, <1>5, SettledStays
<1>7. Attended'
  BY <1>1, <1>5 DEF IInv, Attended, Considered, Live
<1> QED
  BY <1>1, <1>3, <1>4, <1>6, <1>7 DEF IInv, NobodyForgotten, Addressed

\* What a run leaves undone belongs to a moment that is lost.
LEMMA RunFails ==
  ASSUME Assumptions, IInv, NEW j \in Runs, FailRun(j)
  PROVE  IInv'
<1>1. /\ jobs' = [jobs EXCEPT ![j] = Idle] /\ lost' = lost \cup {jobs[j].at}
      /\ UNCHANGED <<now, up, begun, rows, told, tried>>
      /\ UNCHANGED <<inbox, feed, owed, news>>
  BY DEF FailRun, Set, events
<1>2. /\ \A i \in Runs : jobs'[i] = IF i = j THEN Idle ELSE jobs[i]
      /\ jobs[j].at \in Nat
  BY <1>1 DEF IInv, TypeOK, Job
<1>3. TypeOK'
  BY <1>1, <1>2, IdleTyped DEF IInv, TypeOK
<1>4. Scheduled'
  <2>1. Working(j)'
    BY <1>2, IdleTyped DEF Working, Running
  <2>2. begun \in Int /\ begun' \in Int /\ begun <= begun' /\ begun' <= now'
    BY <1>1 DEF IInv, TypeOK, Scheduled
  <2> QED
    BY <1>1, <2>1, <2>2, IdleTyped, OthersWork
<1>5. ASSUME NEW i \in Runs, NEW e, NEW k
      PROVE  /\ Pending(i, e, k)' => Pending(i, e, k) /\ jobs'[i].at = jobs[i].at
             /\ Pending(i, e, k) => \/ Pending(i, e, k)' /\ jobs'[i].at = jobs[i].at
                                    \/ jobs[i].at \in lost'
  BY <1>1, <1>2 DEF Pending, Running
<1>6. Settled'
  BY <1>1, <1>5, SettledStays
<1>7. Attended'
  <2> SUFFICES ASSUME Cardinality(Appts) <= Batch, NEW a \in Appts, NEW h \in Hours
               PROVE  Considered(a, h)'
    BY DEF Attended
  <2>1. Considered(a, h)
    BY DEF IInv, Attended
  <2> QED
    BY <1>1, <1>5, <2>1 DEF Considered, Live
<1> QED
  BY <1>1, <1>3, <1>4, <1>6, <1>7 DEF IInv, NobodyForgotten, Addressed

-----------------------------------------------------------------------------
(* The process and the clock.                                               *)

\* What dies with the process was a moment's run, or an event.
LEMMA Crashes ==
  ASSUME Assumptions, IInv, Crash
  PROVE  IInv'
<1>1. /\ jobs' = [j \in Runs |-> Idle]
      /\ lost' = lost \cup {jobs[j].at : j \in {i \in Runs : Running(i)}}
      /\ inbox' = {}
      /\ news' = news \cup UNION {{<<i.event, p>> : p \in i.to} : i \in inbox}
      /\ UNCHANGED <<now, begun, rows, feed, told, tried, owed>>
      /\ up' \in BOOLEAN
  BY DEF Crash
<1>2. \A j \in Runs : jobs'[j] = Idle /\ jobs[j] \in Job
  BY <1>1 DEF IInv, TypeOK
<1>3. TypeOK'
  <2>1. lost' \subseteq Nat
    BY <1>1, <1>2 DEF IInv, TypeOK, Job
  <2> QED
    BY <1>1, <2>1, IdleTyped DEF IInv, TypeOK
<1>4. NobodyForgotten' /\ Addressed'
  BY <1>1 DEF IInv, NobodyForgotten, Addressed
<1>5. Scheduled'
  BY <1>1, <1>2, IdleTyped DEF IInv, Scheduled, Working, Running
<1>6. \A j \in Runs : ~ Running(j)'
  BY <1>2 DEF Running
<1>7. Settled'
  BY <1>1, <1>6, SettledStays DEF Pending
<1>8. Attended'
  <2> SUFFICES ASSUME Cardinality(Appts) <= Batch, NEW a \in Appts, NEW h \in Hours
               PROVE  Considered(a, h)'
    BY DEF Attended
  <2>1. Considered(a, h)
    BY DEF IInv, Attended
  <2>2. \A j \in Runs : \A d : Pending(j, d, h) => jobs[j].at \in lost'
    BY <1>1 DEF Pending
  <2> QED
    BY <1>1, <2>1, <2>2 DEF Considered, Live
<1> QED
  BY <1>3, <1>4, <1>5, <1>7, <1>8 DEF IInv

LEMMA Restarts ==
  ASSUME IInv, Restart
  PROVE  IInv'
<1>1. /\ up' = TRUE /\ UNCHANGED <<now, begun, rows, jobs, told, tried, lost>>
      /\ UNCHANGED <<inbox, feed, owed, news>>
  BY DEF Restart, history, events
<1>2. TypeOK'
  BY <1>1 DEF IInv, TypeOK
<1>3. Scheduled'
  BY <1>1 DEF IInv, Scheduled, Working, Running, InWindow, IsMoment
<1>4. Settled'
  BY <1>1 DEF IInv, Settled, Closed, Pending, Running
<1>5. Attended'
  BY <1>1 DEF IInv, Attended, Considered, Live, Pending, Running
<1> QED
  BY <1>1, <1>2, <1>3, <1>4, <1>5 DEF IInv, NobodyForgotten, Addressed

\* A moment that passes without its run is lost.
LEMMA ClockTicks ==
  ASSUME Assumptions, IInv, Tick
  PROVE  IInv'
<1>1. /\ now' = now + 1
      /\ lost' = IF IsMoment(now) /\ begun # now THEN lost \cup {now} ELSE lost
      /\ UNCHANGED <<up, begun, rows, jobs, told, tried>>
      /\ UNCHANGED <<inbox, feed, owed, news>>
  BY DEF Tick, events
<1>2. now \in Nat /\ begun \in Int /\ begun <= now
  BY DEF IInv, TypeOK, Scheduled
<1>3. TypeOK'
  BY <1>1, <1>2 DEF IInv, TypeOK
<1>4. Scheduled'
  <2>1. begun' <= now'
    BY <1>1, <1>2
  <2> QED
    BY <1>1, <2>1 DEF IInv, Scheduled, Working, Running, InWindow, IsMoment
<1>5. Settled'
  BY <1>1 DEF IInv, Settled, Closed, Pending, Running
<1>6. Attended'
  <2> SUFFICES ASSUME Cardinality(Appts) <= Batch, NEW a \in Appts, NEW h \in Hours
               PROVE  Considered(a, h)'
    BY DEF Attended
  <2>1. Considered(a, h)
    BY DEF IInv, Attended
  <2>2. PICK t : t = Moment(rows[a].start, h)
    OBVIOUS
  <2>3. ASSUME Live(a)
        PROVE  t \in Int /\ IsMoment(t)
    <3>1. rows[a].start \in Starts
      BY <2>3 DEF Live, IInv, TypeOK, Row
    <3> QED
      BY <2>2, <3>1, MomentIs
  <2>4. Live(a) /\ t < now + 1 /\ t \notin lost' => t < now \/ t = begun
    BY <1>1, <1>2, <2>3
  <2>5. lost \subseteq lost'
    BY <1>1
  <2> QED
    BY <1>1, <2>1, <2>2, <2>4, <2>5 DEF Considered, Live, Pending, Running
<1> QED
  BY <1>1, <1>3, <1>4, <1>5, <1>6 DEF IInv, NobodyForgotten, Addressed

-----------------------------------------------------------------------------
(* The invariant.                                                           *)

LEMMA InitIInv ==
  ASSUME Assumptions, Init
  PROVE  IInv
<1>1. /\ now = 0 /\ up = TRUE /\ begun = -1
      /\ inbox = {} /\ feed = {} /\ owed = {} /\ news = {} /\ tried = {} /\ lost = {}
      /\ \A a \in Appts : rows[a] = None
      /\ \A j \in Runs : jobs[j] = Idle
      /\ \A d \in Due, h \in Hours : told[<<d, h>>] = 0
  BY DEF Init
<1>2. TypeOK
  BY IdleTyped DEF Init, TypeOK
<1>3. NobodyForgotten /\ Addressed
  BY <1>1 DEF NobodyForgotten, Addressed
<1>4. Scheduled
  BY <1>1, IdleTyped DEF Scheduled, Working, Running
<1>5. Settled
  BY <1>1 DEF Settled, Closed
<1>6. Attended
  BY <1>1 DEF Attended, Considered, Live
<1> QED
  BY <1>2, <1>3, <1>4, <1>5, <1>6 DEF IInv

LEMMA NextIInv ==
  ASSUME Assumptions, IInv, [Next]_vars
  PROVE  IInv'
<1>1. CASE UNCHANGED vars
  <2>1. /\ UNCHANGED <<now, up, begun, rows, jobs, history>>
        /\ UNCHANGED <<inbox, feed, owed, news>>
    BY <1>1 DEF vars, history
  <2>2. Eventful'
    BY <2>1, Typed DEF Eventful, NobodyForgotten, Addressed
  <2> QED
    BY <2>1, <2>2, OnlyEvents
<1>2. CASE Next
  BY <1>2, AppointmentSteps, EventSteps, RunStarts, RunQueries, RunReminds, RunMarks, RunEnds,
     RunFails, Crashes, Restarts, ClockTicks DEF Next
<1> QED
  BY <1>1, <1>2

THEOREM Invariance ==
  ASSUME Assumptions
  PROVE  Spec => []IInv
BY InitIInv, NextIInv, PTL DEF Spec

\* The tables, the runs and the events on their way keep their shape.
THEOREM TypeCorrect ==
  ASSUME Assumptions
  PROVE  Spec => []TypeOK
<1>1. IInv => TypeOK
  BY DEF IInv
<1> QED
  BY <1>1, Invariance, PTL

\* A reminder goes out once, whatever the overlap of the runs and however often
\* the process restarts.
THEOREM NobodyIsRemindedTwice ==
  ASSUME Assumptions
  PROVE  Spec => []RemindedOnce
<1>1. ASSUME IInv
      PROVE  RemindedOnce
  <2>1. ASSUME NEW x \in Due \X Hours
        PROVE  told[x] <= 1
    <3>1. PICK d \in Due, h \in Hours : x = <<d, h>>
      OBVIOUS
    <3>2. Closed(d, h)
      BY <1>1 DEF IInv, Settled
    <3> QED
      BY <3>1, <3>2 DEF Closed
  <2> QED
    BY <2>1 DEF RemindedOnce
<1> QED
  BY <1>1, Invariance, PTL

\* A batch that holds them all skips no appointment, if the run of its moment
\* began and was not cut off.
THEOREM NobodyIsSkipped ==
  ASSUME Assumptions
  PROVE  Spec => []NoneSkipped
<1>1. ASSUME IInv
      PROVE  NoneSkipped
  <2> SUFFICES ASSUME Cardinality(Appts) <= Batch, NEW a \in Appts, NEW h \in Hours,
                      Live(a), rows[a].since < Moment(rows[a].start, h),
                      now > Moment(rows[a].start, h), Moment(rows[a].start, h) >= 0,
                      \A j \in Runs : Running(j) => jobs[j].at # Moment(rows[a].start, h),
                      h \notin rows[a].sent, Moment(rows[a].start, h) \notin lost
               PROVE  <<[appt |-> a, start |-> rows[a].start], h>> \in tried
    BY DEF NoneSkipped
  <2>1. Considered(a, h)
    BY <1>1 DEF IInv, Attended
  <2>2. Moment(rows[a].start, h) \in Int /\ now \in Int
    BY <1>1, MomentIs DEF Live, IInv, TypeOK, Row
  <2>3. Moment(rows[a].start, h) < now
    BY <2>2
  <2> QED
    BY <2>1, <2>3 DEF Considered, Pending
<1> QED
  BY <1>1, Invariance, PTL

\* All who have to know of a change are told, and nobody else.
THEOREM NobodyIsForgotten ==
  ASSUME Assumptions
  PROVE  Spec => []NobodyForgotten
<1>1. IInv => NobodyForgotten
  BY DEF IInv
<1> QED
  BY <1>1, Invariance, PTL
=============================================================================
