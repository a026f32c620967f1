------------------------------- MODULE Notices -------------------------------
(***************************************************************************)
(* What customers and staff are told of appointments: reminders.service.ts *)
(* and the handlers of the domain events in notifications.service.ts.      *)
(*                                                                         *)
(* The job starts at every multiple of Width and works one window after    *)
(* the other; a run that takes long overlaps with the next one.  jobs[j]   *)
(* is a run: the moment it is for, the windows it has left, what it found  *)
(* in the present one, and the appointment it has to mark.  Events live in *)
(* the memory of the process, and die with it.                             *)
(***************************************************************************)
EXTENDS Integers, FiniteSetsExt, Tables

CONSTANTS
  Appts,    \* rows of appointments
  Runs,     \* runs of the job that can overlap
  Width,    \* WINDOW_MINUTES, the period of the job
  Hours,    \* REMINDER_WINDOWS: how long before the start
  Starts,   \* hours an appointment can be given
  Batch,    \* how many appointments a query takes
  MaxTime,  \* bound on the clock
  Heard,    \* what is heard of the customer: "message", "paid", "failed", "pending"
  Clients   \* which parts are used: "reminders", "events", and what may fail: "crash"

VARIABLES
  now,    \* the clock
  up,     \* the process runs
  begun,  \* the last moment the job started for
  rows,   \* the appointments
  jobs,   \* the runs of the job
  inbox,  \* domain events on their way to their handlers
  feed,   \* the notifications table, which the panel shows to staff
  told,   \* history: the reminders that went out, and how many times
  tried,  \* history: the reminders that were attempted
  lost,   \* history: the moments whose run never began or ended half-way
  owed,   \* history: whom something should be told
  news    \* history: whom it was told, or the process died with it

vars == <<now, up, begun, rows, jobs, inbox, feed, told, tried, lost, owed, news>>
history == <<told, tried, lost>>
events == <<inbox, feed, owed, news>>

Row == [start : Starts, active : BOOLEAN, since : Nat, sent : SUBSET Hours]
Due == [appt : Appts, start : Starts]
Job == [at : Nat, left : SUBSET Hours, hours : Hours \cup {None},
        due : SUBSET Due, mark : Due \cup {None}]
Parties == {"CUSTOMER", "STAFF"}
Types == {"created", "rescheduled", "confirmed", "cancelled",
          "message", "paid", "failed", "pending"}
Notice == [appt : Appts, type : Types, source : {"WEB", "ADMIN", "CUSTOMER"}]

\* What the parameters must be.
Assumptions ==
  /\ Width \in Nat \ {0} /\ Batch \in Nat /\ MaxTime \in Nat
  /\ Hours \subseteq Nat /\ Starts \subseteq Nat
  /\ IsFiniteSet(Hours) /\ IsFiniteSet(Appts)
  /\ Heard \subseteq {"message", "paid", "failed", "pending"}
  /\ None \notin Row \cup Due \cup Hours

Idle == [at |-> 0, left |-> {}, hours |-> None, due |-> {}, mark |-> None]
Running(j) == jobs[j] # Idle
Live(a) == rows[a] # None /\ rows[a].active
Set(j, fields) == jobs' = [jobs EXCEPT ![j] = fields]

Init ==
  /\ now = 0 /\ up = TRUE /\ begun = -1
  /\ rows = [a \in Appts |-> None]
  /\ jobs = [j \in Runs |-> Idle]
  /\ inbox = {} /\ feed = {} /\ owed = {} /\ news = {}
  /\ told = [x \in Due \X Hours |-> 0] /\ tried = {} /\ lost = {}

-----------------------------------------------------------------------------
(* What happens to appointments, and the events of it.                     *)

\* Mutant of Audience: the panel's own cancellations are not mailed.
AudienceStaffOnly(e) ==
  CASE e.type = "created" -> IF e.source = "WEB" THEN Parties ELSE {"CUSTOMER"}
    [] e.type \in {"cancelled", "message", "paid", "failed"} -> {"STAFF"}
    [] e.type = "pending" -> {}
    [] OTHER -> {"CUSTOMER"}

\* Whom the handler of an event tells.
Audience(e) ==
  CASE e.type = "created" -> IF e.source = "WEB" THEN Parties ELSE {"CUSTOMER"}
    [] e.type = "cancelled" -> IF e.source = "CUSTOMER" THEN {"STAFF"} ELSE {"CUSTOMER"}
    [] e.type \in {"message", "paid", "failed"} -> {"STAFF"}
    [] e.type = "pending" -> {}
    [] OTHER -> {"CUSTOMER"}

\* Who does not know yet: all but the one who acted, and the customer of a
\* booking in any case.  A payment that is still open is no news.
Concerned(e) ==
  IF e.type = "pending" THEN {}
  ELSE Parties \ (CASE e.source = "ADMIN" -> {"STAFF"}
                    [] e.source = "CUSTOMER" -> {"CUSTOMER"}
                    [] OTHER -> {})

\* The event is emitted after the commit, by the same handler.
Emit(e) ==
  IF "events" \in Clients
    THEN /\ inbox' = inbox \cup
              (IF Audience(e) = {} THEN {} ELSE {[event |-> e, to |-> Audience(e)]})
         /\ owed' = owed \cup {<<e, p>> : p \in Concerned(e)}
         /\ UNCHANGED <<feed, news>>
    ELSE UNCHANGED events

Book(a, start) ==
  /\ up /\ a \in NewId(rows) /\ start > now
  /\ rows' = [rows EXCEPT ![a] =
       [start |-> start, active |-> TRUE, since |-> now, sent |-> {}]]
  /\ \E source \in {"WEB", "ADMIN"} :
       Emit([appt |-> a, type |-> "created", source |-> source])
  /\ UNCHANGED <<now, up, begun, jobs, history>>

\* update: the marks of reminders already sent stay.
Move(a, start) ==
  /\ up /\ Live(a) /\ start > now /\ start # rows[a].start
  /\ rows' = [rows EXCEPT ![a].start = start, ![a].since = now]
  /\ Emit([appt |-> a, type |-> "rescheduled", source |-> "ADMIN"])
  /\ UNCHANGED <<now, up, begun, jobs, history>>

Confirm(a) ==
  /\ up /\ Live(a)
  /\ Emit([appt |-> a, type |-> "confirmed", source |-> "ADMIN"])
  /\ UNCHANGED <<now, up, begun, rows, jobs, history>>

Cancel(a) ==
  /\ up /\ Live(a)
  /\ rows' = [rows EXCEPT ![a].active = FALSE]
  /\ \E source \in {"ADMIN", "CUSTOMER"} :
       Emit([appt |-> a, type |-> "cancelled", source |-> source])
  /\ UNCHANGED <<now, up, begun, jobs, history>>

\* The customer writes, or pays online and the outcome is learnt.
Hear(a) ==
  /\ "events" \in Clients /\ up /\ rows[a] # None
  /\ \E type \in Heard :
       Emit([appt |-> a, type |-> type, source |-> "CUSTOMER"])
  /\ UNCHANGED <<now, up, begun, rows, jobs, history>>

\* The channels that take a notice: mail may not be configured, or the customer
\* have left no address.
supports(channel, party) ==
  \/ channel = "in-app" /\ party = "STAFF"
  \/ channel = "email" /\ party = "CUSTOMER"

\* A handler tells one party, the customer first.  Each channel may fail, which
\* does not keep the next from being tried; the query that staff are told the
\* hour by may fail as well, and then done is empty.
Tell(item) ==
  LET p == IF "CUSTOMER" \in item.to THEN "CUSTOMER" ELSE "STAFF"
      rest == item.to \ {p}
      targets == {c \in {"in-app", "email"} : supports(c, p)}
  IN /\ up
     /\ news' = news \cup {<<item.event, p>>}
     /\ inbox' = (inbox \ {item}) \cup
          (IF rest = {} THEN {} ELSE {[item EXCEPT !.to = rest]})
     /\ \E done \in SUBSET targets :
          feed' = IF "in-app" \in done
                    THEN feed \cup {[event |-> item.event, read |-> FALSE]} ELSE feed
     /\ UNCHANGED <<now, up, begun, rows, jobs, history, owed>>

\* list, of which the panel shows the last thirty, and its count of unread.
Unread == {n \in feed : ~ n.read}

markAllRead ==
  /\ Unread # {}
  /\ feed' = {[n EXCEPT !.read = TRUE] : n \in feed}
  /\ UNCHANGED <<now, up, begun, rows, jobs, history, inbox, owed, news>>

-----------------------------------------------------------------------------
(* The job.                                                                *)

IsMoment(t) == t % Width = 0

StartRun(j) ==
  /\ "reminders" \in Clients /\ up
  /\ IsMoment(now) /\ begun # now /\ ~ Running(j)
  /\ begun' = now
  /\ Set(j, [Idle EXCEPT !.at = now, !.left = Hours])
  /\ UNCHANGED <<now, up, rows, history, events>>

\* Mutant of InWindow: the window is twice as wide as the period.
InWindowTwice(start, at, h) == at + h - 2 * Width < start /\ start <= at + h

\* Mutant of InWindow: both ends are left out.
InWindowOpen(start, at, h) == at + h - Width < start /\ start < at + h

InWindow(start, at, h) == at + h - Width < start /\ start <= at + h

\* The next window: the longer one first.  The query takes Batch rows at most,
\* in no order.
Query(j) ==
  LET q == jobs[j]
      h == Max(q.left)
      found == {a \in Appts : Live(a) /\ InWindow(rows[a].start, q.at, h) /\ h \notin rows[a].sent}
  IN /\ up /\ q.left # {} /\ q.due = {} /\ q.mark = None
     /\ \E S \in kSubset(Min({Batch, Cardinality(found)}), found) :
          Set(j, [q EXCEPT !.left = @ \ {h}, !.hours = h,
                    !.due = {[appt |-> a, start |-> rows[a].start] : a \in S}])
     /\ UNCHANGED <<now, up, begun, rows, history, events>>

\* notify: as the run read the appointment.  It counts as sent if some channel
\* delivered it; otherwise nothing is written.
Remind(j) ==
  LET q == jobs[j] IN
  /\ up /\ q.mark = None
  /\ \E d \in q.due :
       /\ tried' = tried \cup {<<d, q.hours>>}
       /\ \/ /\ told' = [told EXCEPT ![<<d, q.hours>>] = @ + 1]
             /\ Set(j, [q EXCEPT !.due = @ \ {d}, !.mark = d])
          \/ /\ Set(j, [q EXCEPT !.due = @ \ {d}])
             /\ UNCHANGED told
  /\ UNCHANGED <<now, up, begun, rows, lost, events>>

Mark(j) ==
  LET q == jobs[j] IN
  /\ up /\ q.mark # None
  /\ rows' = [rows EXCEPT ![q.mark.appt].sent = @ \cup {q.hours}]
  /\ Set(j, [q EXCEPT !.mark = None])
  /\ UNCHANGED <<now, up, begun, history, events>>

EndRun(j) ==
  /\ up /\ Running(j)
  /\ jobs[j].left = {} /\ jobs[j].due = {} /\ jobs[j].mark = None
  /\ Set(j, Idle)
  /\ UNCHANGED <<now, up, begun, rows, history, events>>

\* A query, or the update that marks, fails on its own: nothing catches it, and
\* the run leaves the rest undone.
FailRun(j) ==
  LET q == jobs[j] IN
  /\ "crash" \in Clients /\ up /\ Running(j)
  /\ q.mark # None \/ (q.due = {} /\ q.left # {})
  /\ Set(j, Idle)
  /\ lost' = lost \cup {q.at}
  /\ UNCHANGED <<now, up, begun, rows, told, tried, events>>

-----------------------------------------------------------------------------
Crash ==
  /\ "crash" \in Clients /\ up
  /\ up' = FALSE
  /\ jobs' = [j \in Runs |-> Idle]
  /\ lost' = lost \cup {jobs[j].at : j \in {i \in Runs : Running(i)}}
  /\ inbox' = {}
  /\ news' = news \cup UNION {{<<i.event, p>> : p \in i.to} : i \in inbox}
  /\ UNCHANGED <<now, begun, rows, feed, told, tried, owed>>

Restart ==
  /\ ~ up /\ up' = TRUE
  /\ UNCHANGED <<now, begun, rows, jobs, history, events>>

\* The scheduler never misses a moment while the process runs.
Tick ==
  /\ "reminders" \in Clients /\ now < MaxTime
  /\ up /\ IsMoment(now) => begun = now
  /\ now' = now + 1
  /\ lost' = IF IsMoment(now) /\ begun # now THEN lost \cup {now} ELSE lost
  /\ UNCHANGED <<up, begun, rows, jobs, told, tried, events>>

Next ==
  \/ \E a \in Appts :
       \/ Confirm(a) \/ Cancel(a) \/ Hear(a)
       \/ \E s \in Starts : Book(a, s) \/ Move(a, s)
  \/ \E i \in inbox : Tell(i)
  \/ markAllRead
  \/ \E j \in Runs : StartRun(j) \/ Query(j) \/ Remind(j) \/ Mark(j) \/ EndRun(j)
                  \/ FailRun(j)
  \/ Crash \/ Restart \/ Tick

Spec == Init /\ [][Next]_vars
-----------------------------------------------------------------------------
(* Properties.                                                             *)

\* Clock, tables, runs and events have their shape.
TypeOK ==
  /\ now \in Nat /\ up \in BOOLEAN /\ begun \in Nat \cup {-1}
  /\ rows \in [Appts -> Row \cup {None}]
  /\ jobs \in [Runs -> Job]
  /\ inbox \subseteq [event : Notice, to : SUBSET Parties]
  /\ feed \subseteq [event : Notice, read : BOOLEAN]
  /\ told \in [Due \X Hours -> Nat] /\ tried \subseteq Due \X Hours
  /\ lost \subseteq Nat

\* Nobody gets the same reminder of the same hour twice, although it is marked
\* after it is sent: runs that overlap look at windows that do not.
RemindedOnce == \A x \in Due \X Hours : told[x] <= 1

\* The first run that sees an hour in its window.
Moment(start, h) == CHOOSE t \in (start - h)..(start - h + Width - 1) : IsMoment(t)

\* The window is as wide as the period so that no appointment is skipped: one
\* that had its hour before the run of its moment began has been reminded, or
\* at least tried, when that run is over, unless the process was down or the
\* database failed the run.  A batch has to hold them all, for what it leaves is
\* in no later window.
NoneSkipped ==
  Cardinality(Appts) <= Batch => \A a \in Appts, h \in Hours :
    LET t == Moment(rows[a].start, h)
        over == now > t /\ t >= 0 /\ \A j \in Runs : Running(j) => jobs[j].at # t
    IN Live(a) /\ rows[a].since < t /\ over /\ h \notin rows[a].sent /\ t \notin lost =>
         <<[appt |-> a, start |-> rows[a].start], h>> \in tried

\* Whoever does not know of a change yet is told, and nobody else: when no
\* event is on its way, all that was owed was told or died with the process;
\* and the panel lists nothing that staff were not to be told.
NobodyForgotten ==
  /\ owed = news \cup UNION {{<<i.event, p>> : p \in i.to} : i \in inbox}
  /\ \A n \in feed : <<n.event, "STAFF">> \in news
=============================================================================
