------------------------------- MODULE Reports ------------------------------
(***************************************************************************)
(* What the panel reads of the appointments: reports.service.ts over a     *)
(* range of days, dashboard.service.ts for one, the diary, the customers'  *)
(* cards and the search box.  Reports and dashboard convert dates to       *)
(* instants to query, and the instants of the rows back to dates to group  *)
(* them by day.                                                            *)
(***************************************************************************)
EXTENDS Clock, FiniteSetsExt

CONSTANTS
  Appts,          \* ids of rows of appointments
  Professionals,
  Customers,
  Dates,          \* dates asked about
  Prices,         \* priceCents of the services
  Starts,         \* startsAt values, in ticks
  Length,         \* from startsAt to endsAt
  WeekDays,       \* REVENUE_DAYS of the dashboard
  None

VARIABLE appts   \* the appointments table: None or a row

vars == appts

Statuses == {"PENDING", "CONFIRMED", "IN_PROGRESS", "COMPLETED", "CANCELLED", "NO_SHOW"}
ActiveStatuses == {"PENDING", "CONFIRMED", "IN_PROGRESS", "COMPLETED"}

Row ==
  [startsAt : Starts, prof : Professionals, customer : Customers,
   price : Prices, status : Statuses]

\* Who asks: an owner or administrator, or a professional (without a card, if
\* pid is None) to whom the owner has opened the whole diary or the customers.
User ==
  [admin : BOOLEAN, pid : Professionals \cup {None},
   agenda : {"own", "all"}, clients : BOOLEAN]

\* What the parameters must be.
Assumptions ==
  /\ ClockAssumptions
  /\ Dates \subseteq Int /\ Prices \subseteq Nat /\ Starts \subseteq Int
  /\ WeekDays \in Nat \ {0} /\ Length \in Nat \ {0}
  /\ IsFiniteSet(Appts) /\ IsFiniteSet(Professionals) /\ IsFiniteSet(Customers)
  /\ None \notin Row \cup Professionals

Init == appts = [a \in Appts |-> None]

\* appointments.service.ts, as far as reports see it: rows are written, with
\* the price of that moment, moved and given a status.
Write(a) == \E row \in Row : row # appts[a] /\ appts' = [appts EXCEPT ![a] = row]

Next == \E a \in Appts : Write(a)

Spec == Init /\ [][Next]_vars

-----------------------------------------------------------------------------
(* Who sees what: access.ts.                                               *)

seesWholeAgenda(u) == u.admin \/ u.agenda = "all"
canSee(u) == u.admin \/ u.clients

\* The professionals whose rows a user sees.
professionalScope(u) ==
  IF seesWholeAgenda(u) THEN Professionals ELSE {u.pid} \cap Professionals

Seen(u) == {a \in Appts : appts[a] # None /\ appts[a].prof \in professionalScope(u)}
Of(c, set) == {a \in set : appts[a].customer = c}
Every == {a \in Appts : appts[a] # None}

-----------------------------------------------------------------------------
(* The queries.                                                            *)

\* Rows that begin from the first moment of a date to the last of another.
During(set, from, to) ==
  {a \in set :
     appts[a].startsAt >= dayStart(from) /\ appts[a].startsAt < dayStart(to + 1)}

Having(set, statuses) == {a \in set : appts[a].status \in statuses}
Revenue(set) == MapThenSumSet(LAMBDA a : appts[a].price, set)

\* Mutant of OnDate: the date of the server, which runs in UTC.
OnServerDate(set, date) ==
  {a \in set : appts[a].startsAt \div (DayMinutes * Minute) = date}

OnDate(set, date) == {a \in set : toLocalDate(appts[a].startsAt) = date}

\* reports.summary: totals, days and professionals.
report(from, to) ==
  LET rows == During(Every, from, to)
      completed == Having(rows, {"COMPLETED"})
      lost == Cardinality(Having(rows, {"CANCELLED", "NO_SHOW"}))
  IN [totals |->
        [appointments |-> Cardinality(rows),
         completed |-> Cardinality(completed),
         upcoming |-> Cardinality(Having(rows, {"PENDING", "CONFIRMED"})),
         revenue |-> Revenue(completed),
         lostPerMille |-> IF rows = {} THEN 0
                          ELSE (2000 * lost + Cardinality(rows)) \div (2 * Cardinality(rows))],
      byDay |-> [date \in from .. to |->
        [revenue |-> Revenue(OnDate(completed, date)),
         appointments |-> Cardinality(OnDate(completed, date))]],
      byProfessional |-> [p \in {appts[a].prof : a \in completed} |->
        Revenue({a \in completed : appts[a].prof = p})]]

\* Mutant of revenueFrom: one day short.
weekAfter(date) == dayStart(date - (WeekDays - 2))

revenueFrom(date) == dayStart(date - (WeekDays - 1))

\* dashboard.summary: the day of whoever asks.
dashboard(date, u) ==
  LET today == During(Seen(u), date, date)
      recent == {a \in Having(Seen(u), {"COMPLETED"}) :
        /\ appts[a].startsAt >= revenueFrom(date)
        /\ appts[a].startsAt < dayStart(date + 1)}
  IN [appointments |-> Cardinality(Having(today, ActiveStatuses)),
      revenue |-> Revenue(Having(today, {"COMPLETED"})),
      expected |-> Revenue(Having(today, ActiveStatuses)),
      agenda |-> today \ Having(today, {"CANCELLED"}),
      byDay |-> [d \in date - (WeekDays - 1) .. date |->
        [revenue |-> Revenue(OnDate(recent, d)),
         appointments |-> Cardinality(OnDate(recent, d))]]]

\* appointments.list: the diary from one instant to another takes in whatever
\* is still going on at the first.
diary(u, from, to) ==
  {a \in Seen(u) : appts[a].startsAt < to /\ appts[a].startsAt + Length > from}

\* The last visit that was kept or still may be.
lastVisit(c, now) ==
  LET past == {appts[a].startsAt : a \in Having(Of(c, Every), ActiveStatuses)}
                \cap {t \in Starts : t <= now}
  IN IF past = {} THEN None ELSE Max(past)

\* customers.list: who sees the whole diary sees every customer.
customerList(u, now) ==
  [c \in {d \in Customers : canSee(u) \/ seesWholeAgenda(u) \/ Of(d, Seen(u)) # {}} |->
     [appointments |-> Cardinality(Of(c, Every)), last |-> lastVisit(c, now)]]

\* Mutant of Opens: the permission is forgotten.
OpensOwn(u, c) == Of(c, Seen(u)) # {}

\* findVisible: the cards that open.
Opens(u, c) == canSee(u) \/ Of(c, Seen(u)) # {}

\* customers.get, once the card opens.
customerCard(c, now) ==
  LET rows == Of(c, Every)
      coming == {appts[a].startsAt : a \in Having(rows, {"PENDING", "CONFIRMED"})}
                  \cap {t \in Starts : t > now}
  IN [appointments |-> Cardinality(rows),
      spent |-> Revenue(Having(rows, {"COMPLETED"})),
      last |-> lastVisit(c, now),
      next |-> IF coming = {} THEN None ELSE Min(coming)]

\* customers.appointments: a page of the card.
customerVisits(u, c) == Of(c, Seen(u))

\* search, of which the page shows the first five: the customers that match,
\* and the appointments of a customer or a service that does.
search(u, matching, services) ==
  [customers |-> {c \in matching : seesWholeAgenda(u) \/ Of(c, Seen(u)) # {}},
   appointments |-> {a \in Seen(u) : appts[a].customer \in matching \/ a \in services}]

-----------------------------------------------------------------------------
(* Properties.                                                             *)

TypeOK == appts \in [Appts -> Row \cup {None}]

\* The clock of the zone shows the midnights where a range of days is cut, and
\* each of them once: zonedToUtc gives an instant before or after one that is
\* skipped, and one of two for one that is repeated.
Midnights(from, to) ==
  \A d \in from .. to + 1 :
    LET midnight == d * DayMinutes * Minute IN
    /\ dayStart(d) + offsetMs(dayStart(d)) = midnight
    /\ midnight \notin Change + After .. Change + Before - 1

\* The days of a report add up to its totals, and so do its professionals:
\* no completed appointment between the two instants queried falls on a date
\* outside the range, where no day would show it.
DaysAddUp ==
  \A from, to \in Dates : from <= to /\ Midnights(from, to) =>
    LET r == report(from, to) IN
    /\ MapThenSumSet(LAMBDA d : r.byDay[d].revenue, from .. to) = r.totals.revenue
    /\ MapThenSumSet(LAMBDA d : r.byDay[d].appointments, from .. to) = r.totals.completed
    /\ MapThenSumSet(LAMBDA p : r.byProfessional[p], DOMAIN r.byProfessional)
         = r.totals.revenue

TheOwner == [admin |-> TRUE, pid |-> None, agenda |-> "own", clients |-> FALSE]
Alone(p) == [admin |-> FALSE, pid |-> p, agenda |-> "own", clients |-> FALSE]

\* Each of the last days has the revenue of the report of that day, what the
\* owner sees is what the professionals see together, and the diary of the
\* day has all the appointments the day counts.
DashboardsAgree ==
  \A date \in Dates : Midnights(date - (WeekDays - 1), date) =>
    LET owner == dashboard(date, TheOwner) IN
    /\ \A d \in DOMAIN owner.byDay : owner.byDay[d] = report(d, d).byDay[d]
    /\ owner.byDay[date].revenue = owner.revenue
    /\ MapThenSumSet(LAMBDA p : dashboard(date, Alone(p)).expected, Professionals)
         = owner.expected
    /\ owner.agenda \subseteq diary(TheOwner, dayStart(date), dayStart(date + 1))

\* What customers spent adds up to what was earned, and a visit is past or
\* coming.
CardsAddUp ==
  \A now \in Starts :
    LET card == [c \in Customers |-> customerCard(c, now)] IN
    /\ MapThenSumSet(LAMBDA c : card[c].spent, Customers)
         = Revenue(Having(Every, {"COMPLETED"}))
    /\ \A c \in Customers :
         /\ card[c].last # None => card[c].last <= now
         /\ card[c].next # None => card[c].next > now

\* A customer who is listed or found has a card that opens, except, for who
\* sees the whole diary but not the customers, one who never booked.
CardsOpen ==
  \A u \in User :
    LET list == customerList(u, Max(Starts))
        found == search(u, Customers, {})
    IN /\ \A c \in DOMAIN list :
            Opens(u, c) \/ (seesWholeAgenda(u) /\ Of(c, Every) = {})
       /\ found.customers \subseteq DOMAIN list
       /\ \A a \in found.appointments :
            LET c == appts[a].customer IN Opens(u, c) /\ a \in customerVisits(u, c)

\* Whichever page of the panel one looks at, the same appointments tell one
\* story.
OneStory == DaysAddUp /\ DashboardsAgree /\ CardsAddUp /\ CardsOpen
=============================================================================
