------------------------------ MODULE Calendar ------------------------------
(***************************************************************************)
(* The hours a business offers: availability/engine.ts on the tables       *)
(* availability.service.ts loads for it, and the handlers that write the   *)
(* weekly hours (professionals.setWorkingHours, settings.update).          *)
(*                                                                         *)
(* Booking.tla takes one day and one range of hours for granted and asks   *)
(* what requests in flight do to each other; this module is the converse:  *)
(* one request at a time, over days of several ranges, in a zone whose     *)
(* clock changes.  Rows of appointments and time off are only intervals    *)
(* here, a None for those that close the business.                         *)
(***************************************************************************)
EXTENDS Clock, FiniteSets, SequencesExt

CONSTANTS
  Professionals,
  Dates,        \* dates asked about
  Week,         \* days in a week: the weekday of a date is date % Week
  Marks,        \* minutes of the day hours begin and end at
  Durations,    \* durationMinutes of the services
  Step,         \* booking.slotStepMinutes
  Buffer,       \* booking.bufferMinutes
  MinAdvance,   \* booking.minAdvanceMinutes
  MaxAdvance,   \* booking.maxAdvanceDays
  NoLimit,      \* days ahead the panel may book, 3650 in the code
  Intervals,    \* <<startsAt, endsAt>> of the rows, in ticks
  MaxRows,      \* bound on the rows
  Start, MaxNow,\* first and last value of the clock
  None

\* What the parameters must be.
Assumptions ==
  /\ ClockAssumptions
  /\ Marks \subseteq 0 .. DayMinutes /\ Dates \subseteq Int
  /\ Durations \subseteq Nat \ {0} /\ Intervals \subseteq Int \X Int
  /\ {Week, Step} \subseteq Nat \ {0}
  /\ {Buffer, MinAdvance, MaxAdvance, NoLimit, MaxRows} \subseteq Nat
  /\ Start \in Int /\ MaxNow \in Int

VARIABLES
  working,   \* working_hours: a set of ranges for each professional and weekday
  opening,   \* settings.openingHours: a range or None for each weekday
  rows,      \* appointments and time off in the way
  now

vars == <<working, opening, rows, now>>

Weekdays == 0 .. Week - 1
Ranges == {r \in [start : Marks, end : Marks] : r.start < r.end}
Rows == [who : Professionals \cup {None}, at : Intervals]

Init ==
  /\ working = [p \in Professionals |-> [w \in Weekdays |-> {}]]
  /\ opening = [w \in Weekdays |-> None]
  /\ rows = {} /\ now = Start

-----------------------------------------------------------------------------
(* The engine.                                                             *)

Later(a, b) == IF a < b THEN b ELSE a
Earlier(a, b) == IF a < b THEN a ELSE b

\* The panel's bookings know no limit.
Ahead(web) == IF web THEN MaxAdvance ELSE NoLimit
Earliest(web) == now + (IF web THEN MinAdvance * Minute ELSE 0)

\* dayContext: all that the engine is told about a day.
dayContext(p, date, web, busy) ==
  [opening |-> opening[date % Week], working |-> working[p][date % Week],
   busy |-> busy, earliest |-> Earliest(web), ahead |-> Ahead(web)]

Clipped(ctx) ==
  IF ctx.opening = None THEN {}
  ELSE {r \in {[start |-> Later(w.start, ctx.opening.start),
                end |-> Earlier(w.end, ctx.opening.end)] : w \in ctx.working} :
          r.start < r.end}

\* Mutant of Join: ranges that only touch stay apart.
JoinCrossing(merged, r) ==
  IF merged # <<>> /\ r.start < Last(merged).end
    THEN [merged EXCEPT ![Len(merged)].end = Later(@, r.end)]
    ELSE Append(merged, r)

Join(merged, r) ==
  IF merged # <<>> /\ r.start <= Last(merged).end
    THEN [merged EXCEPT ![Len(merged)].end = Later(@, r.end)]
    ELSE Append(merged, r)

\* The range that begins last: the others are joined before it.
Latest(ranges) == CHOOSE r \in ranges : \A s \in ranges : s.start <= r.start

effectiveRanges(ctx) ==
  ToSet(MapThenFoldSet(LAMBDA r, merged : Join(merged, r), <<>>, LAMBDA r : r,
                       Latest, Clipped(ctx)))

Inside(minute, len, ctx) ==
  \E r \in effectiveRanges(ctx) : minute >= r.start /\ minute + len <= r.end

withinBookingWindow(date, ahead) ==
  date >= toLocalDate(now) /\ date <= toLocalDate(now) + ahead

\* Mutant of Loaded: only what begins in the days asked about.
LoadedFromTheDay(p, from, to) ==
  {b \in rows : /\ b.who \in {p, None}
                /\ b.at[1] < dayStart(to + 1) /\ b.at[1] >= dayStart(from)}

\* loadBusy: what reaches into the days asked about.
Loaded(p, from, to) ==
  {b \in rows : /\ b.who \in {p, None}
                /\ b.at[1] < dayStart(to + 1) /\ b.at[2] > dayStart(from)}

overlapsBusy(start, len, busy) ==
  \E b \in busy : /\ start < b.at[2] + Buffer * Minute
                  /\ start + len * Minute > b.at[1] - Buffer * Minute

\* Mutant of Minutes: steps are counted from where a range begins.
MinutesFromOpening(date, len, ctx) ==
  {m \in 0 .. DayMinutes :
     /\ withinBookingWindow(date, ctx.ahead)
     /\ \E r \in effectiveRanges(ctx) :
          m >= r.start /\ m + len <= r.end /\ (m - r.start) % Step = 0
     /\ zonedToUtc(date, m) >= ctx.earliest
     /\ ~ overlapsBusy(zonedToUtc(date, m), len, ctx.busy)}

\* computeSlots, as minutes of the day.
Minutes(date, len, ctx) ==
  {m \in 0 .. DayMinutes :
     /\ withinBookingWindow(date, ctx.ahead)
     /\ m % Step = 0 /\ Inside(m, len, ctx)
     /\ zonedToUtc(date, m) >= ctx.earliest
     /\ ~ overlapsBusy(zonedToUtc(date, m), len, ctx.busy)}

\* getDaySlots, and the number of hours getDays gives for one of its days.
Slots(p, date, len, web) ==
  {zonedToUtc(date, m) :
     m \in Minutes(date, len, dayContext(p, date, web, Loaded(p, date, date)))}
DayCount(p, date, from, to, len, web) ==
  Cardinality({zonedToUtc(date, m) :
     m \in Minutes(date, len, dayContext(p, date, web, Loaded(p, from, to)))})

\* resolveSlot asks checkSlot about the date that wall clocks show at t.
checkSlot(p, t, len, web, grid) ==
  LET date == toLocalDate(t)
      minute == toLocalMinute(t)
      ctx == dayContext(p, date, web, Loaded(p, date, date))
  IN IF ~ withinBookingWindow(date, ctx.ahead) THEN "OUT_OF_WINDOW"
     ELSE IF t < ctx.earliest THEN "TOO_SOON"
     ELSE IF ~ Inside(minute, len, ctx) THEN "OUTSIDE_HOURS"
     ELSE IF grid /\ minute % Step # 0 THEN "OFF_GRID"
     ELSE IF overlapsBusy(t, len, ctx.busy) THEN "BUSY"
     ELSE "OK"

-----------------------------------------------------------------------------
(* What changes the hours.                                                 *)

\* The ranges of one day may touch and may not cross.
Apart(ranges) ==
  \A r, s \in ranges : r # s => r.end <= s.start \/ s.end <= r.start

\* The weekly hours are replaced as a whole.
setWorkingHours(p) ==
  /\ \E days \in [Weekdays -> {s \in SUBSET Ranges : Apart(s)}] :
       working' = [working EXCEPT ![p] = days]
  /\ UNCHANGED <<opening, rows, now>>

\* settings.update("openingHours"): the day closed, or open before it closes.
setOpening ==
  /\ \E days \in [Weekdays -> Ranges \cup {None}] : opening' = days
  /\ UNCHANGED <<working, rows, now>>

\* Some handler writes or takes back an appointment or a time off.
Occupy ==
  /\ \/ \E row \in Rows : Cardinality(rows) < MaxRows /\ rows' = rows \cup {row}
     \/ \E row \in rows : rows' = rows \ {row}
  /\ UNCHANGED <<working, opening, now>>

Tick ==
  /\ now < MaxNow
  /\ now' = now + 1
  /\ UNCHANGED <<working, opening, rows>>

Next ==
  \/ \E p \in Professionals : setWorkingHours(p)
  \/ setOpening \/ Occupy \/ Tick

Spec == Init /\ [][Next]_vars

-----------------------------------------------------------------------------
(* Properties.                                                             *)

\* The tables keep their shape, hours of one day never cross.
TypeOK ==
  /\ working \in [Professionals -> [Weekdays -> SUBSET Ranges]]
  /\ \A p \in Professionals, w \in Weekdays : Apart(working[p][w])
  /\ opening \in [Weekdays -> Ranges \cup {None}]
  /\ rows \subseteq Rows
  /\ now \in Int

\* An hour of the list is accepted, and an hour that is accepted is on the
\* list, as long as wall clocks show it: computeSlots walks minutes of the
\* day and converts them, checkSlot converts an instant back.
ListIsExact ==
  \A p \in Professionals, date \in Dates, len \in Durations, web \in BOOLEAN :
    LET listed == Minutes(date, len, dayContext(p, date, web, Loaded(p, date, date)))
    IN \A m \in 0 .. DayMinutes : Exists(date, m) =>
      (m \in listed <=> checkSlot(p, zonedToUtc(date, m), len, web, TRUE) = "OK")

\* What is accepted lies in hours worked and open minute by minute, and
\* hours without a break take a service across the ranges they are kept in.
WholeServiceWorked ==
  \A p \in Professionals, date \in Dates, len \in Durations :
    LET ctx == dayContext(p, date, TRUE, {}) IN
    \A m \in 0 .. DayMinutes - 1 :
      Inside(m, len, ctx) <=>
        \A x \in m .. m + len - 1 :
          /\ ctx.opening # None
          /\ ctx.opening.start <= x /\ x < ctx.opening.end
          /\ \E r \in ctx.working : r.start <= x /\ x < r.end

\* A day has the same hours in the month's calendar as on its own, if its
\* services and the buffers around them lie between its midnights: no row that
\* counts is left out because of where loadBusy cuts the days.
DaysAgree ==
  \A p \in Professionals, date \in Dates, len \in Durations, web \in BOOLEAN :
    (\A m \in 0 .. DayMinutes : Inside(m, len, dayContext(p, date, web, {})) =>
       /\ zonedToUtc(date, m) - Buffer * Minute >= dayStart(date)
       /\ zonedToUtc(date, m) + (len + Buffer) * Minute <= dayStart(date + 1))
    => \A from \in Dates, to \in Dates : from <= date /\ date <= to =>
         DayCount(p, date, from, to, len, web) = Cardinality(Slots(p, date, len, web))

\* "La web publica solo acepta horas del listado": of all instants, the web
\* accepts the listed ones only.
AcceptedIsListed ==
  \A p \in Professionals, len \in Durations, t \in Start .. MaxNow + DayMinutes * Minute :
    checkSlot(p, t, len, TRUE, TRUE) = "OK" => t \in Slots(p, toLocalDate(t), len, TRUE)
=============================================================================
