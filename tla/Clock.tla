------------------------------- MODULE Clock --------------------------------
(***************************************************************************)
(* Wall clocks: common/utils/time.ts.  An instant is a number of ticks,    *)
(* Minute of them to a minute; dates and minutes of the day are numbers.   *)
(* The business' zone is ahead of UTC by Before ticks until instant Change *)
(* and by After ticks from then on, so that an hour is skipped or repeated *)
(* when the two differ.                                                    *)
(***************************************************************************)
EXTENDS Integers

CONSTANTS
  Minute,      \* ticks in a minute: finer than what a wall clock shows
  DayMinutes,  \* minutes in a day
  Change, Before, After

\* What the parameters must be.
ClockAssumptions ==
  /\ Minute \in Nat \ {0} /\ DayMinutes \in Nat \ {0}
  /\ Change \in Int /\ Before \in Int /\ After \in Int

offsetMs(t) == IF t < Change THEN Before ELSE After

toLocalDate(t) == (t + offsetMs(t)) \div (DayMinutes * Minute)

toLocalMinute(t) == ((t + offsetMs(t)) % (DayMinutes * Minute)) \div Minute

zonedToUtc(date, minute) ==
  LET naive == (date * DayMinutes + minute) * Minute
  IN naive - offsetMs(naive - offsetMs(naive))

dayStart(date) == zonedToUtc(date, 0)

\* Wall clocks show this minute on this date, and it is the one read back.
Exists(date, minute) ==
  /\ toLocalDate(zonedToUtc(date, minute)) = date
  /\ toLocalMinute(zonedToUtc(date, minute)) = minute

=============================================================================
