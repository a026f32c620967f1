SPECIFICATION Spec
CONSTANTS
  Minute = 2
  DayMinutes = 6
  Change = 0
  Before = 0
  After = 0
  Professionals = {p1}
  Dates <- Days
  Week = 1
  Marks = {1, 3, 5}
  Durations = {1, 2}
  Step = 2
  Buffer = 1
  MinAdvance = 1
  MaxAdvance = 1
  NoLimit = 3
  Intervals <- Periods
  MaxRows = 1
  Start = 0
  MaxNow = 6
  None = None
INVARIANT AcceptedIsListed
CHECK_DEADLOCK FALSE
