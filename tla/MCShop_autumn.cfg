SPECIFICATION Spec
CONSTANTS
  Scenes <- AutumnScenes
  Requests = {r1, r2}
  Handlers <- AutumnHandlers
  Users = {owner, barber, barber2}
  Owner = owner
  Tokens = {t1}
  Links = {l1, l2}
  Checks = {r1}
  Pays = {py1, py2}
  Txs = {x1, x2}
  Plans = {"MONTHLY", "YEARLY"}
  Length <- MCPlanLength
  Trial = 1
  CacheLife = 2
  MaxDay = 3
  Slugs = {site1, site2, www}
  Reserved = {www}
  Emails = {mail1, mail2}
  Customers = {c1}
  Phones = {ph1}
  Addresses = {}
  Visits = {v1}
  Messages = {m1, m2, m3}
  ThreadLimit = 1
  Appts = {a1}
  Runs = {j1}
  Width = 2
  Hours = {2}
  Starts = {6, 7}
  Batch = 2
  MaxTime = 5
  Heard = {"message", "pending"}
  Sections = {"booking", "social"}
  Fields = {1, 2}
  Good = {default, given}
  Bad = bad
  Default = default
  Missing = missing
  Items = {1}
  Categories = {hair}
  Names <- AutumnNames
  MaxTries = 3
  Minute = 2
  DayMinutes = 6
  Change = 8
  Before <- AutumnBefore
  After <- AutumnAfter
  Professionals = {p1}
  Dates = {0, 1}
  Week = 2
  Marks = {1, 3, 5}
  Durations = {1, 2}
  Step = 2
  Buffer = 1
  MinAdvance = 1
  MaxAdvance = 1
  NoLimit = 3
  Intervals <- AutumnIntervals
  MaxRows = 1
  Start = 4
  MaxNow = 4
  Bookings = {b1, b2}
  Staff = {p1, p2}
  Days = {0, 1, 2}
  Prices = {3}
  Times = {2, 15, 16, 28}
  Lasting = 2
  WeekDays = 2
  Secrets = {"integrity", "events"}
  Signing = "integrity"
  Events = "events"
  Values = {1, 2}
  Charges = {v1}
  Envs <- MCEnvs
  None = None
  Gone = Gone
SYMMETRY Addressees
INVARIANTS
  TypeOK
  NewestLinkOnly
  RemovedIsOut
  Whole
  NoCircle
  CounterNeverOverstates
  ReadWasShown
  NobodyForgotten
  EventsAccepted
  MenuAgrees
  ListIsExact
  OneStory
PROPERTIES
  FieldsKept
CHECK_DEADLOCK FALSE
