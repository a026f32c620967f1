SPECIFICATION Spec
CONSTANTS
  Scenes <- SpringScenes
  Requests = {r1, r2}
  Handlers <- SpringHandlers
  Users = {owner}
  Owner = owner
  Tokens = {t1, t2, t3}
  Links = {l1}
  Checks = {r1}
  Pays = {py1, py2}
  Txs = {x1, x2}
  Plans = {"MONTHLY", "YEARLY"}
  Length <- MCPlanLength
  Trial = 1
  CacheLife = 2
  MaxDay = 3
  Slugs = {site1, site2, www}
  Reserved = {www}
  Emails = {mail1, mail2}
  Customers = {c1, c2}
  Phones = {ph1, ph2}
  Addresses = {e1}
  Visits = {v1, v2}
  Messages = {}
  ThreadLimit = 1
  Appts = {a1}
  Runs = {j1, j2}
  Width = 2
  Hours = {2, 4}
  Starts = {6, 8}
  Batch = 2
  MaxTime = 5
  Heard = {}
  Sections = {"booking", "social"}
  Fields = {1, 2}
  Good = {default, given}
  Bad = bad
  Default = default
  Missing = missing
  Items = {1, 2}
  Categories = {}
  Names <- SpringNames
  MaxTries = 3
  Minute = 2
  DayMinutes = 6
  Change = 8
  Before <- SpringBefore
  After <- SpringAfter
  Professionals = {p1}
  Dates = {0, 1}
  Week = 1
  Marks = {1, 3, 5}
  Durations = {1, 2}
  Step = 2
  Buffer = 1
  MinAdvance = 1
  MaxAdvance = 1
  NoLimit = 3
  Intervals <- SpringIntervals
  MaxRows = 1
  Start = 4
  MaxNow = 10
  Bookings = {b1, b2}
  Staff = {p1, p2}
  Days = {0, 1, 2}
  Prices = {3}
  Times = {2, 15, 16, 28}
  Lasting = 2
  WeekDays = 2
  Secrets = {"integrity", "events"}
  Signing = "integrity"
  Events = "events"
  Values = {1, 2}
  Charges = {v1}
  Envs <- MCEnvs
  None = None
  Gone = Gone
INVARIANTS
  OneLivePerFamily
  ResetClosesSessions
  CountsOnce
  AnswerWasTrue
  RemindedOnce
  NoneSkipped
  SlugsFreed
  ListIsExact
  WholeServiceWorked
  DaysAgree
PROPERTIES
  PaidTimeKept
  AddressKept
CHECK_DEADLOCK FALSE
