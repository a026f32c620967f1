SPECIFICATION Spec
CONSTANTS
  Requests = {r1}
  Appts = {a1, a2}
  Professionals = {p1}
  Services = {s1, s2}
  SortOrder <- MCSortOrder
  StartTimes = {1, 3}
  Durations = {1, 2}
  BlockPeriods <- MCBlockPeriods
  Grid = {1, 3}
  Opening = 0
  Closing = 4
  Buffer = 1
  MinAdvance = 1
  CancelWindow = 1
  AutoConfirm = TRUE
  PaymentRequired = TRUE
  Endpoints = {"createPublic", "update", "cancelByToken", "changeStatus", "timeOff", "remove"}
  MaxNow = 1
  None = None
  NoAppt = NoAppt
SYMMETRY Symmetry
INVARIANTS TypeOK NoOrphans SnapshotCoherent BufferKept BlocksKept
PROPERTY TerminalIsFinal
CHECK_DEADLOCK FALSE
