SPECIFICATION Spec
CONSTANTS
  Requests = {r1, r2}
  Appts = {a1, a2}
  Professionals = {p1}
  Services = {s1}
  SortOrder <- MCSortOrder
  StartTimes = {1, 2}
  Durations = {2}
  BlockPeriods <- MCBlockPeriods
  Grid = {1, 2}
  Opening = 0
  Closing = 4
  Buffer = 0
  MinAdvance = 0
  CancelWindow = 0
  AutoConfirm = FALSE
  PaymentRequired = TRUE
  Endpoints = {"createPublic", "createManual", "update", "cancelByToken", "changeStatus", "payment", "editService", "setServices", "pause", "removeService", "abort"}
  MaxNow = 0
  None = None
  NoAppt = NoAppt
SYMMETRY Symmetry
INVARIANTS NoDoubleBooking
PROPERTY ImplementsAgenda
CHECK_DEADLOCK FALSE
