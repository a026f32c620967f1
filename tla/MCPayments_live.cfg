SPECIFICATION FairSpec
CONSTANTS
  Requests = {r1}
  Refs = {p1}
  Txs = {t1, t2}
  Amounts = {full}
  Price = full
  Required = TRUE
  Clients = {"checkout", "refund", "staff", "cash", "abort"}
  None = None
PROPERTIES ApprovedIsRecorded PaidIsConfirmed
CHECK_DEADLOCK FALSE
