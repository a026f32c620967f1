SPECIFICATION Spec
CONSTANTS
  Requests = {r1}
  Refs = {p1, p2}
  Txs = {t1, t2}
  Amounts = {full, less}
  Price = full
  Required = TRUE
  Clients = {"checkout", "return", "refund", "staff", "abort"}
  None = None
SYMMETRY Symmetry
INVARIANTS TypeOK MoneyBehindPaid LedgersAgree
PROPERTIES PaymentIsFinal PaidNotReopened
CHECK_DEADLOCK FALSE
