SPECIFICATION Spec
CONSTANTS
  Requests = {r1, r2}
  Refs = {p1}
  Txs = {t1}
  Amounts = {full}
  Price = full
  Required = TRUE
  Clients = {"checkout", "return"}
  None = None
SYMMETRY Symmetry
PROPERTY PaymentIsFinal
CHECK_DEADLOCK FALSE
