SPECIFICATION Spec
CONSTANTS
  Requests = {r1, r2}
  Pays = {p1, p2}
  Txs = {t1, t2}
  MONTHLY = MONTHLY
  YEARLY = YEARLY
  Plans = {MONTHLY, YEARLY}
  Length <- PlanLength
  Trial = 1
  CacheLife = 2
  MaxTime = 4
  None = None
SYMMETRY Symmetry
INVARIANT CountsOnce
CHECK_DEADLOCK FALSE
