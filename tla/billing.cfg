\* One order, two payments: partial, replayed and racing settlements; no kitchen.
SPECIFICATION BillingSpec
CONSTANTS
  Procs = {p1, p2}
  Tables = {t1}
  Orders = {o1}
  Items = {i1, i2}
  Payments = {k1, k2}
  Sessions = {s1}
  grill = grill
  bar = bar
  Stations = {grill}
  StationOf <- OneStation
  Prices <- TwoLessOne
  None = None
SYMMETRY Symmetry
INVARIANTS
  PaidIsCovered
  CollectedIsSum
PROPERTIES
  CoveringPays
  ImplementsOrderBill
