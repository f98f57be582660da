\* Two parties, one after the other, on one table; no kitchen.
SPECIFICATION BillingSpec
CONSTANTS
  Procs = {p1, p2}
  Tables = {t1}
  Orders = {o1, o2}
  Items = {i1, i2}
  Payments = {k1}
  Sessions = {s1, s2}
  grill = grill
  bar = bar
  Stations = {grill}
  StationOf <- OneStation
  Prices = {1}
  None = None
SYMMETRY Symmetry
INVARIANTS
  OneOpenOrderPerTable
  ServedTablesHaveOrders
PROPERTY
  ClosedOrdersAreFrozen
