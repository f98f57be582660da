\* Pending payments reserve nothing.
SPECIFICATION BillingSpec
CONSTANTS
  Procs = {p1, p2}
  Tables = {t1}
  Orders = {o1}
  Items = {i1, i2}
  Payments = {k1, k2}
  Sessions = {s1}
  grill = grill
  bar = bar
  Stations = {grill}
  StationOf <- OneStation
  Prices = {1}
  None = None
SYMMETRY Symmetry
INVARIANT
  NoOverpayment
