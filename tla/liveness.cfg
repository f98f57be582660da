\* Termination of requests on the smallest instance that can deadlock.
SPECIFICATION FairSpec
CONSTANTS
  Procs = {p1, p2}
  Tables = {t1}
  Orders = {o1}
  Items = {i1}
  Payments = {k1}
  Sessions = {s1}
  grill = grill
  bar = bar
  Stations = {grill}
  StationOf <- OneStation
  Prices = {1}
  None = None
PROPERTY
  RequestsFinish
