\* A bump decides on an item it read before the lock.
SPECIFICATION OrderingSpec
CONSTANTS
  Procs = {p1, p2}
  Tables = {t1}
  Orders = {o1}
  Items = {i1, i2}
  Payments = {k1}
  Sessions = {s1, s2}
  grill = grill
  bar = bar
  Stations = {grill}
  StationOf <- OneStation
  Prices = {1}
  None = None
SYMMETRY Symmetry
PROPERTY
  ReadyMeansBumped
