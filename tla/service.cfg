\* Every handler of the four services, two at a time, on one table and one order
\* whose two lines go to different stations.
SPECIFICATION Spec
CONSTANTS
  Procs = {p1, p2}
  Tables = {t1}
  Orders = {o1}
  Items = {i1, i2}
  Payments = {k1}
  Sessions = {s1}
  grill = grill
  bar = bar
  Stations = {grill, bar}
  StationOf <- TwoStations
  Prices = {1}
  None = None
SYMMETRY SymmetryButItems
INVARIANTS
  LocksAreHeld
  DeadlocksAreOffline
  IInv
PROPERTY
  LastBumpFinishes
