\* Three requests of three clients to two storages, over time.
SPECIFICATION Spec
CHECK_DEADLOCK FALSE
CONSTANTS
  Calls = {1, 2, 3}
  Clients = {"alice", "bob", "carol"}
  Proxies = {"proxy"}
  Requests <- Ways
  Stores = {s1, s2}
  MaxRequests <- TwoThenOne
  Window = 2
  CleanupInterval = 1
  MaxTrackedKeys = 2
  None = None
  MaxTime = 3
INVARIANTS
  IInv
  LocksAreOwned
  KeysAreBounded
PROPERTIES
  LimitHolds
  RefusedOnlyWhenFull
  EvictedUnderPressure
