\* One table, one type, two calls a minute apart; a worker and two handlers.
SPECIFICATION FairSpec
CONSTANTS
  Procs = {p1, p2, m}
  Monitors = {m}
  Tables = {t1}
  Types = {water}
  Requests = {r1, r2}
  None = None
  Cooldown = 1
  Thresholds = {2}
  MaxTime = 2
  MaxCrashes = 1
INVARIANTS
  IInv
  OneLiveRequest
  RequestsAreSpaced
  EscalatedOnce
PROPERTIES
  OnlyWaitingEscalate
  OverdueEscalates
  ImplementsCallBell
