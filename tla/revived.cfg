\* Two members of staff answer one call at once.
SPECIFICATION Spec
CONSTANTS
  Procs = {p1, p2, m}
  Monitors = {m}
  Tables = {t1}
  Types = {water}
  Requests = {r1, r2}
  None = None
  Cooldown = 1
  Thresholds = {2}
  MaxTime = 2
  MaxCrashes = 1
SYMMETRY Symmetry
PROPERTY
  OnlyLegalAnswers
