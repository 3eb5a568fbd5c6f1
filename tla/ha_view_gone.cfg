SPECIFICATION Spec
CONSTANTS
  Hooks = {h1}
  Elsewhere = Elsewhere
  Views = {v1, v2}
  Fields = {f1}
  Windows = {3600}
  Sessions = {s1}
  PageSize = 2
  HasToken = TRUE
  MaxFaults = 0
  MaxLate = 0
  MaxOutside = 0
  MaxVanish = 1
  MaxForeign = 0
  MaxOverlaps = 0
CHECK_DEADLOCK FALSE
INVARIANTS
  FilterHasViews
