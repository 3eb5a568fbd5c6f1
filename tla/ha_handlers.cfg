SPECIFICATION Spec
CONSTANTS
  Hooks = {h1}
  Elsewhere = Elsewhere
  Views = {v1, v2}
  Fields = {f1}
  Windows = {3600}
  Sessions = {s1, s2}
  PageSize = 2
  HasToken = TRUE
  MaxFaults = 1
  MaxLate = 1
  MaxOutside = 1
  MaxVanish = 1
  MaxForeign = 2
  MaxOverlaps = 1
CHECK_DEADLOCK FALSE
SYMMETRY Symmetry
INVARIANTS
  TypeOK
  NoOrphanWebhook
  FilterKeepsViews
  OwnershipCheckHolds
PROPERTIES
  RetiredIsFinal
  PressCounts
