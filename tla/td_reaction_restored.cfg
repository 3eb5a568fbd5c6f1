SPECIFICATION Spec
CONSTANTS
  Workers = {w1}
  Tasks = {t1}
  HookModes = {"filtered"}
  NViews = 1
  MaxEvents = 3
  MaxFaults = 0
  MaxLost = 0
  MaxSwitches = 0
  MaxLapses = 0
CHECK_DEADLOCK FALSE
INVARIANTS
  ReactionMatchesDone
