SPECIFICATION Spec
CONSTANTS
  Workers = {w1}
  Tasks = {t1}
  HookModes = {"embedded"}
  NViews = 1
  MaxEvents = 2
  MaxFaults = 1
  MaxLost = 0
  MaxSwitches = 0
  MaxLapses = 0
CHECK_DEADLOCK FALSE
INVARIANTS
  DeletedTaskNotActionable
