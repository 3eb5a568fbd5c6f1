SPECIFICATION FairSpec
CONSTANTS
  Workers = {w1}
  Tasks = {t1}
  HookModes = {"filtered"}
  NViews = 1
  MaxEvents = 3
  MaxFaults = 2
  MaxLost = 0
  MaxSwitches = 0
  MaxLapses = 1
CHECK_DEADLOCK FALSE
PROPERTIES
  DeletionTakesEffect
