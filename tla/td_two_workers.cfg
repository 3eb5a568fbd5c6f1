SPECIFICATION Spec
CONSTANTS
  Workers = {w1, w2}
  Tasks = {t1}
  HookModes = {"embedded", "filtered"}
  NViews = 1
  MaxEvents = 3
  MaxFaults = 1
  MaxLost = 0
  MaxSwitches = 0
  MaxLapses = 0
CHECK_DEADLOCK FALSE
SYMMETRY Symmetry
PROPERTIES
  DeletionIsFinal
