SPECIFICATION Spec
CONSTANTS
  Workers = {w1}
  Tasks = {t1}
  HookModes = {"alone", "embedded", "fresh", "filtered"}
  NViews = 2
  MaxEvents = 3
  MaxFaults = 1
  MaxLost = 1
  MaxSwitches = 1
  MaxLapses = 1
CHECK_DEADLOCK FALSE
INVARIANTS
  TypeOK
  DeletedCardSaysSo
  OneStrayPerFault
  DeletionRevokes
  ReactionFollows
  CardConverges
  FilteredCardSaysSo
PROPERTIES
  TaskKeepsItsCard
