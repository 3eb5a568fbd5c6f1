SPECIFICATION Spec
CONSTANTS
  b1 = b1
  b2 = b2
  v1 = v1
  v2 = v2
  Titles = {t1, t2}
  Idents = {i1, i2}
  Dues = {}
  Unset = Unset
  ZeroTime = ZeroTime
  LabelSets = {{1, 2}}
  Views = {v1, v2}
  Bucket <- MCBucket
  HookModes <- MCHookModes
  MaxChanges = 3
  MaxFaults = 1
  MaxEdits = 1
CHECK_DEADLOCK FALSE
SYMMETRY Symmetry
INVARIANTS
  TypeOK
  BucketsAreReal
  NoFalseAlarm
  RepliesNameChanges
  CardIsCurrent
  NoticeRepeatsCard
