SPECIFICATION Spec
CONSTANTS
  Hooks = {h1, h2}
  Bodies = {b1, bad}
  Malformed = {bad}
  Handlers = {s1, s2}
  Nobody = Nobody
  MaxRecords = 3
  MaxFaults = 2
  MaxEdits = 1
CHECK_DEADLOCK FALSE
INVARIANTS
  TypeOK
  AcceptedIsStored
  QueueIsReadable
PROPERTIES
  ImplementsInbox
  EveryRecordArrives
