SPECIFICATION Spec
CONSTANTS
  Bodies = {b1, b2}
  Workers = {w1, w2}
  Poison = {b2}
  Lease = 2
  MaxDelivery = 2
  MaxBackoff = 3
  AttemptCap = 2
  PollDelay = 1
  MaxEvents = 2
  MaxFaults = 3
SYMMETRY WorkerSymmetry
INVARIANTS
  TypeOK
  QueueInv
  ExclusiveClaims
PROPERTIES
  DoneIsFinal
  ImplementsWorkQueue
