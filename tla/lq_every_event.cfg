SPECIFICATION FairSpec
CONSTANTS
  Bodies = {b1, b2, b3}
  Workers = {w1}
  Poison = {b1, b2}
  Lease = 1
  MaxDelivery = 2
  MaxBackoff = 4
  AttemptCap = 2
  PollDelay = 1
  MaxEvents = 3
  MaxFaults = 2
PROPERTIES
  EveryEventDelivered
