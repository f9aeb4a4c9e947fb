SPECIFICATION FairSpec
CONSTANTS
  Maintenance <- TwoQueues
  Tasks = {t1, t2, t3}
  None = None
  Pending = Pending
  MaxFaults = 1
INVARIANTS
  NoneDropped
  ExitsIdle
  RotatesFairly
PROPERTIES
  LaneKept
  ShutdownEnds
CHECK_DEADLOCK FALSE
