SPECIFICATION FairSpec
CONSTANTS
  Tasks = {t1, t2}
  None = None
  Period = 2
  Backoff = 1
  MaxDelay = 1
  MaxUnnoted = 2
INVARIANTS
  OnceOnly
  NoWakeupLost
PROPERTIES
  DeletedQuiet
  DueFires
