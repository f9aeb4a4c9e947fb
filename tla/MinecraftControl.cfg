SPECIFICATION Spec
CONSTANTS
  Tasks = {t1, t2}
  Instances = {i1}
  Deployments = {d1}
  Nodes = {n1}
  None = None
  LeaseDuration = 2
  HeartbeatLifetime = 0
  Offered = {"start", "stop", "delete", "properties", "properties-read"}
SYMMETRY TaskSymmetry
INVARIANTS
  InstanceExclusive
  TransitionHeld
  NothingStranded
PROPERTIES
  OutcomeFinal
CHECK_DEADLOCK FALSE
