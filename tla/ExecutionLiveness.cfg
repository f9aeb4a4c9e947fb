SPECIFICATION FairExecSpec
CONSTANTS
  Tasks = {t1, t2}
  Instances = {i1}
  Deployments = {}
  Nodes = {n1}
  None = None
  LeaseDuration = 2
  HeartbeatLifetime = 0
  Offered = {"start", "stop"}
  NativeInstances = {i1}
  Faults = 1
PROPERTIES
  TaskEnds
  Settles
CHECK_DEADLOCK FALSE
