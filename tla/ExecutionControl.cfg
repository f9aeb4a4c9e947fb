SPECIFICATION ExecSpec
CONSTANTS
  Tasks = {t1, t2}
  Instances = {i1}
  Deployments = {}
  Nodes = {n1}
  None = None
  LeaseDuration = 2
  HeartbeatLifetime = 0
  Offered = {"start", "stop", "restart", "console", "backup", "properties", "delete"}
  NativeInstances = {i1}
  Faults = 1
SYMMETRY ExecSymmetry
INVARIANTS
  SucceededDone
  NotExecutedNeverBegan
  OrphanAlone
PROPERTIES
  EffectAccounted
  ControlSteps
CHECK_DEADLOCK FALSE
