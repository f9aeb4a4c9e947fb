SPECIFICATION Spec
CONSTANTS
  n1 = n1
  Tasks = {t1, t2}
  Nodes = {n1}
  Jobs = {j1, j2}
  Servers = {s1, s2}
  NodeOf <- OneNode
  GroupOf <- OneCluster
  Local = Local
  LeaseDuration = 2
  HeartbeatLifetime = 0
  MaxSequence = 2
  QueueLimit = 1
CONSTRAINT Apart
SYMMETRY QueueSymmetry
INVARIANTS
  RuntimeSerial
  AuditedOnce
  ServerHeld
PROPERTIES
  HostKeepsContract
  RuntimeKeepsContract
  FileKeepsContract
