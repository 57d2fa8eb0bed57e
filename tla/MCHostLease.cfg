CONSTANTS
  Execs = {e1, e2}
  NoOne = NoOne
  DrainTimeout = 120
  PowerTimeout = 40
  PollInterval = 20
  LockTtl = 400
  ServerCount = 2
  CallLatencyMs = 1500
  TTL <- LeaseTime
  Budget <- MCBudget
SPECIFICATION Spec
CHECK_DEADLOCK FALSE
INVARIANTS
  TypeOK
  MutualExclusion
PROPERTIES
  ImplementsHostLock
  ExecutionEnds
  LockEventuallyFree
