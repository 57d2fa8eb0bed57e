CONSTANTS
  Execs = {e1, e2}
  NoOne = NoOne
  DrainTimeout = 600
  PowerTimeout = 180
  PollInterval = 10
  LockTtl = 900
  ServerCount = 2
  CallLatencyMs = 5000
  TTL <- LeaseTime
  Budget <- MCBudget
SPECIFICATION Spec
CHECK_DEADLOCK FALSE
INVARIANTS
  MutualExclusion
