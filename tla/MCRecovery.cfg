CONSTANTS
  Servers = {}
  Mapped = {"nova", "ironic", "masakari"}
  CallsMayFail = TRUE
  Execs = {e1}
  NoOne = NoOne
  DrainAttempts = 1
  PowerAttempts = 3
  Stable = 2
  LeaseMayLapse = FALSE
  FenceAttempts = 3
  StableOff = 2
SPECIFICATION SystemSpec
INVARIANTS
  SystemTypeOK
  EvacuationIsFenced
PROPERTIES
  PlannedWorkHidesHost
  RecoveryEnds
  ExecutionEnds
