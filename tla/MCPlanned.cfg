CONSTANTS
  Servers = {s1}
  Mapped = {"nova", "ironic", "masakari"}
  CallsMayFail = TRUE
  Execs = {e1, e2}
  NoOne = NoOne
  DrainAttempts = 2
  PowerAttempts = 3
  Stable = 2
  LeaseMayLapse = FALSE
SPECIFICATION Spec
SYMMETRY Symmetry
VIEW View
INVARIANTS
  TypeOK
  PlannedOutOfService
  PowerOffSparesGuests
  FailureLeavesHostOut
  RebootReturnsPoweredHost
  SuccessMeansDone
