CONSTANTS
  Servers = {}
  Mapped = {"ironic", "masakari"}
  CallsMayFail = FALSE
  Execs = {e1}
  NoOne = NoOne
  DrainAttempts = 1
  PowerAttempts = 2
  Stable = 2
  LeaseMayLapse = FALSE
SPECIFICATION Spec
INVARIANT
  ErrorLeavesHostOut
