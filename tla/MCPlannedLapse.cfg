CONSTANTS
  Servers = {}
  Mapped = {"nova", "ironic", "masakari"}
  CallsMayFail = FALSE
  Execs = {e1, e2}
  NoOne = NoOne
  DrainAttempts = 1
  PowerAttempts = 2
  Stable = 2
  LeaseMayLapse = TRUE
SPECIFICATION Spec
SYMMETRY Symmetry
VIEW View
PROPERTIES
  ImplementsHostLock
  OwnerSafe
