CONSTANTS
  n1 = n1
  n2 = n2
  p1 = p1
  p2 = p2
  Nodes = {n1, n2}
  Macs = {p1, p2}
  PortsOf <- OnePortEach
  Maintained = {n1}
  Masked = {n1}
  NoOne = NoOne
  Stranger = Stranger
  MaxTrouble = 3
SPECIFICATION Spec
INVARIANTS
  RoleTypeOK
  RunConverges
  ForecastHolds
PROPERTIES
  NoHalfRegistration
  WorkbookComesLast
  ForbiddenStateUntouched
  RerunConverges
