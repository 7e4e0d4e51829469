SPECIFICATION Spec
CONSTANTS
  ann = ann
  p1 = p1
  p2 = p2
  Known = {ann}
  KnownPhone <- PhoneOf
  Nickname = {n1, n2}
  Phone = {p1, p2}
  MaxCalls = 3
  MaxFaults = 1
  None = None
INVARIANTS
  IndexFollowsTable
  ChangesAreKept
  PhoneCameWithCode
PROPERTY
  UsedCodesOpenNothing
CHECK_DEADLOCK FALSE
SYMMETRY Symmetry
