SPECIFICATION GatewaySpec
CONSTANTS
  alice = alice
  bob = bob
  l1 = l1
  l2 = l2
  User = {alice, bob}
  Login = {l1, l2}
  LoginUser <- MCLoginUser
  Conn = {c1, c2}
  None = None
  Request = {r1}
  Served <- MCServed
  Members <- MCMembers
  MaxFaults = 1
INVARIANTS
  NotificationsAreTrue
  ConnectedAreTold
  FailedToldNobody
SYMMETRY MCSymmetry
CHECK_DEADLOCK FALSE
