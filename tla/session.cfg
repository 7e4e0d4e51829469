SPECIFICATION FairSpec
CONSTANTS
  alice = alice
  bob = bob
  l1 = l1
  l2 = l2
  l3 = l3
  User = {alice, bob}
  Login = {l1, l2, l3}
  LoginUser <- MCLoginUser
  Conn = {c1, c2}
  None = None
INVARIANTS
  PushReachesItsUser
  OneLoginEach
  StatusGuardsSession
  DisciplinedIsReached
PROPERTIES
  CloseCleansUp
  CanLogInAgain
CHECK_DEADLOCK FALSE
