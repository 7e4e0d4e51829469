SPECIFICATION Spec
CONSTANTS
  u1 = u1
  u2 = u2
  u3 = u3
  x1 = x1
  f1 = f1
  Instance = {u1, u2, u3, x1, f1}
  Key <- MCKey
  Service <- MCUserFile
  Followed <- MCUser
  BadHost = {x1}
  MaxChannels = 3
  NoChannel = NoChannel
  Wild = Wild
  MaxLeases = 3
INVARIANTS
  TableIsConsistent
  InSync
  NodesMirrorHosts
PROPERTY
  TurnsInOrder
