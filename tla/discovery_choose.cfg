SPECIFICATION Spec
CONSTANTS
  u1 = u1
  u2 = u2
  u3 = u3
  x1 = x1
  f1 = f1
  Instance = {u1, u2}
  Key <- MCKey
  Service <- MCUser
  Followed <- MCUser
  BadHost = {}
  MaxChannels = 2
  NoChannel = NoChannel
  Wild = Wild
  MaxLeases = 2
PROPERTY
  ChooseReturnsNode
