SPECIFICATION Spec
CONSTANTS
  User = {ann, ben}
  MaxCalls = 4
  MaxFaults = 0
  NoRequest = NoRequest
INVARIANT
  OneChatPerPair
CHECK_DEADLOCK FALSE
