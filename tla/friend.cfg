SPECIFICATION Spec
CONSTANTS
  User = {ann, ben}
  MaxCalls = 4
  MaxFaults = 1
  NoRequest = NoRequest
INVARIANTS
  ChatsAreWhole
  AnsweredIsDone
  FriendsShareOneChat
  RemoveFindsItsChat
PROPERTY
  ImplementsFriendship
CHECK_DEADLOCK FALSE
SYMMETRY Symmetry
