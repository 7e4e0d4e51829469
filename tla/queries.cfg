SPECIFICATION Spec
CONSTANTS
  t1 = t1
  f1 = f1
  a1 = a1
  alice = alice
  bob = bob
  single = single
  group = group
  p1 = p1
  Call = {f1, a1, p1}
  Size <- MCSize
  MaxFaults = 1
  Message = {t1, f1}
  ChatOf <- MCChatOf
  Sender <- MCSender
  Time <- MCTime
  User = {alice, bob}
  AvatarOf <- MCAvatarOf
  Chat = {single, group}
  FriendOf <- MCFriendOf
  Query = {q}
  Asked <- MCAsked
  None = None
INVARIANTS
  TypeOK
  AnsweredFilesAreWhole
  AnswersAreWhole
  NothingLeftOut
  RecentIsNewest
CHECK_DEADLOCK FALSE
