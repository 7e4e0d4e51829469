SPECIFICATION FairSpec
CONSTANTS
  m1 = m1
  m2 = m2
  r1 = r1
  ann = ann
  ben = ben
  cat = cat
  Message = {m1, m2}
  Request = {r1}
  RequestOf <- MCRequestOf
  Sender <- MCSender
  User = {ann, ben, cat}
  Restless = {cat}
  MaxFaults = 2
  Hangs = TRUE
  NoRun = NoRun
INVARIANTS
  SentIsKept
  FailedIsNotPushed
  SteadyMembersServed
PROPERTY
  AnsweredUnlessHung
