SPECIFICATION FairSpec
CONSTANTS
  t1 = t1
  t2 = t2
  f1 = f1
  b1 = b1
  Message = {t1, f1, b1}
  Kind <- MCMixed
  MaxFaults = 2
  NoRow = NoRow
INVARIANTS
  NothingForgotten
  Accounted
  StoredTextIsSearchable
  RowHasItsFile
PROPERTIES
  DeliveredIsHandled
CHECK_DEADLOCK FALSE
