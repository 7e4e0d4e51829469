SPECIFICATION FairSpec
CONSTANTS
  t1 = t1
  t2 = t2
  f1 = f1
  b1 = b1
  Message = {t1, t2}
  Kind <- MCTexts
  MaxFaults = 0
  NoRow = NoRow
PROPERTY
  PublishedIsPersisted
CHECK_DEADLOCK FALSE
