SPECIFICATION FairSpec
CONSTANTS
  s1 = s1
  s2 = s2
  r1 = r1
  x1 = x1
  b1 = b1
  Send = {s1, s2}
  Reconciler = {r1}
  Removal = {x1}
  Begin = {b1}
  None = None
  MaxDue = 1
  MaxBreaks = 2
  MaxEdited = 1
INVARIANTS
  TypeOK
  StartedOnce
  DeliveredIsPosted
  HandOverIsRecorded
PROPERTIES
  EndedSettles
CHECK_DEADLOCK FALSE
