SPECIFICATION LiveSpec
CONSTANTS
  p1 = p1
  p2 = p2
  p3 = p3
  a1 = a1
  a2 = a2
  Proc = {p1, p2}
  Automation = {a1, a2}
  Commander <- MCCommander
  NoParent = NoParent
  Absent = Absent
  MaxOps = 2
  MaxAttempts = 2
PROPERTIES
  RequestsEnd
CHECK_DEADLOCK FALSE
