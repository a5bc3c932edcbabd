SPECIFICATION Spec
CONSTANTS
  p1 = p1
  p2 = p2
  p3 = p3
  a1 = a1
  a2 = a2
  Proc = {p1, p2}
  Automation = {}
  Commander = {1}
  NoParent = NoParent
  Absent = Absent
  MaxOps = 2
  MaxAttempts = 1
INVARIANTS
  NoDeletionAroundLiveRuntime
CHECK_DEADLOCK FALSE
