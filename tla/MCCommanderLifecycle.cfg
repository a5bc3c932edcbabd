SPECIFICATION Spec
CONSTANTS
  p1 = p1
  p2 = p2
  p3 = p3
  a1 = a1
  a2 = a2
  Proc = {p1, p2, p3}
  Automation = {a1}
  Commander = {1}
  NoParent = NoParent
  Absent = Absent
  MaxOps = 4
  MaxAttempts = 2
SYMMETRY Symmetry
INVARIANTS
  TypeOK
  LeaseIsExclusive
  TombstoneHasNoChildren
PROPERTIES
  AnchorGoesLast
  TombstoneIsFinal
CHECK_DEADLOCK FALSE
