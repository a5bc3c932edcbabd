SPECIFICATION Spec
CONSTANTS
  m1 = m1
  m2 = m2
  m3 = m3
  m4 = m4
  None = None
  Msg = {m1, m2, m3, m4}
  Held = {m4}
  Priority <- MCPriority
  Limit = 2
  Modes = {"rotation", "replacement"}
  MaxRuntimes = 3
SYMMETRY Symmetry
INVARIANTS
  TypeOK
  NoLostWakeup
  OneRotation
  KeptUnlessHeld
PROPERTIES
  ImplementsLine
CHECK_DEADLOCK FALSE
