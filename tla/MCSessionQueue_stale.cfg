SPECIFICATION Spec
CONSTANTS
  m1 = m1
  m2 = m2
  m3 = m3
  m4 = m4
  None = None
  Msg = {m1, m2}
  Held = {}
  Priority <- MCPriority
  Limit = 2
  Modes = {"both"}
  MaxRuntimes = 3
INVARIANTS
  AcceptedIsKept
CHECK_DEADLOCK FALSE
