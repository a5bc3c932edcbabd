SPECIFICATION FairSpec
CONSTANTS
  m1 = m1
  m2 = m2
  m3 = m3
  m4 = m4
  None = None
  Msg = {m1, m2, m3}
  Held = {}
  Priority <- MCPriority
  Limit = 2
  Modes = {"rotation"}
  MaxRuntimes = 3
PROPERTIES
  AcceptedIsHanded
CHECK_DEADLOCK FALSE
