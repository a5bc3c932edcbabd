SPECIFICATION FairSpec
CONSTANTS
  a = a
  b = b
  c = c
  d = d
  Proc = {a, b, c, d}
  HostOf <- MCHostOf
  PidOf <- MCPidOf
  Absent = Absent
  None = None
INVARIANTS
  TypeOK
  Exclusive
PROPERTIES
  Recovers
CHECK_DEADLOCK FALSE
