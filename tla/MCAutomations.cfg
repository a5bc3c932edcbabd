SPECIFICATION FairSpec
CONSTANTS
  q1 = q1
  q2 = q2
  Req = {q1, q2}
  Asked <- MCAsked
  MaxRuns = 2
  RunBound = 2
  Absent = Absent
  None = None
  Torn = Torn
INVARIANTS
  RunLimit
  ActiveHasJob
  AcknowledgedStands
PROPERTIES
  StaleJobGoes
CHECK_DEADLOCK FALSE
