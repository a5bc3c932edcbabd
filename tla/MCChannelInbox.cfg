SPECIFICATION FairSpec
CONSTANTS
  r1 = r1
  r2 = r2
  r3 = r3
  None = None
  Req = {r1, r2, r3}
  MaxCrashes = 2
INVARIANTS
  TypeOK
  AcceptedIsDelivered
PROPERTIES
  NotTwice
  RequestsEnd
CHECK_DEADLOCK FALSE
