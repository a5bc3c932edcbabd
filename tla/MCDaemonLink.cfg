SPECIFICATION FairSpec
CONSTANTS
  p1 = p1
  Proc = {p1}
  BufferLimit = 2
  MaxOut = 3
  MaxConns = 3
  MaxStops = 2
INVARIANTS
  TypeOK
  HeardOnceInOrder
  Accounted
  EntryIsLive
PROPERTIES
  EndArrives
CHECK_DEADLOCK FALSE
