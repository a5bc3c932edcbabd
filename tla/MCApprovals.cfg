SPECIFICATION FairSpec
CONSTANTS
  w1 = w1
  h1 = h1
  Req = {w1, h1}
  Waiter = {w1}
  FailOpen = {h1}
  TimeoutAction = "allow"
  TimeoutMinutes = 15
  MaxCrashes = 1
  MaxDecisions = 2
INVARIANTS
  TypeOK
  AllowedIsDecided
  AckedIsSaved
  HistoryIsSingle
  AnswersAgree
  PendingIsTimed
PROPERTIES
  Answered
CHECK_DEADLOCK FALSE
