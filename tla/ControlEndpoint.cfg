CONSTANTS
  Requests <- ModelRequests
  MaxPacketSize = 2
  ControlMax = 4
  MaxRequests = 4
  MaxResets = 1
  Hasty = FALSE
SPECIFICATION FairSpec
INVARIANTS
  TypeOK
  AnswersLatest
  HelperFits
  PayloadComplete
  AnswerWhole
PROPERTIES
  AnsweredUnlessLost
CHECK_DEADLOCK FALSE
