SPECIFICATION FairSpec
CONSTANTS
  MaxBackends = 3
  Statuses <- Answers
  NoAnswer = NoAnswer
INVARIANTS
  TypeOK
  SuccessIsServed
  MarkedIsCounted
  CountedAtMostOnce
  LastRowTells
PROPERTIES
  CancelBlamesNobody
  RequestEnds
  KeepsFailover
CHECK_DEADLOCK FALSE
