SPECIFICATION Spec
CONSTANTS
  Calls <- AllCalls
  Answers <- JSONAnswers
  Usages <- Reports
  MaxIndex = 2
  MaxDeltas = 3
  MaxItems = 2
  MaxCalls = 1
INVARIANTS
  TypeOK
  RequestSurvives
  PartsNest
  TextArrives
  AnswerSurvives
  EndsAsUpstream
  TokensLogged
CHECK_DEADLOCK FALSE
