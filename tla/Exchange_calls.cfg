SPECIFICATION Spec
CONSTANTS
  Calls <- AllCalls
  Answers <- JSONAnswers
  Usages <- Reports
  MaxIndex = 1
  MaxDeltas = 1
  MaxItems = 1
  MaxCalls = 1
INVARIANT
  ToolCallsArrive
CHECK_DEADLOCK FALSE
