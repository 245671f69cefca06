SPECIFICATION Spec
CONSTANTS
  MaxBackends = 2
  Statuses <- Answers
  NoAnswer = NoAnswer
INVARIANT OneCountPerAttempt
CHECK_DEADLOCK FALSE
