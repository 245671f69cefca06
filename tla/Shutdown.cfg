SPECIFICATION Spec
CONSTANTS
  ShutdownTimeout = 2
  Requests = {r1, r2}
PROPERTY ShutdownIsGraceful
CHECK_DEADLOCK FALSE
