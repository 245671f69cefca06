SPECIFICATION Spec
CONSTANTS
  Handlers = {h1, h2}
  MaxSessions = 3
  MaxDay = 2
  Setups <- MCSetups
SYMMETRY Symmetry
INVARIANTS
  TypeOK
  ClaimedCheckin
  SessionKept
  Bounded
PROPERTIES
  CheckinRemembered
\* The administrators have made all their requests.
CHECK_DEADLOCK FALSE
