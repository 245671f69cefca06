SPECIFICATION Spec
CONSTANTS
  MaxFrac = 1
  NoTime = NoTime
  BackendFails = 2
  Cooldown = 1
  NoRow = NoRow
  MaxId = 1
  PayloadWeights <- OnlyZero
  ImportFailures = {0, 2}
  ConsoleWrites = 2
  MaxTally = 3
  MaxSec = 3
  Requests = {r1, r2}
  Admins = {a1}
  Consoles = {k1}
  NoCopy = NoCopy
SYMMETRY Symmetric
INVARIANTS
  TypeOK
  TimerOnlyWhileAbnormal
  NoInventedFailures
  QuarantineBounded
PROPERTIES
  DeletedStaysDeleted
  DisabledHolds
  RecoveryNotEarly
