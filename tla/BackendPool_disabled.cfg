SPECIFICATION Spec
CONSTANTS
  MaxFrac = 1
  NoTime = NoTime
  BackendFails = 1
  Cooldown = 1
  NoRow = NoRow
  MaxId = 1
  PayloadWeights <- OnlyZero
  ImportFailures = {0}
  ConsoleWrites = 1
  MaxTally = 2
  MaxSec = 3
  Requests = {r1, r2}
  Admins = {a1}
  Consoles = {}
  NoCopy = NoCopy
PROPERTY DisabledUntilAdmin
