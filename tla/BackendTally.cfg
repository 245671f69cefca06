SPECIFICATION SpecT
CONSTANTS
  MaxFrac = 1
  NoTime = NoTime
  BackendFails = 2
  Cooldown = 1
  NoRow = NoRow
  MaxId = 1
  PayloadWeights <- OnlyOne
  ImportFailures = {}
  ConsoleWrites = 1
  MaxTally = 2
  MaxSec = 3
  Requests = {r1, r2}
  Admins = {}
  Consoles = {}
  NoCopy = NoCopy
INVARIANT EveryFailureCounts
