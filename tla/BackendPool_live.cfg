SPECIFICATION FairSpec
CONSTANTS
  MaxFrac = 1
  NoTime = NoTime
  BackendFails = 0
  Cooldown = 1
  NoRow = NoRow
  MaxId = 2
  PayloadWeights <- ZeroAndTwo
  ImportFailures = {0}
  ConsoleWrites = 1
  MaxTally = 1
  MaxSec = 3
  Requests = {r1, r2}
  Admins = {}
  Consoles = {}
  NoCopy = NoCopy
PROPERTIES
  RequestEnds
  QuarantineEnds
