SPECIFICATION Spec
CONSTANTS
  Backends = {b1, b2}
  Addresses = {a1}
  Passwords = {s1, s2}
  Writers = {w1, w2}
  Requests = {r1}
  MaxCreated = 2
  NoProxy = NoProxy
  NoBackend = NoBackend
  Direct = Direct
  Fields <- MCFields
  Values <- MCValues
  Accepted <- MCAccepted
  Trim <- MCTrim
  Default = default
  Unset = unset
  Handlers = {h1, h2}
  Tokens = {t1, t2}
  Callers = {c1, c2}
  Editors = {e1, e2}
  MaxKeys = 2
  NoKey = NoKey
  MaxFrac = 1
  NoTime = NoTime
  Series = {x1}
  NoSeries = NoSeries
  BackendNames = {n1, n2}
  NoName = NoName
  Served = {q1}
  HourSeconds = 1
  MaxClock = 1
  MaxRows = 2
  Asked <- MCAsked
  Offers = {o1}
  Models = {"m1", "m2"}
  NoModel = NoModel
  Patterns = {"star"}
  PathMatches <- MCPathMatches
  DomainLengths = {0, 3}
  MaxSpoken = 2
SYMMETRY Symmetry
INVARIANTS
  TypeOK
  RefsKeepTheirProxy
  DialsAsRead
  ConfigFollowsTable
  UsageIsTheKeys
  HourlyIsHistory
  ClearsByTheSecond
  ListedIsServed
  TunnelStartsClean
  NoStandoff
PROPERTIES
  ImportWhole
