\* Two servers and one key; the manager and the timers of i1 are never late.
SPECIFICATION Spec
CONSTANTS
  i1 = i1
  i2 = i2
  c1 = c1
  c2 = c2
  k1 = k1
  Instance = {i1, i2}
  Caller = {c1, c2}
  Home <- TwoServers
  Key = {k1}
  KeyOf <- SameWork
  WorkerId = {w1, w2, w3, w4}
  NoId = NoId
  NoCaller = NoCaller
  NoCommand = NoCommand
  Buffer = 1
  Interval = 1
  KeepaliveTimeout = 2
  Prompt = {i1}
  Faults = {"statement", "reply", "cancel", "crash"}
  MaxFaults = 1
SYMMETRY IdSymmetry
INVARIANTS
  PromptHoldersKeepTheirLease
  TypeOK
  FencedWorkersKeepTheirRow
  NoLeaseLeftBehind
  ReleasesComeFirst
PROPERTIES
  StaleWorkersAreHarmless
  ImplementsLease
