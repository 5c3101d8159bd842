SPECIFICATION FairSpec
CONSTANTS
  i1 = i1
  i2 = i2
  c1 = c1
  c2 = c2
  k1 = k1
  Instance = {i1}
  Caller = {c1}
  Home <- OneCaller
  Key = {k1}
  KeyOf <- OneWork
  WorkerId = {w1, w2, w3}
  NoId = NoId
  NoCaller = NoCaller
  NoCommand = NoCommand
  Buffer = 1
  Interval = 1
  KeepaliveTimeout = 1
  Prompt = {}
  Faults = {"statement", "reply", "cancel", "crash"}
  MaxFaults = 2
PROPERTIES
  OrphansAreTakenOver
  CallsReturn
