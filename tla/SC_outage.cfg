SPECIFICATION Spec
CONSTANTS
  Processor = {p1, p2}
  Slot = {1}
  Enqueuer = {e1}
  Object = {o1}
  State = {sA, sB}
  NoObject = NoObject
  NoState = NoState
  InitialState = sA
  MaxVersion = 3
  MaxHandling = 1
  StartLag = 2
  Faults = {"acquire", "finalize", "finalize_reply", "commit_reply"}
  MaxFaults = 2
  LongOutages = TRUE
SYMMETRY ProcessorSymmetry
INVARIANTS
  HistoryIsChain
  EventsAreCommitted
PROPERTIES
  ClaimsEndByOwnerOrExpiry
  ImplementsObjectHistory
