\* Two objects compete for the one slot of a server that crashes or drains and
\* restarts; its claims have to expire.
SPECIFICATION FairSpec
CONSTANTS
  Processor = {p1}
  Slot = {1}
  Enqueuer = {e1}
  Object = {o1, o2}
  State = {sA}
  NoObject = NoObject
  NoState = NoState
  InitialState = sA
  MaxVersion = 2
  MaxHandling = 1
  StartLag = 1
  Faults = {"acquire", "acquire_reply", "finalize", "commit_reply", "cancel", "crash"}
  MaxFaults = 1
  LongOutages = FALSE
PROPERTIES
  DrainLeavesNoClaim
  LiveObjectsKeepBeingHandled
  GoneObjectsLeaveTheQueue
  DrainEnds
