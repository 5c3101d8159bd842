SPECIFICATION Spec
CONSTANTS
  Processor = {p1, p2}
  Slot = {1}
  Enqueuer = {e1}
  Object = {o1}
  State = {sA, sB}
  NoObject = NoObject
  NoState = NoState
  InitialState = sA
  MaxVersion = 3
  MaxHandling = 1
  StartLag = 2
  Faults = {"acquire", "acquire_reply", "finalize", "commit_reply", "cancel", "crash"}
  MaxFaults = 2
  LongOutages = FALSE
SYMMETRY ProcessorSymmetry
INVARIANTS
  TypeOK
  SingleDecider
  FinalizeDeletesEveryRow
