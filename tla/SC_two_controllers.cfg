SPECIFICATION Spec
CONSTANTS
  Processor = {p1, p2}
  Slot = {1, 2}
  Enqueuer = {e1}
  Object = {o1}
  State = {sA, sB}
  NoObject = NoObject
  NoState = NoState
  InitialState = sA
  MaxVersion = 2
  MaxHandling = 1
  StartLag = 2
  Faults = {"acquire"}
  MaxFaults = 1
  LongOutages = TRUE
SYMMETRY ProcessorSymmetry
INVARIANTS
  SingleController
