\* All ways to install, with manual steps, deferrals, racks and users.
SPECIFICATION Spec
CONSTANTS
  Server = {v1}
  bmc = bmc
  bios = bios
  uefi = uefi
  None = None
  Ordering <- AllThree
  Method <- OneOfEach
  Artifacts <- OneFileEach
  PreReset <- NoReset
  Drains <- NoDrain
  Manual = TRUE
  DisableLockdown = FALSE
  NoResetRetries = {FALSE}
  Reports <- KnownOrNot
  Deferrals = TRUE
  RackRequests = TRUE
  Interventions = TRUE
  MaxRetries = 0
  MaxResets = 1
  MaxRequests = 2
  MaxFaults = 1
  MaxTasks = 4
INVARIANTS TypeOK ReportIsForItsTask ReadyHostIsLockedDown
PROPERTY RemovedMachineIsGone
CHECK_DEADLOCK FALSE
