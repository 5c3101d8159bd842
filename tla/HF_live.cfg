\* A component with an initial reset, one with two files and a power drain, and one
\* with a script; reports that miss a component or the host.
SPECIFICATION LiveSpec
CONSTANTS
  Server = {v1}
  bmc = bmc
  bios = bios
  uefi = uefi
  None = None
  Ordering <- AllThree
  Method <- TwoUploads
  Artifacts <- TwoBiosFiles
  PreReset <- ResetBmc
  Drains <- DrainBios
  Manual = FALSE
  DisableLockdown = FALSE
  NoResetRetries = {TRUE, FALSE}
  Reports <- AnyReport
  Deferrals = FALSE
  RackRequests = FALSE
  Interventions = FALSE
  MaxRetries = 1
  MaxResets = 1
  MaxRequests = 1
  MaxFaults = 2
  MaxTasks = 10
INVARIANT RetriesAreBounded
PROPERTIES UpgradeIsComplete 
CHECK_DEADLOCK FALSE
