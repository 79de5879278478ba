SPECIFICATION FairSpec
CONSTANTS
  Missing = Missing
  Unlimited = Unlimited
  Bad = Bad
  Error = Error
  MaxLogicalCPUs = 4
  MaxCgroupDepth = 2
  Groups <- MCGroups
  Setups <- MCSetups
  MemoryValues <- MCMemoryValues
  GPUs <- MCGPUs
  SystemMemory = 9
  SystemCPUs = 3
  MinimumObservedRAM = 2
  RequiredRAM = 5
  RequiredVRAM = 3
  FailureThreshold = 2
  RecoveryThreshold = 2
INVARIANTS
  ReportExact
PROPERTIES
  Hysteresis
  ShutdownStops
  AdmissionFollows
CHECK_DEADLOCK FALSE
