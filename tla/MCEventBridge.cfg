SPECIFICATION Spec
CONSTANTS
  Events = {1, 3}
  Kind <- MCKind
  ExecutionOf <- MCExecutionOf
  PrintOf <- MCPrintOf
  Routed = {1}
  Threads = {t1, t2}
  Publisher = publisher
  NoEvent = NoEvent
  NoResult = NoResult
  NoPrint = NoPrint
  Nobody = Nobody
  Faults = {"crash", "power", "disk", "remove"}
  MaxDeliveries = 3
  MaxFaults = 2
INVARIANTS
  AckedRecorded QueuedRecorded DoneIsQueued SuccessBacked
SYMMETRY MCSymmetry
CHECK_DEADLOCK FALSE
