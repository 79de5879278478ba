SPECIFICATION FairSpec
CONSTANTS
  Events = {1, 2}
  Kind <- MCKind
  ExecutionOf <- MCExecutionOf
  PrintOf <- MCPrintOf
  Routed = {1, 2}
  Threads = {t1, t2}
  Publisher = publisher
  NoEvent = NoEvent
  NoResult = NoResult
  NoPrint = NoPrint
  Nobody = Nobody
  Faults = {"crash", "stop", "disk"}
  MaxDeliveries = 2
  MaxFaults = 1
PROPERTIES
  AckedPublished
CHECK_DEADLOCK FALSE
