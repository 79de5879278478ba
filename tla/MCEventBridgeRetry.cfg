SPECIFICATION Spec
CONSTANTS
  Events = {1}
  Kind <- MCKind
  ExecutionOf <- MCExecutionOf
  PrintOf <- MCPrintOf
  Routed = {1}
  Threads = {t1, t2}
  Publisher = publisher
  NoEvent = NoEvent
  NoResult = NoResult
  NoPrint = NoPrint
  Nobody = Nobody
  Faults = {}
  MaxDeliveries = 2
  MaxFaults = 0
INVARIANTS
  RetryIdempotent
CHECK_DEADLOCK FALSE
