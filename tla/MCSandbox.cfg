SPECIFICATION FairSpec
CONSTANTS
  Calls = {c1, c2}
  Digests = {d1, d2}
  Devices = {g1}
  NoDigest = NoDigest
  MaxSupervised = 1
  ActiveLimits = {1, 2}
  Faults = {"crash", "cleanup", "record"}
  MaxFaults = 1
INVARIANTS CapacityHeld LeasesExclusive DrainedOnClose
PROPERTIES SuccessClean CloseReturns
CHECK_DEADLOCK FALSE
