SPECIFICATION Spec
CONSTANTS
  Calls = {c1, c2}
  Digests = {d1, d2}
  Devices = {g1}
  NoDigest = NoDigest
  MaxSupervised = 1
  ActiveLimits = {2}
  Faults = {"cleanup"}
  MaxFaults = 1
INVARIANTS DevicesExclusive
CHECK_DEADLOCK FALSE
