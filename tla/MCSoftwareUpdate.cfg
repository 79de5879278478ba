SPECIFICATION Spec
CONSTANTS
  Releases = {1, 2, 3}
  Revision <- MCRevision
  NoSlot = "none"
  Faults = {"crash", "power", "disk"}
  MaxRevision = 2
  MaxFaults = 3
INVARIANTS BootableWhenSynced ConfirmedWhenSynced ActiveIntact RevisionKept OneBoot
CHECK_DEADLOCK FALSE
