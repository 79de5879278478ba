SPECIFICATION FairSpec
CONSTANTS
  h1 = h1  h2 = h2  t1 = t1  t2 = t2  u1 = u1  u2 = u2  u3 = u3  d1 = d1  d2 = d2  d3 = d3
  Handoffs = {h1, h2}
  Terms <- MCTerms
  Uploads = {u1, u2, u3}
  HandoffOf <- MCHandoffOf
  ContentOf <- MCContentOf
  Deletions = {d1, d2, d3}
  None = None
  Faults = {"crash", "power", "disk"}
  MaxKeys = 2
  MaxFaults = 2
  MaxEntries = 4
INVARIANTS AcceptedKept KeptUntilJournaled DeletedGone
PROPERTIES DeletionEnds
CHECK_DEADLOCK FALSE
