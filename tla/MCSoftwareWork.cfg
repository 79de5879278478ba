SPECIFICATION FairSpec
CONSTANTS
  p1 = p1  p2 = p2
  h1 = h1  h2 = h2  h3 = h3
  IDs = {i1}
  Prints = {f1, f2}
  NoPrint = NoPrint
  Processes = {p1, p2}
  Handlers = {h1, h2, h3}
  NoHandler = NoHandler
  NoRequest = NoRequest
  ProcessOf <- MCProcessOf
INVARIANTS
  AtMostOnce ClaimedBeforeRun AnswersBacked OwnerAnswerKept
PROPERTIES
  StrandedForever KeepsPromise EveryCallReturns
CHECK_DEADLOCK TRUE
