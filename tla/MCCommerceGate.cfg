SPECIFICATION Spec
CONSTANTS
  x1 = x1  p1 = p1  p2 = p2  c1 = c1  c2 = c2  c3 = c3
  Executions = {x1}
  Processes = {p1, p2}
  Calls = {c1, c2, c3}
  ProcessOf <- MCProcessOf
  Nobody = Nobody
  NoCall = NoCall
  Faults = {"crash", "power", "disk"}
  MaxGeneration = 2
  MaxSecrets = 2
  MaxFaults = 1
SYMMETRY MCSymmetry
INVARIANTS OneLaunch OneEffect TerminalBacked CompletionKept RunningHeld AssertionFollows
PROPERTIES OrphanNeverEnds
CHECK_DEADLOCK FALSE
