SPECIFICATION Spec
CONSTANTS
  x1 = x1  x2 = x2  w1 = w1  w2 = w2  c1 = c1  c2 = c2
  Executions = {x1, x2}
  ReportOf <- MCReportOf
  ArtifactOf <- MCArtifactOf
  Workers = {w1, w2}
  Calls = {c1, c2}
  WorkerOf <- MCWorkerOf
  Nobody = Nobody
  Faults = {"disk"}
  MaxFaults = 1
INVARIANTS IndexSurvives
CHECK_DEADLOCK FALSE
