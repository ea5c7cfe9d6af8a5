SPECIFICATION Spec
CONSTANTS
  w1 = w1  w2 = w2   c1 = c1  c2 = c2  o1 = o1  o2 = o2  a1 = a1  a2 = a2
  Tasks = {1}
  Deps <- MCDeps
  MaxAttempts = 2
  Calls = {c1}
  TaskOf <- MCTaskOf
  Script <- MCScript
  ArtifactIds = {}
  Artifacts <- MCNoArtifacts
  Outputs = {o1}
  Workers = {w1}
  Verdicts = {"approved"}
  MaxAborts = 0
  None = None
PROPERTY FailureHasCause
CHECK_DEADLOCK FALSE
