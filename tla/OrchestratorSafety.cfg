SPECIFICATION Spec
CONSTANTS
  w1 = w1  w2 = w2   c1 = c1  c2 = c2  o1 = o1  o2 = o2  a1 = a1  a2 = a2
  Tasks = {1, 2, 3}
  Deps <- MCFork
  MaxAttempts = 2
  Calls = {c1, c2}
  TaskOf <- MCTaskOf
  Script <- MCScript
  ArtifactIds = {a1, a2}
  Artifacts <- MCArtifacts
  Outputs = {o1, o2}
  Workers = {w1, w2}
  Verdicts = {"approved", "rejected"}
  MaxAborts = 1
  None = None
SYMMETRY MCSymmetry
INVARIANTS TypeOK SingleExecutor DependenciesFirst SuccessIsComplete ApprovedBeforeSuccess
  AttemptsBounded ArtifactsAccounted StrandedByAbort
PROPERTIES OutcomeIsFinal WakesOnlyApproved
CHECK_DEADLOCK FALSE
