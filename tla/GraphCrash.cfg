SPECIFICATION Spec
CONSTANTS
  g1 = g1  o1 = o1  o2 = o2  send = send  search = search
  Tasks = {1}
  Deps <- MCDeps
  Rank <- MCRank
  MaxAttempts = 2
  Calls <- MCCalls
  TaskOf <- MCTaskOf
  ArtifactIds = {}
  Artifacts <- MCArtifacts
  Outputs = {o1}
  Threads = {g1}
  Tools = {send}
  RiskOf <- MCRiskOf
  RequireApproval = {"non_idempotent_write"}
  MaxSteps = 2
  Verdicts = {"approved", "rejected"}
  MaxCrashes = 1
  None = None
INVARIANT FailureHasCause
CHECK_DEADLOCK FALSE
