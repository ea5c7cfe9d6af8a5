SPECIFICATION FairSpec
CONSTANTS
  g1 = g1  o1 = o1  o2 = o2  send = send  search = search
  Tasks = {1, 2}
  Deps <- MCDeps
  Rank <- MCRank
  MaxAttempts = 2
  Calls <- MCCalls
  TaskOf <- MCTaskOf
  ArtifactIds = {}
  Artifacts <- MCArtifacts
  Outputs = {o1, o2}
  Threads = {g1}
  Tools = {send, search}
  RiskOf <- MCRiskOf
  RequireApproval = {"non_idempotent_write"}
  MaxSteps = 2
  Verdicts = {"approved", "rejected"}
  MaxCrashes = 2
  None = None
INVARIANTS TypeOK RiskyCallOnce ApprovedBeforeTool OneCallPerStep SuccessIsComplete
  MemoryMatchesOutcome DeliveriesMatchStore
PROPERTIES SuccessIsFinal InvocationReturns
CHECK_DEADLOCK FALSE
