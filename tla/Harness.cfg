SPECIFICATION FairSpec
CONSTANTS
  w1 = w1  w2 = w2  o1 = o1  o2 = o2  send = send  label = label
  Tasks = {1, 2}
  Deps <- MCDeps
  MaxAttempts = 3
  Calls <- MCCalls
  TaskOf <- MCTaskOf
  ArtifactIds = {}
  Artifacts <- MCArtifacts
  Outputs <- MCOutputs
  None = None
  Workers = {w1, w2}
  Verdicts = {"approved", "rejected"}
  MaxAborts = 1
  Tools = {send, label}
  RiskOf <- MCRiskOf
  RequireApproval = {"non_idempotent_write"}
  MaxClaims = 4
  MaxSteps = 2
  Texts = {o1}
  Turns <- MCTurns
INVARIANTS TypeOK LedgerMatchesTurns SuccessIsBackedUp
PROPERTIES SuccessIsReplayed RunReturns EventuallyAtRest
CHECK_DEADLOCK FALSE
