SPECIFICATION Spec
CONSTANTS
  w1 = w1  w2 = w2   c1 = c1  c2 = c2  s1 = s1  s2 = s2  a1 = a1  a2 = a2
  Workers = {w1, w2}
  Calls = {c2}
  Sessions = {s1}
  Args = {a1}
  RiskOf <- MCRiskOf
  RequireApproval = {"non_idempotent_write"}
  MaxAttempt = 3
  None = None
SYMMETRY MCSymmetry
PROPERTY SuccessIsReplayed
CHECK_DEADLOCK FALSE
