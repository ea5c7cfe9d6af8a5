SPECIFICATION Spec
CONSTANTS
  w1 = w1  w2 = w2   c1 = c1  c2 = c2  s1 = s1  s2 = s2  a1 = a1  a2 = a2
  Workers = {w1, w2}
  Calls = {c1, c2}
  Sessions = {s1, s2}
  Args = {a1, a2}
  RiskOf <- MCRiskOf
  RequireApproval = {"non_idempotent_write"}
  MaxAttempt = 2
  None = None
SYMMETRY MCSymmetry
INVARIANTS TypeOK AtMostOnce ApprovedBeforeEffect OneIdentity
  WriteAhead AnsweredMeansEffect
PROPERTIES SettledForGood FulfilsContract
CHECK_DEADLOCK FALSE
