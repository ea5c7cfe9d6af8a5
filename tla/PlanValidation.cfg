SPECIFICATION Spec
CONSTANTS
  Ids = {1, 2, 3}
  MaxDeps = 2
INVARIANTS TypeOK AcceptsExactlySoundPlans OrderIsLeastTopological
CHECK_DEADLOCK FALSE
