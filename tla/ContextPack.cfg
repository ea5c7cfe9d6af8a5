SPECIFICATION Spec
CONSTANTS
  Budgets = {60, 99, 128, 137, 300, 1200}
  Texts <- MCTexts
  Summarized = {0, 1000}
  NotSelected = NotSelected
INVARIANTS TypeOK OverrunIsRequired LayersAccountedFor WholeWithinBudget
CHECK_DEADLOCK FALSE
