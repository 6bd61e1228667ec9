SPECIFICATION Spec
CONSTANTS
  Width <- MCWidth
  Threads = {t1, t2}
  None = None
INVARIANT OutcomeStands
PROPERTIES NeverGoesBack DisplayGoesOn
CHECK_DEADLOCK FALSE
