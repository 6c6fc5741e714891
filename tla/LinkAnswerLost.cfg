CONSTANTS
  a1 = a1
  a2 = a2
  Approvals = {a1, a2}
  MaxRetries = 1
  MaxLosses = 1
SPECIFICATION Spec
SYMMETRY MCSymmetry
INVARIANTS
  AnswerIsNotLost
CHECK_DEADLOCK FALSE
