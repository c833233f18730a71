SPECIFICATION Spec
CONSTANTS
  w1 = w1
  w2 = w2
  w3 = w3
  Worker = {w1, w2, w3}
  Loads <- MCLoads
SYMMETRY Permuted
INVARIANTS TypeOK NeverBroughtBack RotatedNeverSent ClosedKeepsNoTokens
CHECK_DEADLOCK FALSE
