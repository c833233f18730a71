SPECIFICATION Spec
CONSTANTS
  w1 = w1
  w2 = w2
  x1 = x1
  x2 = x2
  x3 = x3
  s1 = s1
  s2 = s2
  Worker = {w1, w2}
  Transaction = {x1, x2, x3}
  Session = {s1, s2}
  OnThrow <- MCOnThrow
  Loads <- MCLoads
SYMMETRY Permuted
INVARIANTS GuessesBounded AcceptedOnce ListInOrder
CHECK_DEADLOCK FALSE
