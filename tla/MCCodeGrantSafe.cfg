SPECIFICATION Spec
CONSTANTS
  f1 = f1
  f2 = f2
  c1 = c1
  c2 = c2
  Family = {f1, f2}
  Session = {s1}
  Access = {a1, a2, a3, a4}
  Redemption = {c1, c2}
  Worker = {w1, w2}
  MaxSecrets = 3
  Loads <- MCLoads
SYMMETRY Alike
INVARIANTS TypeOK SpentOnce CleanupReachesAll ClosedKeepsNone TakenBackHasNone RedeemedOnce VoidedKeepsNothing
CHECK_DEADLOCK FALSE
