SPECIFICATION FairSpec
CONSTANTS
  f1 = f1
  f2 = f2
  c1 = c1
  c2 = c2
  Family = {f1, f2}
  Session = {s1}
  Access = {a1, a2, a3}
  Redemption = {c1, c2}
  Worker = {w1, w2}
  MaxSecrets = 3
  Loads <- Finishing
PROPERTIES EndedTokensDenied VoidingsFinish
CHECK_DEADLOCK FALSE
