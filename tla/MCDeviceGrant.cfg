SPECIFICATION FairSpec
CONSTANTS
  t1 = t1
  t2 = t2
  t3 = t3
  Token = {t1, t2, t3}
  Session = {s1}
  Device = {d1}
  Worker = {w1, w2}
  Loads <- MCLoads
INVARIANTS TypeOK ClosedKeepsNone AwaitingFollowed DecidedOnce
PROPERTIES PushedOutDenied
CHECK_DEADLOCK FALSE
