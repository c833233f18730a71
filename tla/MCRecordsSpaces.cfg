SPECIFICATION Spec
CONSTANTS
  a = a
  b = b
  c1 = c1
  c2 = c2
  Absent = Absent
  Unchanged = Unchanged
  Value <- MCValue
  Client <- MCClient
  Spaces <- Others
  Operation <- AnyCall
  Skew = 1
  Patience = 1
  MaxSends = 2
  MaxAttempts = 2
SYMMETRY Clients
CHECK_DEADLOCK FALSE
INVARIANTS
  TypeOK
  NothingLate
  AtMostOnce
  Chained
  ReadsKept
