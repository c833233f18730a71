SPECIFICATION Spec
CONSTANTS
  h1 = h1
  h2 = h2
  h3 = h3
  p1 = p1
  p2 = p2
  alice = alice
  Subject = {alice}
  Patience = 2
  MaxNow = 3
  Handle <- MCHandle
  Secret = {s1, s2, s3, s4}
  Participant = {p1, p2}
  Worker = {w1, w2}
  Owner <- OneOwner
  Loads <- PushOutCrash
SYMMETRY Alike
INVARIANTS NoneOpenUnlisted
