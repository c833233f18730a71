------------------------- MODULE SubjectRevocation -------------------------
(***************************************************************************)
(* A subject's revocation boundaries, as modules/identity/                 *)
(* subject-revocation keeps them: times at or before which what was begun  *)
(* is revoked.  The boundary store is a record of each subject, changed    *)
(* atomically (what Records shows of it), and hands each write the         *)
(* deadline it is sent with; past it, the write does not land.             *)
(*                                                                         *)
(* One clock stands for the hosts' and the store's, in whole seconds: how  *)
(* far they drift apart is a bound of the deployment.                      *)
(***************************************************************************)
EXTENDS Integers

CONSTANTS
  Subject,   \* who is revoked
  Patience,  \* from a write's read to its deadline (records.ts patienceMs)
  MaxNow     \* bound: the clock stops here

ASSUME RevocationAssumption == Patience \in Nat /\ MaxNow \in Nat

VARIABLES
  now,       \* the clock
  boundary,  \* each subject's boundaries, None where nothing moved them
  landed     \* ghost: when the last write of a subject's sessions boundary became visible

revocationVars == <<now, boundary, landed>>

None == -1

Later(a, b) == IF a >= b THEN a ELSE b

(* The boundaries after a revocation at time t: a moved kind takes the     *)
(* later time (None is earlier than any), a kept one stays.                *)
Recorded(held, t, keepDelegations) ==
  [sessions    |-> Later(held.sessions, t),
   delegations |-> IF keepDelegations THEN held.delegations
                   ELSE Later(held.delegations, t)]

(* What began in the boundary's own second, or before, is revoked.         *)
Compared(time, bound) == IF bound = None \/ time > bound THEN "valid" ELSE "revoked"

Revoked(subject, time) == Compared(time, boundary[subject].sessions) = "revoked"

(* The deadline of a write whose attempt reads the clock now.              *)
WriteDeadline == now + Patience

RevocationInit ==
  /\ now = 0
  /\ boundary = [s \in Subject |-> [sessions |-> None, delegations |-> None]]
  /\ landed = [s \in Subject |-> None]

(* Broken: the boundary is the time its write began.                       *)
BoundaryLandsAsBegun(subject, deadline, keepDelegations) ==
  /\ now <= deadline
  /\ boundary' = [boundary EXCEPT ![subject] = Recorded(@, deadline - Patience, keepDelegations)]
  /\ landed' = [landed EXCEPT ![subject] = now]
  /\ UNCHANGED now

(* The write of a boundary lands: the boundary is the write's own deadline, *)
(* so it is never earlier than the time the write became visible.          *)
BoundaryLands(subject, deadline, keepDelegations) ==
  /\ now <= deadline
  /\ boundary' = [boundary EXCEPT ![subject] = Recorded(@, deadline, keepDelegations)]
  /\ landed' = [landed EXCEPT ![subject] = now]
  /\ UNCHANGED now

ClockTicks ==
  /\ now < MaxNow
  /\ now' = now + 1
  /\ UNCHANGED <<boundary, landed>>
=============================================================================
