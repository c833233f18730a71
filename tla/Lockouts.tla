------------------------------ MODULE Lockouts ------------------------------
(***************************************************************************)
(* A key's lockout, as modules/foundation/rate-limit keeps it: attempts    *)
(* reserved before they are judged, handed back, and released.  Each of    *)
(* its calls is one write of the key, decided on what it holds then.       *)
(*                                                                         *)
(* Times are those of the store.  A key is kept at least until all it      *)
(* holds has aged, and an applied release's id at least until the permit   *)
(* it names lapses: neither end is modelled.                               *)
(***************************************************************************)
EXTENDS Integers, FiniteSetsExt

(* Zero stands for no time.  No two attempts of a key have one time, so    *)
(* the list of those the budget counts, oldest first, is a set.            *)
NoLockout ==
  [run |-> 0, lastAt |-> 0, spent |-> {}, holdUntil |-> 0, fixed |-> FALSE, fixedAt |-> 0,
   named |-> 0, generation |-> 0, used |-> {}]

Aged(k, p, now) ==
  LET quiet == ~k.fixed /\ k.lastAt > 0 /\ now - k.lastAt > p.memory IN
  [k EXCEPT !.spent = {at \in @ : at > now - p.window},
            !.run = IF quiet THEN 0 ELSE @]

Held(k, p, now) == k.fixed \/ k.holdUntil > now \/ Cardinality(k.spent) >= p.budget

Lesser(a, b) == IF a < b THEN a ELSE b
Greater(a, b) == IF a > b THEN a ELSE b

(* reserve: a key not held counts the attempt as a failure, under a time   *)
(* no attempt of the key had.                                              *)
NextAt(k, now) == Greater(now, k.named + 1)

Counted(k, p, now) ==
  LET was == Aged(k, p, now)
      at == NextAt(was, now)
      run == was.run + 1
      hold == IF run < p.threshold THEN 0
              ELSE Lesser(p.backoff * 2 ^ (run - p.threshold), p.maxBackoff)
      fixed == run >= p.hardLimit IN
  [was EXCEPT !.run = run, !.lastAt = now, !.spent = @ \cup {at},
              !.holdUntil = IF hold > 0 THEN now + hold ELSE @,
              !.fixed = fixed, !.fixedAt = IF fixed THEN at ELSE 0, !.named = at]

Open(k, p, now) == ~Held(Aged(k, p, now), p, now)

(* Broken: a success forgets the failures the budget counts.               *)
HandedBackAll(k, p, now, at, success) ==
  IF success THEN [k EXCEPT !.run = 0, !.spent = {}, !.holdUntil = 0]
  ELSE k

(* succeeded and abandoned: a success ends the run, an attempt abandoned   *)
(* shortens it; a fixed hold stays unless this attempt fixed it.  No       *)
(* reservation is 0.                                                       *)
HandedBack(k, p, now, at, success) ==
  LET was == Aged(k, p, now)
      mine == at \in was.spent
      last == mine /\ \A a \in was.spent : a <= at
      run == IF success THEN 0 ELSE Greater(0, was.run - 1)
      next == [was EXCEPT !.run = run, !.spent = @ \ {at},
                          !.holdUntil = IF run < p.threshold \/ last THEN 0 ELSE @,
                          !.fixed = FALSE, !.fixedAt = 0] IN
  IF k = NoLockout \/ (~success /\ ~mine) \/ (was.fixed /\ (~mine \/ was.fixedAt # at)) THEN k
  ELSE next

(* standing: the first failure the budget counts, and when the hold was    *)
(* fixed.                                                                  *)
First(k) == IF k.spent = {} THEN 0 ELSE Min(k.spent)
StandingOf(k, p, now) ==
  LET was == Aged(k, p, now) IN [first |-> First(was), fixedAt |-> was.fixedAt]

(* releaseUnder, checked: each id once; the budget forgiven while its      *)
(* first failure is the one read, the hold lifted while fixed as read.     *)
Released(k, p, now, id, forgive, lift, stood) ==
  LET was == Aged(k, p, now)
      forgiven == forgive /\ stood.first = First(was)
      lifted == lift /\ stood.fixedAt # 0 /\ stood.fixedAt = was.fixedAt
      fixed == was.fixed /\ ~lifted
      ends == lifted \/ (forgiven /\ ~fixed) IN
  IF id \in was.used \/ ~(forgiven \/ lifted) THEN k
  ELSE [was EXCEPT !.run = IF ends THEN 0 ELSE @, !.spent = IF forgiven THEN {} ELSE @,
                   !.holdUntil = IF ends THEN 0 ELSE @, !.fixed = fixed,
                   !.fixedAt = IF fixed THEN @ ELSE 0,
                   !.generation = @ + 1, !.used = @ \cup {id}]
=============================================================================
