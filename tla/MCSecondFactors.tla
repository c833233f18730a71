-------------------------- MODULE MCSecondFactors --------------------------
(***************************************************************************)
(* An instance of SecondFactors for TLC.                                   *)
(***************************************************************************)
EXTENDS SecondFactors, TLC

CONSTANTS w1, w2, x1, x2, x3, s1, s2

Policy(threshold, budget, hardLimit) ==
  [threshold |-> threshold, backoff |-> 1, maxBackoff |-> 2, budget |-> budget, window |-> 2,
   hardLimit |-> hardLimit, memory |-> 2]
Lax == Policy(9, 9, 9)

Load(ops, held, proofs, started, policy, horizon, kinds, fails, limit) ==
  [ops |-> ops, held |-> held, proofs |-> proofs, started |-> started, attempts |-> 2, policy |-> policy, horizon |-> horizon,
   kinds |-> kinds, fails |-> fails, troubles |-> limit,
   ids |-> Cardinality(held), maxFactors |-> 3, moves |-> 0, required |-> FALSE, proved |-> {"totp", "codes"}]

Totp == Factor(1, "totp", 0)
Set == Factor(2, "codes", 0)
AtProof == {"verify.spend", "prove.read", "prove.decide", "verify.take", "verify.succeed"}
AtVerify == AtProof \cup {"verify.refused", "verify.abandon"}

(* An authenticator guessed over time, calls failing.                      *)
Guessing == Load({"verify"}, {Totp}, {0, 1}, 2, Policy(2, 2, 3), 3, {"fail", "crash"}, AtVerify, 1)
(* Guesses over the lockout's release.                                     *)
Releasing == Load({"verify", "release"}, {Totp, Set}, {0, 1}, 2, Policy(1, 1, 2), 1, {}, {}, 0)
(* Numbers proved at once, and codes while they are reissued or reset.     *)
Numbers ==
  [Load({"verify"}, {Totp}, {1, 2}, 2, Lax, 1, {"lost", "fail"}, {"verify.take"}, 1) EXCEPT !.proved = {"totp"}]
Reissuing ==
  [Load({"verify", "reissue", "clear"}, {Totp, Set}, {1, 2}, 2, Lax, 1, {"lost", "fail"}, {"verify.take"}, 1)
   EXCEPT !.ids = 3, !.moves = 1, !.proved = {"codes"}]
(* The list changed by everything at once, from none.                      *)
Managing ==
  [Load({"bind", "reissue", "remove", "clear", "fence"}, {}, {}, 0, Lax, 1, {"crash"}, {"bind.check"}, 1)
   EXCEPT !.ids = 3, !.moves = 1]
Requiring == [Managing EXCEPT !.required = TRUE]

MCLoads == {Guessing, Releasing, Numbers, Reissuing, Managing, Requiring}

MCOnThrow ==
  [pc \in AtProof |->
     IF pc \in {"prove.read", "prove.decide"} THEN "verify.giveback" ELSE "verify.abandon"]

Permuted == Permutations(Worker) \cup Permutations(Transaction) \cup Permutations(Session)
=============================================================================
