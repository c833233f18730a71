---------------------------- MODULE MCCodeGrant ----------------------------
(***************************************************************************)
(* Instances of CodeGrant for TLC.                                         *)
(***************************************************************************)
EXTENDS CodeGrant, TLC

CONSTANTS f1, f2, c1, c2

(* A revocation or a push-out may stop at any call.                        *)
AtRevoke == {"revoke.mark", "revoke.save", "revoke.members", "revoke.deny", "revoke.settle", "revoke.done"}
AtRecord == {"record.add", "record.push", "record.settle"}
AtStart == {"start.list", "start.drop", "session.settled", "start.enter", "found.save", "found.confirm"}
AtSettle == {"settle.mark", "settle.deny", "take.mark", "take.read", "settle.done"}
AtRedeem == {"redeem.pin", "redeem.note", "redeem.session", "redeem.check", "redeem.hooks"}

Load(ops, families, codes, tokens, tokenCap, sessionCap, fails, crashes) ==
  [ops |-> ops, families |-> families, codes |-> codes, tokens |-> tokens,
   tokensPerFamily |-> tokenCap, familiesPerSession |-> sessionCap,
   fails |-> fails, crashes |-> crashes]

(* One family's tokens used, and used again, over a cap of three.          *)
Rotations == Load({"start", "use", "sweep"}, {f1}, {}, 4, 3, 1,
                  AtRecord \cup {"use.select"}, AtRevoke \cup AtRecord)
(* Tokens adopted into a family while it is revoked.                       *)
Adoptions == Load({"start", "adopt", "control", "sweep"}, {f1}, {}, 4, 2, 1, {}, AtRevoke \cup AtRecord)
(* One code presented again and again.                                     *)
Replays == Load({"code", "redeem", "voids", "drop"}, {f1}, {c1}, 4, 2, 1,
                AtRedeem \cup AtStart \cup AtSettle, AtRedeem \cup AtSettle)
(* Codes of one session redeemed over a cap of one while it closes.        *)
Closings == Load({"code", "redeem", "close"}, {f1, f2}, {c1, c2}, 3, 2, 1, {}, {"session.settled"})
(* One family used while its session closes.                               *)
Uses == Load({"code", "redeem", "use", "close"}, {f1}, {c1}, 4, 3, 1, {}, AtRevoke)

MCLoads == {Rotations, Adoptions, Replays, Closings, Uses}

(* For liveness: one family used and used again; one code presented again. *)
Finishing ==
  {Load({"start", "use", "sweep"}, {f1}, {}, 3, 2, 1, {"revoke.deny"}, {"revoke.mark", "revoke.deny"}),
   Load({"code", "redeem", "voids", "drop"}, {f1}, {c1}, 3, 2, 1, {"redeem.hooks"}, {"redeem.note"})}

Alike ==
  Permutations(Access) \cup Permutations(Worker) \cup Permutations(Family) \cup Permutations(Redemption)
=============================================================================
