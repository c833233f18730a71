------------------------- MODULE MCUpstreamRenewal -------------------------
(***************************************************************************)
(* An instance of UpstreamRenewal for TLC.                                 *)
(***************************************************************************)
EXTENDS UpstreamRenewal, TLC

CONSTANTS w1, w2, w3

Load(ops, n, tokens, kinds, crashes, limit) ==
  [ops |-> ops, logins |-> n, tokens |-> tokens, kinds |-> kinds, crashes |-> crashes, troubles |-> limit]

AtCurrent == {"current.again", "renew.ask", "renew.held", "current.release", "rewrite.update"}

(* Requests renew one login's tokens at once, a holder stalling, stopping  *)
(* or losing an answer.                                                    *)
Renewing == Load({"receive", "current"}, 1, 4, {"stall", "lost", "crash"}, AtCurrent, 2)
(* Renewals while the login is disconnected, withdrawn and received anew.  *)
Relinking == Load({"receive", "current", "disconnect", "withdraw"}, 2, 3, {"stall"}, {}, 1)
(* Logins and renewals while the session is short of a requirement, and    *)
(* closes.                                                                 *)
Closing == Load({"receive", "current", "close", "shorten"}, 2, 3, {"stall"}, {}, 1)

MCLoads == {Renewing, Relinking, Closing}
Permuted == Permutations(Worker)
=============================================================================
