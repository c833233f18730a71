-------------------------- MODULE MCLogoutNotices --------------------------
(***************************************************************************)
(* An instance of LogoutNotices for TLC.                                   *)
(***************************************************************************)
EXTENDS LogoutNotices

CONSTANTS h1, h2, c1, c2

(* Put off, a notice goes to the other of two shards: once to the one the  *)
(* same sweep reads next, then to the one it has read.                     *)
MCShardOf(n) == n.after % 2

Load(clients, serving, sweeping, calls, stops, troubles) ==
  [clients |-> clients, serving |-> serving, sweeping |-> sweeping,
   closings |-> calls, stops |-> stops, faults |-> troubles]

(* Two clients redeem while one of two hosts closes their session.         *)
Redeeming == Load({c1, c2}, {h1, h2}, {}, 1, 0, 0)
(* A host that stops while it delivers and sweeps.                         *)
Stopping == Load({c1}, {h1}, {h1}, 1, 1, 0)
(* A delivery and a sweep put the same notice off, a call failing or a     *)
(* host killed.                                                            *)
PuttingOff == Load({c1}, {h1}, {h2}, 1, 0, 1)
(* Two sweeps and a delivery put it off.                                   *)
Sweeps == Load({c1}, {h1}, {h1, h2}, 1, 0, 0)
(* A close that fails halfway and is asked again.                          *)
Again == Load({c1, c2}, {h1}, {}, 2, 0, 1)

MCLoads == {Redeeming, Stopping, PuttingOff, Sweeps, Again}
=============================================================================
