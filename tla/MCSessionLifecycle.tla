------------------------- MODULE MCSessionLifecycle -------------------------
(***************************************************************************)
(* Instances of SessionLifecycle for TLC.                                  *)
(***************************************************************************)
EXTENDS SessionLifecycle, TLC

CONSTANTS h1, h2, h3, p1, p2, alice

MCHandle == {h1, h2, h3}
OneOwner == [h \in Handle |-> alice]

(* Every step of a close or of a login's push-out may be its worker's last. *)
AtAnyClose ==
  {"close.add", "close.advance", "close.mark", "close.call", "close.remark", "close.unlist", "close.done"}
AtAnyUse == {"raise.retire", "raise.update", "live.end"}
AtAnyLogin == {"login.save", "login.check", "login.list", "login.issue", "login.answer", "close.add",
               "close.advance", "close.call", "close.done"}
WhileListing == {"login.keep"}
Anywhere == AtAnyClose \cup AtAnyLogin \cup WhileListing \cup {"login.putback", "login.relist", "login.end"}
Never == {}

Load(ops, vanish, handles, before, participants, cap) ==
  [ops |-> ops, vanish |-> vanish, handles |-> handles, before |-> before,
   participants |-> participants, cap |-> cap]

(* One session closed by its request, sweeps and a revocation at once.     *)
Closes == Load({"close", "sweep", "revoke", "expire"}, Never, {h1}, {h1}, {p1, p2}, 1)
(* Logins over a cap of one, closed by others, hosts stopping anywhere.    *)
Logins == Load({"login", "close", "sweep", "expire"}, Anywhere, {h1, h2}, {h1}, {p1}, 1)
(* The cookies of one session, entered and raised.                         *)
Cookies == Load({"enter", "raise", "close", "expire"}, AtAnyUse, {h1}, {h1}, {p1}, 1)
(* One login and revocations, on a clock.                                  *)
Boundaries == Load({"login", "revoke", "enter", "clock"}, AtAnyLogin, {h1}, {}, {p1}, 5)
(* A revocation with sessions closed and logged in beside it.              *)
Revocations == Load({"login", "revoke", "close"}, Never, {h1, h2}, {h1}, {p1}, 5)
(* Two logins over a cap of one.                                           *)
Listings == Load({"login", "close"}, Never, {h1, h2, h3}, {h1}, {p1}, 1)
MCLoads == {Closes, Logins, Cookies, Boundaries, Revocations, Listings}

(* For liveness: one session and nothing but its closes.                   *)
Finishing == {Load({"close", "sweep"}, AtAnyClose, {h1}, {h1}, {p1}, 1)}
(* A host may stop in the midst of listing.                                *)
PushOutCrash == {Load({"login", "close"}, WhileListing, {h1, h2}, {h1}, {p1}, 1)}
(* A revocation beside a login over the cap.                               *)
PutBack == {Load({"login", "revoke"}, Never, {h1, h2}, {h1}, {p1}, 1)}

SecretsAlike == Permutations(Secret)
WorkersAlike == Permutations(Worker)
Alike == SecretsAlike \cup WorkersAlike
=============================================================================
