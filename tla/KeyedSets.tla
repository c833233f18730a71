----------------------------- MODULE KeyedSets -----------------------------
(***************************************************************************)
(* Sets of members by key, at most a cap to each, as keyedSetsIn of        *)
(* modules/foundation/records keeps them: one record to a key, so what an  *)
(* add pushes out awaits in the same write that pushed it out.  Members    *)
(* end with what they name, so ends are left out.                          *)
(***************************************************************************)
EXTENDS Integers, FiniteSets

NoMembers == [held |-> {}, awaiting |-> {}]

(* What an add may push out: as many as are over the cap, never the one    *)
(* added.  The code takes those ending first; here, any others.            *)
OverCap(held, added, cap) ==
  LET over == Cardinality(held \cup {added}) - cap IN
  {out \in SUBSET (held \ {added}) : Cardinality(out) = IF over > 0 THEN over ELSE 0}

Added(set, member, out) ==
  [held |-> (set.held \cup {member}) \ out, awaiting |-> set.awaiting \cup out]

Settled(set, member) == [set EXCEPT !.awaiting = @ \ {member}]
=============================================================================
