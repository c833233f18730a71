----------------------------- MODULE MCRecords -----------------------------
EXTENDS Records, TLC

CONSTANTS a, b, c1, c2

(* A change that moves the record on, and one that leaves b as it is.      *)
Toggle == (a :> b) @@ (b :> a) @@ (Absent :> Unchanged)
Advance == (a :> b) @@ (b :> Unchanged) @@ (Absent :> a)

MCValue == {a, b}
MCClient == {c1, c2}
Create(life) == [kind |-> "create", value |-> a, life |-> life]
Change(rule, life) == [kind |-> "change", rule |-> rule, life |-> life]
Plain(kind) == [kind |-> kind]

(* Callers that contend for a record that stays.                           *)
Contending == {Create(Endless), Change(Toggle, Keeping), Plain("remove")}
(* Callers of a record whose absence a change fills, and readers of it.    *)
Filling == {Change(Advance, Endless), Plain("remove"), Plain("read")}
(* Callers of a record whose space loses everything under them.            *)
Rewriting == {Create(Endless), [Create(Endless) EXCEPT !.value = b], Change(Toggle, Keeping)}
(* Callers of a record that expires under them.                            *)
Expiring == {Create(1), Change(Advance, Keeping), Plain("remove")}

SpaceOf(g, calls, maxNow, maxFailovers, maxRequests) ==
  [guarantees |-> g, calls |-> calls, maxNow |-> maxNow, maxFailovers |-> maxFailovers,
   maxRequests |-> maxRequests]

(* What most spaces declare, with a failover and no clock.                 *)
Kept == SpaceOf({"durable", "replicated", "no-eviction"}, Contending, 0, 1, 3)
(* The same on a clock that passes deadlines, marks' ends and expiries.    *)
Clocked == SpaceOf({"durable", "replicated", "no-eviction"}, Expiring, 3, 0, 2)
(* A space that confirms reads too, as one read to decide on needs.        *)
ReadOver == SpaceOf({"durable", "replicated", "no-eviction", "confirmed-reads"}, Filling, 0, 1, 3)
(* A space that declares nothing, and may lose all it holds.               *)
Volatile == SpaceOf({}, Rewriting, 0, 1, 3)

KeptOnly == {Kept}
Others == {Clocked, ReadOver, Volatile}
Clients == Permutations(MCClient)
AnyCall == Contending \cup Filling \cup Rewriting \cup Expiring
=============================================================================
