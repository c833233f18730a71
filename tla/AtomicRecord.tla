--------------------------- MODULE AtomicRecord ----------------------------
(***************************************************************************)
(* What a record promises its callers, with no store, mark, clock or       *)
(* replica in sight: the writes that count form one history, each made on  *)
(* what the one before left; the history only grows; and a call is told    *)
(* only what an entry of the history says, or that nobody can tell.        *)
(***************************************************************************)
EXTENDS Integers, Sequences

CONSTANTS Client, Absent, Never

VARIABLES
  history,   \* the writes that count: [mark, base, after, ends, at, version]
  told       \* what each client's last call was told, and by which write

Follows(e, f) ==
  f.base = IF e.ends # Never /\ e.ends <= f.at THEN Absent ELSE e.after

Legal(h) ==
  /\ \A i \in 1..Len(h) : IF i = 1 THEN h[i].base = Absent ELSE Follows(h[i - 1], h[i])
  /\ \A i, j \in 1..Len(h) : h[i].mark = h[j].mark => i = j

Says(said, e) ==
  CASE said = "created"   -> e.base = Absent /\ e.after # Absent
    [] said = "changed"   -> e.after # Absent
    [] said = "exists"    -> e.base # Absent /\ e.after = e.base
    [] said = "unchanged" -> e.after = e.base
    [] said = "removed"   -> e.after = Absent
    [] OTHER              -> FALSE

Justified(t, h) ==
  \/ t.said \in {"nothing", "unavailable", "read"}
  \/ \E i \in 1..Len(h) : h[i].mark = t.by /\ Says(t.said, h[i])

Init ==
  /\ history = <<>>
  /\ \A c \in Client : told[c].said = "nothing"

(* Writes come to count, and calls are told, in one step or apart.         *)
Next ==
  /\ Len(history) <= Len(history') /\ history = SubSeq(history', 1, Len(history))
  /\ Legal(history')
  /\ \A c \in Client : told'[c] # told[c] => Justified(told'[c], history')

Spec == Init /\ [][Next]_<<history, told>>
=============================================================================
