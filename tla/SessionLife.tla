---------------------------- MODULE SessionLife ----------------------------
(***************************************************************************)
(* What a session's life promises, whoever closes it and however often     *)
(* they fail: it opens once, goes only forward, and where it was put to    *)
(* closing it ends only after every participant has finished with it.      *)
(* SessionLifecycle implements it.                                         *)
(***************************************************************************)
CONSTANTS Handle, Participant

VARIABLES
  called,   \* the participants a close calls, which never change
  life,     \* [Handle -> {"new", "open", "closing", "ended"}]
  finished  \* [Handle -> SUBSET Participant]: who finished with it

lifeVars == <<called, life, finished>>

LifeInit ==
  /\ called \subseteq Participant
  /\ life \in [Handle -> {"new", "open"}]
  /\ finished = [h \in Handle |-> {}]

Becomes(h, from, to) ==
  /\ life[h] \in from
  /\ life' = [life EXCEPT ![h] = to]

Opens(h) == Becomes(h, {"new"}, "open") /\ UNCHANGED finished

(* Ended where it is: its lifetime passed, or its listing could not be put *)
(* back.  No participant is called.                                        *)
EndsOpen(h) == Becomes(h, {"open"}, "ended") /\ UNCHANGED finished

StartsClosing(h) == Becomes(h, {"open"}, "closing") /\ UNCHANGED finished

(* A participant is called again when a close is: it may finish twice.     *)
Finishes(h, p) ==
  /\ life[h] \in {"closing", "ended"}
  /\ finished' = [finished EXCEPT ![h] = @ \cup {p}]
  /\ UNCHANGED life

EndsClosed(h) ==
  /\ called \subseteq finished[h]
  /\ Becomes(h, {"closing"}, "ended")
  /\ UNCHANGED finished

LifeNext ==
  /\ \E h \in Handle :
       \/ Opens(h)
       \/ EndsOpen(h)
       \/ StartsClosing(h)
       \/ \E p \in called : Finishes(h, p)
       \/ EndsClosed(h)
  /\ UNCHANGED called

LifeSpec == LifeInit /\ [][LifeNext]_lifeVars
=============================================================================
