------------------------------ MODULE Periodic ------------------------------
(***************************************************************************)
(* A host's periodic task and its stop, as the kernel runs them: ticks     *)
(* until the stop, never two runs at once; the stop clears the timer,      *)
(* waits for the run under way, then runs the stop hooks, each waited for, *)
(* all within a deadline past which nothing more is waited for.            *)
(***************************************************************************)
EXTENDS Naturals

CONSTANT Host
VARIABLES
  phase,    \* up, then stopping (its tasks waited for), hook (its hook waited for), and
            \* stopped or, past the deadline, late; down once its process ended
  current,  \* a run of the task is under way, as its `current` says
  restarts  \* processes started over, so far

periodicVars == <<phase, current, restarts>>

PeriodicInit ==
  /\ phase = [h \in Host |-> "up"]
  /\ current = [h \in Host |-> FALSE]
  /\ restarts = 0

(* A run still going takes this tick too.                                  *)
Tick(h) ==
  /\ phase[h] = "up" /\ ~current[h]
  /\ current' = [current EXCEPT ![h] = TRUE]
  /\ UNCHANGED <<phase, restarts>>

(* Broken: the run that ended is still the current one.                    *)
RunEndsNot(h) == UNCHANGED periodicVars

RunEnds(h) ==
  /\ current' = [current EXCEPT ![h] = FALSE]
  /\ UNCHANGED <<phase, restarts>>

To(h, before, next) ==
  /\ phase[h] \in before
  /\ phase' = [phase EXCEPT ![h] = next]

StopBegins(h) == To(h, {"up"}, "stopping") /\ UNCHANGED <<current, restarts>>

TasksEnded(h) == ~current[h] /\ To(h, {"stopping"}, "hook") /\ UNCHANGED <<current, restarts>>

HookEnded(h) == To(h, {"hook"}, "stopped") /\ UNCHANGED <<current, restarts>>

Deadline(h) == To(h, {"stopping", "hook"}, "late") /\ UNCHANGED <<current, restarts>>

(* Its process ends, at its stop's end or killed, and is started again.    *)
Ends(h) ==
  /\ phase[h] # "down"
  /\ phase' = [phase EXCEPT ![h] = "down"]
  /\ current' = [current EXCEPT ![h] = FALSE]

Starts(h) == restarts' = restarts + 1 /\ To(h, {"down"}, "up") /\ UNCHANGED current

PeriodicTypeOK ==
  /\ phase \in [Host -> {"up", "stopping", "hook", "stopped", "late", "down"}]
  /\ current \in [Host -> BOOLEAN]
  /\ restarts \in Nat
=============================================================================
