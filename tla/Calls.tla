------------------------------- MODULE Calls -------------------------------
(***************************************************************************)
(* Requests, sweeps and closings as stacks of asynchronous calls: the call *)
(* one is in is the first frame, and what goes on once it returns is below *)
(* it.  One step lasts from an await to the next, so others run between.   *)
(* A throw drops frames down to the first that catches, which goes on from *)
(* its handler; one nothing catches ends the request.                      *)
(***************************************************************************)
EXTENDS Integers, Sequences

CONSTANTS
  Worker,  \* requests and sweeps under way at once, over all hosts
  OnThrow  \* from the pc of each frame that catches to the pc of its handler
VARIABLE
  task     \* each worker's stack of frames

Idle(w) == task[w] = <<>>
Top(w) == Head(task[w])
Doing(w, pc) == ~Idle(w) /\ Top(w).pc = pc

(* The call under way makes way for these.                                 *)
Become(w, frames) == task' = [task EXCEPT ![w] = frames \o Tail(@)]

To(w, pc) == Become(w, <<[Top(w) EXCEPT !.pc = pc]>>)
Return(w) == Become(w, <<>>)
Call(w, frame, pc) == Become(w, <<frame, [Top(w) EXCEPT !.pc = pc]>>)

Catching(stack) == {i \in DOMAIN stack : stack[i].pc \in DOMAIN OnThrow}

Unwound(stack) ==
  IF Catching(stack) = {} THEN <<>>
  ELSE LET i == CHOOSE i \in Catching(stack) : \A j \in Catching(stack) : i <= j IN
       <<[stack[i] EXCEPT !.pc = OnThrow[@]]>> \o SubSeq(stack, i + 1, Len(stack))

Throw(w) == task' = [task EXCEPT ![w] = Unwound(@)]

(* The host stops: nothing more of this is run.                            *)
Drop(w) == task' = [task EXCEPT ![w] = <<>>]

Start(w, stack) == Idle(w) /\ task' = [task EXCEPT ![w] = stack]

(* Some worker is at one of these, of this session.                        *)
Engaged(pcs, s) ==
  \E w \in Worker : \E i \in DOMAIN task[w] : task[w][i].pc \in pcs /\ task[w][i].s = s
=============================================================================
