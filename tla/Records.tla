------------------------------ MODULE Records ------------------------------
(***************************************************************************)
(* The callers of one record: modules/foundation/records over the store.   *)
(* A call reads, decides, and writes on exactly what it read, under a mark *)
(* and a deadline; an unanswered write is sent again; a call that changes  *)
(* nothing first confirms what it read with a write of its own.            *)
(***************************************************************************)
EXTENDS ReplicatedStore

CONSTANTS
  Client,       \* the calls that may be under way at once
  Unchanged,    \* what a change decides where it changes nothing
  Operation,    \* the calls that are made: see CallTypes
  Patience,     \* patienceMs: from the read of the clock to the write's deadline
  MaxSends,     \* how often one write is sent before its patience ends
  MaxAttempts   \* attempts: how often a call decides again after losing a race

(* What a change decides, from what the key holds.                         *)
Rule == [Value \cup {Absent} -> Value \cup {Unchanged}]

Lifetime == (Nat \ {0}) \cup {Keeping, Endless}

CallTypes ==
  [kind : {"create"}, value : Value, life : Lifetime \ {Keeping}]
    \cup [kind : {"change"}, rule : Rule, life : Lifetime]
    \cup [kind : {"remove", "read"}]

ASSUME RecordsAssumption ==
  /\ Unchanged \notin Value
  /\ \A op \in Operation : op \in CallTypes
  /\ Patience \in Nat /\ MaxSends \in Nat \ {0}
  /\ MaxAttempts \in Nat \ {0}

VARIABLES
  call,      \* what each client is doing: see Call
  standing,  \* what became of the write a client awaits the confirmation of
  told       \* what each client's last call was told, and by which write

vars == <<space, primary, replica, lastVersion, now, failovers, requests, adrift,
          call, standing, told>>

clientVars == <<call, standing, told>>

Untold == [said |-> "nothing", by |-> 0]
NoOp == [kind |-> "none"]

(* pc:  idle    no call                                                    *)
(*      begin   an attempt is about to read                                *)
(*      send    a write is about to be sent                                *)
(*      applied the primary took it; its answer waits for the replica      *)
(*      unsure  the store did not answer                                   *)
(*      recheck a create found a record and is about to read it            *)
Call ==
  [pc : {"idle", "begin", "send", "applied", "unsure", "recheck"},
   op : Operation \cup {NoOp},
   mark : Nat, reply : Written \cup Refused \cup {"none"},
   sends : Nat, tried : Nat]

Doing(pc, op, mark, sends, tried) ==
  [pc |-> pc, op |-> op, mark |-> mark, reply |-> "none", sends |-> sends, tried |-> tried]

Idle == Doing("idle", NoOp, 0, 0, 0)

Init ==
  /\ StoreInit
  /\ call = [c \in Client |-> Idle]
  /\ standing = [c \in Client |-> "none"]
  /\ told = [c \in Client |-> Untold]

----------------------------------------------------------------------------

(* The call is over; what it is told names the write that stands for it.   *)
Tell(c, said, by) ==
  /\ call' = [call EXCEPT ![c] = Idle]
  /\ told' = [told EXCEPT ![c] = [said |-> said, by |-> by]]
  /\ UNCHANGED requests

(* Another attempt, or Unavailable once the attempts are used up.          *)
Again(c) ==
  IF call[c].tried + 1 >= MaxAttempts
  THEN Tell(c, "unavailable", 0)
  ELSE /\ call' = [call EXCEPT ![c] = Doing("begin", call[c].op, 0, 0, call[c].tried + 1)]
       /\ UNCHANGED <<requests, told>>

(* A request under a fresh mark, about to be sent.                         *)
Draw(c, request) ==
  /\ Len(requests) < space.maxRequests
  /\ requests' = Append(requests, request)
  /\ call' = [call EXCEPT ![c] =
               Doing("send", call[c].op, Len(requests) + 1, 1, call[c].tried)]
  /\ UNCHANGED told

Request(kind, held, value, life, deadline) ==
  [kind |-> kind, base |-> held.value, version |-> held.version,
   value |-> value, life |-> life, deadline |-> deadline]

(* confirmedAsRead: a write made only while the key holds what was read.   *)
SettleAsRead(c, held, deadline) ==
  Draw(c, Request("settle", held, held.value, Keeping, deadline))

Start(c, op) ==
  /\ call[c].pc = "idle"
  /\ call' = [call EXCEPT ![c] = Doing("begin", op, 0, 0, 0)]
  /\ told' = [told EXCEPT ![c] = Untold]
  /\ UNCHANGED <<storeVars, standing>>

(* Broken: reads confirm nothing.                                          *)
ReadUnconfirmed ==
  UNCHANGED <<primary, replica, lastVersion, now, failovers, adrift, standing>>

(* Reading confirms what the primary holds where the space confirms reads. *)
ReadStore ==
  /\ IF "confirmed-reads" \in space.guarantees
     THEN /\ Confirm
          /\ standing' = [d \in Client |-> IF standing[d] = "pending" THEN "confirmed"
                                           ELSE standing[d]]
     ELSE UNCHANGED <<replica, standing>>
  /\ UNCHANGED <<primary, lastVersion, now, failovers, adrift>>

(* create and remove read only the store's clock.                          *)
BeginBlind(c) ==
  /\ call[c].pc = "begin"
  /\ UNCHANGED <<primary, replica, lastVersion, now, failovers, adrift, standing>>
  /\ \/ /\ call[c].op.kind = "create"
        /\ Draw(c, Request("put", NoRecord, call[c].op.value, call[c].op.life, now + Patience))
     \/ /\ call[c].op.kind = "remove"
        /\ Draw(c, Request("take", NoRecord, Absent, Keeping, now + Patience))

(* rewrite: read, decide, and write on what was read, or confirm it.       *)
BeginChange(c) ==
  /\ call[c].pc = "begin" /\ call[c].op.kind = "change"
  /\ ReadStore
  /\ LET held == Live(primary)
         decided == call[c].op.rule[held.value]
         life == call[c].op.life
     IN  IF decided = Unchanged
         THEN SettleAsRead(c, held, now + Patience)
         ELSE Draw(c, Request(IF held = NoRecord THEN "put" ELSE "replace",
                              held, decided, life, now + Patience))

Read(c) ==
  /\ call[c].pc = "begin" /\ call[c].op.kind = "read"
  /\ ReadStore
  /\ Tell(c, "read", Live(primary).version)

(* A create that met a record reads it, and confirms it before it says so. *)
Recheck(c) ==
  /\ call[c].pc = "recheck"
  /\ ReadStore
  /\ LET held == Live(primary) IN
     IF held = NoRecord THEN Again(c)
     ELSE SettleAsRead(c, held, requests[call[c].mark].deadline)

(* A read the store does not answer is not tried again: the call fails.    *)
ReadFails(c) ==
  /\ call[c].pc \in {"begin", "recheck"}
  /\ Tell(c, "unavailable", 0)
  /\ UNCHANGED <<primary, replica, lastVersion, now, failovers, adrift, standing>>

(* Broken: a removal that found nothing takes the absence at its word.     *)
ReceiveAbsence(c, answer) ==
  LET op == call[c].op.kind
      mark == call[c].mark
  IN  CASE answer = "written" ->
             Tell(c, IF op = "create" THEN "created" ELSE "changed", mark)
        [] answer \in {"taken", "missing"} /\ op = "remove" -> Tell(c, "removed", mark)
        [] answer = "committed" -> Tell(c, IF op = "create" THEN "exists" ELSE "unchanged", mark)
        [] answer = "exists" /\ op = "create" ->
             /\ call' = [call EXCEPT ![c].pc = "recheck", ![c].reply = "none"]
             /\ UNCHANGED <<requests, told>>
        [] answer = "late" -> Tell(c, "unavailable", 0)
        [] OTHER -> Again(c)

(* What a call does with the answer to its write.                          *)
Receive(c, answer) ==
  LET kind == requests[call[c].mark].kind
      op == call[c].op.kind
      mark == call[c].mark
  IN  CASE answer = "written" ->
             Tell(c, IF op = "create" THEN "created" ELSE "changed", mark)
        [] answer = "taken" -> Tell(c, "removed", mark)
        [] answer = "committed" ->
             Tell(c, CASE op = "create" -> "exists"
                       [] op = "change" -> "unchanged"
                       [] op = "remove" -> "removed", mark)
        [] answer = "exists" /\ op = "create" ->
             /\ call' = [call EXCEPT ![c].pc = "recheck", ![c].reply = "none"]
             /\ UNCHANGED <<requests, told>>
        [] answer = "missing" /\ kind = "take" ->
             SettleAsRead(c, NoRecord, requests[mark].deadline)
        [] answer = "late" /\ kind # "settle" -> Tell(c, "unavailable", 0)
        [] OTHER -> Again(c)

Unsure(c) ==
  /\ call' = [call EXCEPT ![c].pc = "unsure", ![c].reply = "none"]
  /\ UNCHANGED <<requests, told>>

(* The send does not reach the primary, or not yet.                        *)
SendLost(c) ==
  /\ call[c].pc = "send"
  /\ adrift' = adrift \cup {call[c].mark}
  /\ Unsure(c)
  /\ UNCHANGED <<primary, replica, lastVersion, now, failovers, standing>>

(* The primary takes the send, and its reply is lost.                      *)
ReplyLost(c) ==
  /\ call[c].pc = "send"
  /\ Apply(call[c].mark)
  /\ Unsure(c)
  /\ UNCHANGED <<replica, now, failovers, adrift, standing>>

(* The primary takes the send and answers; an answer the space confirms    *)
(* waits for the replica.                                                  *)
SendTaken(c) ==
  /\ call[c].pc = "send"
  /\ Apply(call[c].mark)
  /\ UNCHANGED <<replica, now, failovers, adrift>>
  /\ LET answer == Answer(primary, call[c].mark) IN
     IF Confirms(answer)
     THEN /\ call' = [call EXCEPT ![c].pc = "applied", ![c].reply = answer]
          /\ standing' = [standing EXCEPT ![c] = "pending"]
          /\ UNCHANGED <<requests, told>>
     ELSE /\ Receive(c, answer)
          /\ UNCHANGED standing

(* The replica holds what the primary does; every write before is confirmed. *)
ConfirmWrite(c) ==
  /\ call[c].pc = "applied" /\ standing[c] = "pending"
  /\ Confirm
  /\ standing' = [d \in Client |-> IF d = c THEN "none"
                                   ELSE IF standing[d] = "pending" THEN "confirmed"
                                   ELSE standing[d]]
  /\ Receive(c, call[c].reply)
  /\ UNCHANGED <<primary, lastVersion, now, failovers, adrift>>

(* A later write or a read confirmed it.                                   *)
FindConfirmed(c) ==
  /\ call[c].pc = "applied" /\ standing[c] = "confirmed"
  /\ standing' = [standing EXCEPT ![c] = "none"]
  /\ Receive(c, call[c].reply)
  /\ UNCHANGED <<primary, replica, lastVersion, now, failovers, adrift>>

(* A failover lost the write, or the replicas stall: no answer.            *)
NotConfirmed(c) ==
  /\ call[c].pc = "applied"
  /\ standing' = [standing EXCEPT ![c] = "none"]
  /\ Unsure(c)
  /\ UNCHANGED <<primary, replica, lastVersion, now, failovers, adrift>>

(* untilAnswered: the same request under the same mark, while patient.     *)
Resend(c) ==
  /\ call[c].pc = "unsure" /\ call[c].sends < MaxSends
  /\ call' = [call EXCEPT ![c].pc = "send", ![c].sends = @ + 1]
  /\ UNCHANGED <<storeVars, standing, told>>

GiveUp(c) ==
  /\ call[c].pc = "unsure" /\ call[c].sends = MaxSends
  /\ Tell(c, "unavailable", 0)
  /\ UNCHANGED <<primary, replica, lastVersion, now, failovers, adrift, standing>>

(* A delayed send reaches the primary; nobody waits for its answer.        *)
Land(m) ==
  /\ m \in adrift
  /\ adrift' = adrift \ {m}
  /\ Apply(m)
  /\ UNCHANGED <<replica, now, failovers, requests, clientVars>>

(* The replica takes over; what was not confirmed is lost.                 *)
Failover ==
  /\ failovers < space.maxFailovers
  /\ failovers' = failovers + 1
  /\ primary' = replica
  /\ standing' = [c \in Client |-> IF standing[c] = "pending" THEN "lost" ELSE standing[c]]
  /\ UNCHANGED <<replica, lastVersion, now, requests, adrift, call, told>>

(* A restart, or memory running short: a space without the guarantee loses *)
(* everything, its marks too, on the primary and the replica.              *)
Forget ==
  /\ ~({"durable", "no-eviction"} \subseteq space.guarantees)
  /\ failovers < space.maxFailovers
  /\ failovers' = failovers + 1
  /\ primary' = Empty /\ replica' = Empty
  /\ standing' = [c \in Client |-> IF standing[c] # "none" THEN "lost" ELSE "none"]
  /\ UNCHANGED <<lastVersion, now, requests, adrift, call, told>>

Step(c) ==
  \/ \E op \in space.calls \cap Operation : Start(c, op)
  \/ BeginBlind(c)
  \/ BeginChange(c)
  \/ Read(c)
  \/ Recheck(c)
  \/ ReadFails(c)
  \/ SendLost(c)
  \/ ReplyLost(c)
  \/ SendTaken(c)
  \/ ConfirmWrite(c)
  \/ FindConfirmed(c)
  \/ NotConfirmed(c)
  \/ Resend(c)
  \/ GiveUp(c)

Next ==
  /\ \/ \E c \in Client : Step(c)
     \/ \E m \in adrift : Land(m)
     \/ Failover
     \/ Forget
     \/ Tick /\ UNCHANGED clientVars
  /\ UNCHANGED space

Spec == Init /\ [][Next]_vars

----------------------------------------------------------------------------

RequestType ==
  [kind : {"put", "replace", "take", "settle"}, base : Value \cup {Absent}, version : Nat,
   value : Value \cup {Absent}, life : Lifetime, deadline : Nat]

HeldType == [value : Value \cup {Absent}, version : Nat, ends : Nat \cup {Never}]

EntryType ==
  [mark : Nat \ {0}, base : Value \cup {Absent}, after : Value \cup {Absent},
   ends : Nat \cup {Never}, version : Nat, at : Nat]

NodeOK(s) ==
  /\ DOMAIN s = {"held", "seen", "log"}
  /\ s.held \in HeldType
  /\ DOMAIN s.seen \subseteq Marks
  /\ \A m \in DOMAIN s.seen : s.seen[m].answer \in Written \cup Refused /\ s.seen[m].until \in Nat
  /\ s.log \in Seq(EntryType)

(* The type of every variable.                                             *)
TypeOK ==
  /\ NodeOK(primary) /\ NodeOK(replica)
  /\ lastVersion \in Nat /\ now \in Nat /\ failovers \in Nat
  /\ requests \in Seq(RequestType)
  /\ adrift \subseteq Marks
  /\ call \in [Client -> Call]
  /\ \A c \in Client : call[c].pc \in {"send", "applied", "unsure", "recheck"} =>
       call[c].mark \in Marks /\ call[c].op.kind \in {"create", "change", "remove"}
  /\ standing \in [Client -> {"none", "pending", "confirmed", "lost"}]
  /\ told \in [Client -> [said : {"nothing", "created", "changed", "exists", "unchanged",
                                  "removed", "read", "unavailable"}, by : Nat]]

(* A write sent again, delayed on its way, or answered by a node that took *)
(* over takes effect at most once in what any node holds (untilAnswered).  *)
AtMostOnce ==
  \A s \in {primary, replica} : \A i, j \in 1..Len(s.log) :
    s.log[i].mark = s.log[j].mark => i = j

(* A lost send cannot act later: no write takes effect past the deadline   *)
(* it was sent with, though nobody waits for it any more (writeDeadline).  *)
NothingLate ==
  \A s \in {primary, replica} : \A i \in 1..Len(s.log) :
    s.log[i].at <= requests[s.log[i].mark].deadline

(* No update is lost: each write was decided on what the write before it   *)
(* left, or on the absence its expiry left; a version a failover lost is   *)
(* never mistaken for one written since (rewrite, replaceIf).              *)
Follows(e, f) ==
  f.base = IF e.ends # Never /\ e.ends <= f.at THEN Absent ELSE e.after

Chained ==
  \A s \in {primary, replica} : \A i \in 1..Len(s.log) :
    IF i = 1 THEN s.log[i].base = Absent ELSE Follows(s.log[i - 1], s.log[i])

(* What a call was told rests on a write the replica holds, so no failover *)
(* takes it back: what a change wrote, and also what it only saw: that a   *)
(* record exists, is unchanged or is gone (confirmedAsRead).               *)
Positive == {"created", "changed", "exists", "unchanged", "removed"}

AnswersKept ==
  \A c \in Client :
    told[c].said \in Positive => \E i \in 1..Len(replica.log) : replica.log[i].mark = told[c].by

(* Where the space confirms reads, the version a plain read saw is one the *)
(* replica took, so what was read cannot turn out never to have been.      *)
ReadsKept ==
  \A c \in Client :
    told[c].said = "read" /\ told[c].by # 0
      => \E i \in 1..Len(replica.log) : replica.log[i].version = told[c].by

(* In a replicated space the callers see one atomic record, whose history  *)
(* is what the replica took.                                               *)
Atomic == INSTANCE AtomicRecord WITH history <- replica.log
IsAtomic == Atomic!Spec
=============================================================================
