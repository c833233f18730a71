--------------------------- MODULE RecordsProofs ---------------------------
(***************************************************************************)
(* What the runs of MCRecords show for two callers and three marks, proved *)
(* for any number of them: that the callers of a record in a replicated    *)
(* space see one atomic record, and, in every space, that no write takes   *)
(* effect late, twice, or on anything but what the one before it left.     *)
(*                                                                         *)
(* The argument has two parts.  IInv: a node remembers every write of its  *)
(* history under the write's mark until Skew past the write's deadline, so *)
(* where a resend finds its mark forgotten, it is late.  SInv: a version,  *)
(* wherever it is still known, names one value for good, so a write that   *)
(* compares versions was decided on what the node's last write left; and   *)
(* what a call awaits the confirmation of is in the primary's history.     *)
(***************************************************************************)
EXTENDS Records, SequenceTheorems, TLAPS

(* What a node keeps of its history, against the requests in rs.           *)
Fine(s, rs) ==
  /\ DOMAIN s = {"held", "seen", "log"}
  /\ s.held \in HeldType
  /\ DOMAIN s.seen \subseteq 1..Len(rs)
  /\ \A m \in DOMAIN s.seen :
       s.seen[m].answer \in Written \cup Refused /\ s.seen[m].until \in Nat
  /\ s.log \in Seq(EntryType)
  /\ \A i \in 1..Len(s.log) :
       /\ s.log[i].mark \in DOMAIN s.seen
       /\ s.seen[s.log[i].mark].until = rs[s.log[i].mark].deadline + Skew
       /\ s.log[i].at <= rs[s.log[i].mark].deadline
  /\ \A i, j \in 1..Len(s.log) : s.log[i].mark = s.log[j].mark => i = j

(* The clients' side of TypeOK, against the requests in rs.                *)
Calls(rs, cs, ts) ==
  /\ rs \in Seq(RequestType)
  /\ cs \in [Client -> Call]
  /\ \A c \in Client : cs[c].pc \in {"send", "applied", "unsure", "recheck"} =>
       cs[c].mark \in 1..Len(rs) /\ cs[c].op.kind \in {"create", "change", "remove"}
  /\ ts \in [Client -> [said : {"nothing", "created", "changed", "exists", "unchanged",
                                "removed", "read", "unavailable"}, by : Nat]]

Extends(rs, more) ==
  Len(rs) <= Len(more) /\ \A m \in 1..Len(rs) : more[m] = rs[m]

IInv ==
  /\ Fine(primary, requests)
  /\ Fine(replica, requests)
  /\ Calls(requests, call, told)
  /\ lastVersion \in Nat /\ now \in Nat /\ failovers \in Nat
  /\ adrift \subseteq Marks
  /\ standing \in [Client -> {"none", "pending", "confirmed", "lost"}]

(* The invariant gives what is to be shown.                                *)
LEMMA IInvImplies == IInv => TypeOK /\ NothingLate /\ AtMostOnce
BY DEF IInv, Fine, Calls, TypeOK, NodeOK, NothingLate, AtMostOnce, Marks

LEMMA DoingCall ==
  ASSUME NEW pc \in {"idle", "begin", "send", "applied", "unsure", "recheck"},
         NEW op \in Operation \cup {NoOp}, NEW mark \in Nat, NEW sends \in Nat, NEW tried \in Nat
  PROVE  /\ Doing(pc, op, mark, sends, tried) \in Call
         /\ Doing(pc, op, mark, sends, tried).pc = pc
         /\ Doing(pc, op, mark, sends, tried).op = op
         /\ Doing(pc, op, mark, sends, tried).mark = mark
BY DEF Doing, Call, Written, Refused

LEMMA InitIInv == Init => IInv
<1> SUFFICES ASSUME Init PROVE IInv
  OBVIOUS
<1>1. Fine(Empty, <<>>)
  BY StoreAssumption DEF Fine, Empty, NoRecord, HeldType, EntryType, Never
<1>2. Calls(<<>>, call, told)
  <2>1. Idle \in Call /\ Idle.pc = "idle"
    BY DoingCall DEF Idle
  <2>2. Untold \in [said : {"nothing", "created", "changed", "exists", "unchanged",
                           "removed", "read", "unavailable"}, by : Nat]
    BY DEF Untold
  <2> QED
    BY <2>1, <2>2 DEF Init, Calls
<1> QED
  BY <1>1, <1>2 DEF Init, StoreInit, IInv, Marks

(* A node stays fine as more requests are drawn.                           *)
LEMMA FineExtends ==
  ASSUME NEW s, NEW rs \in Seq(RequestType), NEW more \in Seq(RequestType),
         Fine(s, rs), Extends(rs, more)
  PROVE  Fine(s, more)
BY DEF Fine, Extends

LEMMA EmptyFine ==
  ASSUME NEW rs \in Seq(RequestType)
  PROVE  Fine(Empty, rs)
BY StoreAssumption DEF Fine, Empty, NoRecord, HeldType, EntryType, Never

(* What the key holds after a request has a record's type.                 *)
LEMMA HeldAfterType ==
  ASSUME NEW s, s.held \in HeldType, now \in Nat,
         NEW r \in RequestType, NEW v \in Nat
  PROVE  HeldAfter(s, r, v) \in HeldType /\ Live(s) \in HeldType
<1>1. Live(s) \in HeldType
  BY DEF Live, NoRecord, HeldType, Never
<1>2. ResolveExpiry(r.life, Live(s)) \in Nat \cup {Never}
  BY <1>1 DEF ResolveExpiry, RequestType, Lifetime, HeldType, Never, Keeping, Endless
<1>3. r.value \in Value \cup {Absent} /\ r.kind \in {"put", "replace", "take", "settle"}
  BY DEF RequestType
<1>4. NoRecord \in HeldType
  BY DEF NoRecord, HeldType, Never
<1> QED
  BY <1>1, <1>2, <1>3, <1>4 DEF HeldAfter, HeldType

(* A node that takes a request stays fine: the write it makes is in time,  *)
(* and was not made before, or its mark would still be remembered.         *)
LEMMA GuardedFine ==
  ASSUME NEW s, NEW m \in Marks, Fine(s, requests),
         requests \in Seq(RequestType), now \in Nat, lastVersion \in Nat
  PROVE  Fine(Guarded(s, m), requests)
<1> DEFINE answer == Answer(s, m)
           r == requests[m]
<1>1. r \in RequestType /\ r.deadline \in Nat /\ Skew \in Nat \ {0}
  <2>1. r \in RequestType
    BY DEF Marks
  <2>2. r.deadline \in Nat
    BY <2>1 DEF RequestType
  <2> QED
    BY <2>1, <2>2, StoreAssumption
<1>2. CASE Remembered(s, m)
  BY <1>2 DEF Guarded
<1>3. CASE ~Remembered(s, m)
  <2>1. answer \in Written \cup Refused
    BY <1>1, <1>3 DEF Answer, Outcome, Written, Refused, RequestType
  <2>2. /\ DOMAIN Remember(s, m, answer) = DOMAIN s.seen \cup {m}
        /\ Remember(s, m, answer)[m] = [answer |-> answer, until |-> r.deadline + Skew]
        /\ \A x \in DOMAIN s.seen : x # m => Remember(s, m, answer)[x] = s.seen[x]
    BY DEF Remember
  <2>3. \A x \in DOMAIN Remember(s, m, answer) :
          /\ Remember(s, m, answer)[x].answer \in Written \cup Refused
          /\ Remember(s, m, answer)[x].until \in Nat
    BY <1>1, <2>1, <2>2 DEF Fine
  <2>4. \A i \in 1..Len(s.log) :
          /\ s.log[i].mark \in DOMAIN Remember(s, m, answer)
          /\ Remember(s, m, answer)[s.log[i].mark].until = requests[s.log[i].mark].deadline + Skew
    BY <2>2 DEF Fine
  <2>5. CASE answer \notin Written
    <3>1. Guarded(s, m) = [s EXCEPT !.seen = Remember(s, m, answer)]
      BY <1>3, <2>5 DEF Guarded
    <3>2. /\ DOMAIN Guarded(s, m) = {"held", "seen", "log"}
          /\ Guarded(s, m).held = s.held /\ Guarded(s, m).log = s.log
          /\ Guarded(s, m).seen = Remember(s, m, answer)
      BY <3>1 DEF Fine
    <3> QED
      BY <2>2, <2>3, <2>4, <3>2 DEF Fine, Marks
  <2>6. CASE answer \in Written
    <3> DEFINE e == Entry(s, m, NextVersion)
    <3>1. Guarded(s, m) = [held |-> HeldAfter(s, r, NextVersion),
                           seen |-> Remember(s, m, answer),
                           log |-> Append(s.log, e)]
      BY <1>3, <2>6 DEF Guarded
    <3>2. HeldAfter(s, r, NextVersion) \in HeldType /\ Live(s) \in HeldType
      BY <1>1, HeldAfterType DEF Fine, NextVersion
    <3>3. e \in EntryType /\ e.mark = m /\ e.at = now
      BY <1>1, <3>2 DEF Entry, EntryType, HeldType, RequestType, Marks
    <3>4. now <= r.deadline
      BY <1>1, <1>3, <2>6 DEF Answer, Late, Written
    <3>5. \A i \in 1..Len(s.log) : s.log[i].mark # m
      <4> SUFFICES ASSUME NEW i \in 1..Len(s.log), s.log[i].mark = m PROVE FALSE
        OBVIOUS
      <4>1. m \in DOMAIN s.seen /\ s.seen[m].until = r.deadline + Skew
        BY DEF Fine
      <4> QED
        BY <1>1, <1>3, <3>4, <4>1 DEF Remembered
    <3> HIDE DEF e
    <3>6. s.log \in Seq(EntryType) /\ Append(s.log, e) \in Seq(EntryType)
      BY <3>3 DEF Fine
    <3>7. /\ Len(Append(s.log, e)) = Len(s.log) + 1
          /\ \A i \in 1..Len(s.log) : Append(s.log, e)[i] = s.log[i]
          /\ Append(s.log, e)[Len(s.log) + 1] = e
      BY <3>6
    <3>8. \A i \in 1..Len(Append(s.log, e)) :
            /\ Append(s.log, e)[i].mark \in DOMAIN Remember(s, m, answer)
            /\ Remember(s, m, answer)[Append(s.log, e)[i].mark].until
                 = requests[Append(s.log, e)[i].mark].deadline + Skew
            /\ Append(s.log, e)[i].at <= requests[Append(s.log, e)[i].mark].deadline
      <4> SUFFICES ASSUME NEW i \in 1..(Len(s.log) + 1)
                   PROVE  /\ Append(s.log, e)[i].mark \in DOMAIN Remember(s, m, answer)
                          /\ Remember(s, m, answer)[Append(s.log, e)[i].mark].until
                               = requests[Append(s.log, e)[i].mark].deadline + Skew
                          /\ Append(s.log, e)[i].at <= requests[Append(s.log, e)[i].mark].deadline
        BY <3>7
      <4>1. CASE i = Len(s.log) + 1
        BY <2>2, <3>3, <3>4, <3>7, <4>1
      <4>2. CASE i \in 1..Len(s.log)
        BY <2>4, <3>7, <4>2 DEF Fine
      <4> QED
        BY <3>6, <4>1, <4>2
    <3>9. \A i, j \in 1..Len(Append(s.log, e)) :
            Append(s.log, e)[i].mark = Append(s.log, e)[j].mark => i = j
      BY <3>3, <3>5, <3>6, <3>7 DEF Fine
    <3> HIDE DEF answer, r
    <3>10. DOMAIN Remember(s, m, answer) \subseteq 1..Len(requests)
      BY <2>2 DEF Fine, Marks
    <3> QED
      BY <2>3, <3>1, <3>2, <3>6, <3>8, <3>9, <3>10 DEF Fine
  <2> QED
    BY <2>5, <2>6
<1> QED
  BY <1>2, <1>3

(* The building blocks of a client's step keep the clients' types, and     *)
(* only add requests.                                                      *)
LEMMA TellCalls ==
  ASSUME NEW c \in Client, NEW said, NEW by \in Nat, Tell(c, said, by),
         Calls(requests, call, told),
         said \in {"nothing", "created", "changed", "exists", "unchanged",
                   "removed", "read", "unavailable"}
  PROVE  Calls(requests', call', told') /\ Extends(requests, requests')
<1>1. Idle \in Call /\ Idle.pc = "idle"
  BY DoingCall DEF Idle
<1> QED
  BY <1>1 DEF Tell, Calls, Extends

LEMMA AgainCalls ==
  ASSUME NEW c \in Client, Again(c), Calls(requests, call, told)
  PROVE  Calls(requests', call', told') /\ Extends(requests, requests')
<1>1. CASE call[c].tried + 1 >= MaxAttempts
  BY <1>1, TellCalls DEF Again
<1>2. CASE ~(call[c].tried + 1 >= MaxAttempts)
  <2> DEFINE next == Doing("begin", call[c].op, 0, 0, call[c].tried + 1)
  <2>1. call[c].op \in Operation \cup {NoOp} /\ call[c].tried + 1 \in Nat
    BY DEF Calls, Call
  <2>2. next \in Call /\ next.pc = "begin"
    BY <2>1 DEF Doing, Call, Written, Refused
  <2> HIDE DEF next
  <2>3. call' = [call EXCEPT ![c] = next] /\ UNCHANGED <<requests, told>>
    BY <1>2 DEF Again, next
  <2> QED
    BY <2>2, <2>3 DEF Calls, Extends
<1> QED
  BY <1>1, <1>2

LEMMA DrawCalls ==
  ASSUME NEW c \in Client, NEW r \in RequestType, Draw(c, r), Calls(requests, call, told),
         call[c].op.kind \in {"create", "change", "remove"}
  PROVE  Calls(requests', call', told') /\ Extends(requests, requests')
<1>1. requests' \in Seq(RequestType) /\ Len(requests') = Len(requests) + 1
  BY DEF Draw, Calls
<1>2. Extends(requests, requests')
  BY <1>1 DEF Draw, Calls, Extends
<1> DEFINE next == Doing("send", call[c].op, Len(requests) + 1, 1, call[c].tried)
<1>3. call' = [call EXCEPT ![c] = next]
  BY DEF Draw
<1>4. next \in Call /\ next.mark = Len(requests) + 1 /\ next.op = call[c].op
  <2>1. call[c].op \in Operation \cup {NoOp} /\ call[c].tried \in Nat /\ Len(requests) + 1 \in Nat
    BY DEF Calls, Call
  <2> QED
    BY <2>1 DEF Doing, Call, Written, Refused
<1> HIDE DEF next
<1>5. \A d \in Client : call'[d] = IF d = c THEN next ELSE call[d]
  BY <1>3 DEF Calls
<1>6. call' \in [Client -> Call]
  BY <1>3, <1>4 DEF Calls
<1>7. ASSUME NEW d \in Client, call'[d].pc \in {"send", "applied", "unsure", "recheck"}
      PROVE  call'[d].mark \in 1..Len(requests')
             /\ call'[d].op.kind \in {"create", "change", "remove"}
  <2>1. Len(requests) \in Nat
    BY DEF Calls
  <2> QED
    BY <1>1, <1>4, <1>5, <1>7, <2>1 DEF Calls
<1>8. told' = told
  BY DEF Draw
<1> QED
  BY <1>1, <1>2, <1>6, <1>7, <1>8 DEF Calls

LEMMA RequestTyped ==
  ASSUME NEW kind \in {"put", "replace", "take", "settle"}, NEW held \in HeldType,
         NEW value \in Value \cup {Absent}, NEW life \in Lifetime, NEW deadline \in Nat
  PROVE  Request(kind, held, value, life, deadline) \in RequestType
BY DEF Request, RequestType, HeldType

LEMMA SettleCalls ==
  ASSUME NEW c \in Client, NEW held \in HeldType, NEW deadline \in Nat,
         SettleAsRead(c, held, deadline), Calls(requests, call, told),
         call[c].op.kind \in {"create", "change", "remove"}
  PROVE  Calls(requests', call', told') /\ Extends(requests, requests')
<1>1. Request("settle", held, held.value, Keeping, deadline) \in RequestType
  BY RequestTyped DEF HeldType, Lifetime
<1> QED
  BY <1>1, DrawCalls DEF SettleAsRead

LEMMA MoveCalls ==
  ASSUME NEW c \in Client, NEW next \in Call, Calls(requests, call, told),
         next.op = call[c].op, next.mark = call[c].mark, next.pc # "begin",
         call[c].pc \in {"send", "applied", "unsure", "recheck"},
         call' = [call EXCEPT ![c] = next], UNCHANGED <<requests, told>>
  PROVE  Calls(requests', call', told') /\ Extends(requests, requests')
BY DEF Calls, Extends

LEMMA UnsureCalls ==
  ASSUME NEW c \in Client, Unsure(c), Calls(requests, call, told),
         call[c].pc \in {"send", "applied"}
  PROVE  Calls(requests', call', told') /\ Extends(requests, requests')
<1> DEFINE next == [call[c] EXCEPT !.pc = "unsure", !.reply = "none"]
<1>1. call' = [call EXCEPT ![c] = next] /\ UNCHANGED <<requests, told>>
  BY DEF Unsure, Calls
<1>2. next \in Call /\ next.op = call[c].op /\ next.mark = call[c].mark /\ next.pc = "unsure"
  BY DEF Calls, Call
<1> HIDE DEF next
<1> QED
  BY <1>1, <1>2, MoveCalls

LEMMA ReceiveCalls ==
  ASSUME NEW c \in Client, NEW answer \in Written \cup Refused, Receive(c, answer),
         Calls(requests, call, told), call[c].pc \in {"send", "applied"}
  PROVE  Calls(requests', call', told') /\ Extends(requests, requests')
<1>1. /\ call[c] \in Call /\ call[c].mark \in 1..Len(requests) /\ call[c].mark \in Nat
      /\ call[c].op.kind \in {"create", "change", "remove"}
  BY DEF Calls, Call
<1>2. requests[call[c].mark] \in RequestType
  BY <1>1 DEF Calls
<1>3. requests[call[c].mark].deadline \in Nat
  BY <1>2 DEF RequestType
<1>4. CASE answer = "written"
  BY <1>1, <1>4, TellCalls DEF Receive
<1>5. CASE answer = "taken"
  BY <1>1, <1>5, TellCalls DEF Receive
<1>6. CASE answer = "committed"
  BY <1>1, <1>6, TellCalls DEF Receive
<1>7. CASE answer = "exists" /\ call[c].op.kind = "create"
  <2> DEFINE next == [call[c] EXCEPT !.pc = "recheck", !.reply = "none"]
  <2>1. call' = [call EXCEPT ![c] = next] /\ UNCHANGED <<requests, told>>
    BY <1>7 DEF Receive, Calls
  <2>2. next \in Call /\ next.op = call[c].op /\ next.mark = call[c].mark /\ next.pc = "recheck"
    BY DEF Calls, Call
  <2> HIDE DEF next
  <2> QED
    BY <2>1, <2>2, MoveCalls
<1>8. CASE answer = "missing" /\ requests[call[c].mark].kind = "take"
  <2>1. NoRecord \in HeldType
    BY DEF NoRecord, HeldType, Never
  <2> QED
    BY <1>1, <1>3, <1>8, <2>1, SettleCalls DEF Receive
<1>9. CASE answer = "late" /\ requests[call[c].mark].kind # "settle"
  BY <1>9, TellCalls DEF Receive
<1>10. CASE /\ answer \notin {"written", "taken", "committed"}
            /\ ~(answer = "exists" /\ call[c].op.kind = "create")
            /\ ~(answer = "missing" /\ requests[call[c].mark].kind = "take")
            /\ ~(answer = "late" /\ requests[call[c].mark].kind # "settle")
  <2>1. Again(c)
    BY <1>10 DEF Receive
  <2> QED
    BY <2>1, AgainCalls
<1> QED
  BY <1>4, <1>5, <1>6, <1>7, <1>8, <1>9, <1>10

LEMMA AdriftExtends ==
  ASSUME IInv, Extends(requests, requests'), requests' \in Seq(RequestType),
         UNCHANGED adrift
  PROVE  adrift' \subseteq Marks'
BY DEF IInv, Calls, Extends, Marks

(* Every step of the model keeps the invariant, one step per action.       *)
LEMMA StepIInv ==
  ASSUME IInv, [Next]_vars
  PROVE  IInv'
<1>0. /\ Fine(primary, requests) /\ Fine(replica, requests)
      /\ requests \in Seq(RequestType) /\ Calls(requests, call, told)
      /\ lastVersion \in Nat /\ now \in Nat
      /\ Live(primary) \in HeldType /\ NoRecord \in HeldType
  <2>1. Live(primary) \in HeldType /\ NoRecord \in HeldType
    BY DEF IInv, Fine, Live, NoRecord, HeldType, Never
  <2> QED
    BY <2>1 DEF IInv, Calls
(* A step that leaves the nodes within {primary, replica} and adds requests. *)
<1>1. ASSUME Calls(requests', call', told'), Extends(requests, requests'),
             primary' \in {primary, replica}, replica' \in {primary, replica},
             UNCHANGED <<lastVersion, now, adrift>>, failovers' \in Nat,
             standing' \in [Client -> {"none", "pending", "confirmed", "lost"}]
      PROVE  IInv'
  <2>1. requests' \in Seq(RequestType)
    BY <1>1 DEF Calls
  <2>2. Fine(primary', requests') /\ Fine(replica', requests')
    BY <1>0, <1>1, <2>1, FineExtends
  <2>3. adrift' \subseteq Marks'
    BY <1>1, <2>1, AdriftExtends
  <2> QED
    BY <1>0, <1>1, <2>2, <2>3 DEF IInv
(* A step where the primary takes a request.                               *)
<1>2. ASSUME NEW m \in Marks, Apply(m), UNCHANGED <<replica, now, failovers>>,
             adrift' \subseteq Marks,
             Calls(requests', call', told'), Extends(requests, requests'),
             standing' \in [Client -> {"none", "pending", "confirmed", "lost"}]
      PROVE  IInv'
  <2>1. requests' \in Seq(RequestType)
    BY <1>2 DEF Calls
  <2>2. Fine(primary', requests)
    BY <1>0, <1>2, GuardedFine DEF Apply
  <2>3. Fine(primary', requests') /\ Fine(replica', requests')
    BY <1>0, <1>2, <2>1, <2>2, FineExtends
  <2>4. lastVersion' \in Nat
    BY <1>0, <1>2 DEF Apply, NextVersion
  <2>5. Marks \subseteq Marks'
    BY <1>0, <1>2, <2>1 DEF Extends, Marks
  <2> QED
    BY <1>0, <1>2, <2>3, <2>4, <2>5 DEF IInv
<1>3. ASSUME ReadStore
      PROVE  /\ primary' \in {primary, replica} /\ replica' \in {primary, replica}
             /\ UNCHANGED <<lastVersion, now, adrift>> /\ failovers' \in Nat
             /\ standing' \in [Client -> {"none", "pending", "confirmed", "lost"}]
  BY <1>3 DEF ReadStore, Confirm, IInv
<1>4. Extends(requests, requests)
  BY DEF Extends
<1>5. ASSUME NEW c \in Client, Step(c) PROVE IInv'
  <2>0. call[c] \in Call /\ call[c].op \in Operation \cup {NoOp}
    BY <1>0 DEF Calls, Call
  <2>1. ASSUME NEW op \in Operation, Start(c, op) PROVE IInv'
    <3>1. Doing("begin", op, 0, 0, 0) \in Call /\ Doing("begin", op, 0, 0, 0).pc = "begin"
      BY DEF Doing, Call, Written, Refused
    <3>2. Untold \in [said : {"nothing", "created", "changed", "exists", "unchanged",
                             "removed", "read", "unavailable"}, by : Nat]
      BY DEF Untold
    <3>3. requests' = requests /\ primary' = primary /\ replica' = replica
      BY <2>1 DEF Start, storeVars
    <3>4. Calls(requests', call', told')
      BY <1>0, <2>1, <3>1, <3>2, <3>3 DEF Start, Calls
    <3> QED
      BY <1>1, <1>4, <2>1, <3>3, <3>4 DEF Start, storeVars, IInv
  <2>2. ASSUME BeginBlind(c) PROVE IInv'
    <3>1. CASE /\ call[c].op.kind = "create"
               /\ Draw(c, Request("put", NoRecord, call[c].op.value, call[c].op.life, now + Patience))
      <4>1. call[c].op \in CallTypes
        BY <2>0, <3>1, RecordsAssumption DEF NoOp
      <4>2. call[c].op.value \in Value /\ call[c].op.life \in Lifetime
        BY <3>1, <4>1 DEF CallTypes
      <4>3. Request("put", NoRecord, call[c].op.value, call[c].op.life, now + Patience)
              \in RequestType
        BY <1>0, <4>2, RequestTyped, RecordsAssumption
      <4>4. Calls(requests', call', told') /\ Extends(requests, requests')
        BY <1>0, <3>1, <4>3, DrawCalls
      <4> QED
        BY <1>1, <2>2, <4>4 DEF BeginBlind, IInv
    <3>2. CASE /\ call[c].op.kind = "remove"
               /\ Draw(c, Request("take", NoRecord, Absent, Keeping, now + Patience))
      <4>1. Request("take", NoRecord, Absent, Keeping, now + Patience) \in RequestType
        <5>1. Keeping \in Lifetime /\ Absent \in Value \cup {Absent} /\ now + Patience \in Nat
          BY <1>0, RecordsAssumption DEF Lifetime
        <5> QED
          BY <1>0, <5>1, RequestTyped
      <4>2. Calls(requests', call', told') /\ Extends(requests, requests')
        BY <1>0, <3>2, <4>1, DrawCalls
      <4> QED
        BY <1>1, <2>2, <4>2 DEF BeginBlind, IInv
    <3> QED
      BY <2>2, <3>1, <3>2 DEF BeginBlind
  <2>3. ASSUME BeginChange(c) PROVE IInv'
    <3> DEFINE held == Live(primary)
               decided == call[c].op.rule[held.value]
    <3>1. held \in HeldType /\ held.value \in Value \cup {Absent} /\ now + Patience \in Nat
      BY <1>0, RecordsAssumption DEF HeldType
    <3>2. call[c].op.kind = "change"
      BY <2>3 DEF BeginChange
    <3>3. call[c].op \in CallTypes
      BY <2>0, <3>2, RecordsAssumption DEF NoOp
    <3>4. call[c].op.rule \in Rule /\ call[c].op.life \in Lifetime
      BY <3>2, <3>3 DEF CallTypes
    <3>5. decided \in Value \cup {Unchanged}
      BY <3>1, <3>4 DEF Rule
    <3>6. CASE decided = Unchanged
      <4>1. SettleAsRead(c, held, now + Patience)
        BY <2>3, <3>6 DEF BeginChange
      <4>2. Calls(requests', call', told') /\ Extends(requests, requests')
        BY <1>0, <3>1, <3>2, <4>1, SettleCalls
      <4> QED
        BY <1>1, <1>3, <2>3, <4>2 DEF BeginChange
    <3>7. CASE decided # Unchanged
      <4> DEFINE kind == IF held = NoRecord THEN "put" ELSE "replace"
      <4>1. Draw(c, Request(kind, held, decided, call[c].op.life, now + Patience))
        BY <2>3, <3>7 DEF BeginChange
      <4>2. kind \in {"put", "replace", "take", "settle"}
        OBVIOUS
      <4> HIDE DEF held, decided, kind
      <4>3. Request(kind, held, decided, call[c].op.life, now + Patience) \in RequestType
        BY <3>1, <3>4, <3>5, <3>7, <4>2, RequestTyped
      <4>4. Calls(requests', call', told') /\ Extends(requests, requests')
        BY <1>0, <3>2, <4>1, <4>3, DrawCalls
      <4> QED
        BY <1>1, <1>3, <2>3, <4>4 DEF BeginChange
    <3> QED
      BY <3>6, <3>7
  <2>4. ASSUME Read(c) PROVE IInv'
    <3>1. Live(primary).version \in Nat
      BY <1>0 DEF HeldType
    <3>2. Calls(requests', call', told') /\ Extends(requests, requests')
      BY <1>0, <2>4, <3>1, TellCalls DEF Read
    <3> QED
      BY <1>1, <1>3, <2>4, <3>2 DEF Read
  <2>5. ASSUME Recheck(c) PROVE IInv'
    <3>1. /\ call[c].mark \in 1..Len(requests)
          /\ call[c].op.kind \in {"create", "change", "remove"}
      BY <1>0, <2>5 DEF Recheck, Calls
    <3>2. requests[call[c].mark].deadline \in Nat
      <4>1. requests[call[c].mark] \in RequestType
        BY <1>0, <3>1
      <4> QED
        BY <4>1 DEF RequestType
    <3>3. CASE Again(c)
      <4>1. Calls(requests', call', told') /\ Extends(requests, requests')
        BY <1>0, <3>3, AgainCalls
      <4> QED
        BY <1>1, <1>3, <2>5, <4>1 DEF Recheck
    <3>4. CASE SettleAsRead(c, Live(primary), requests[call[c].mark].deadline)
      <4>1. Calls(requests', call', told') /\ Extends(requests, requests')
        BY <1>0, <3>1, <3>2, <3>4, SettleCalls
      <4> QED
        BY <1>1, <1>3, <2>5, <4>1 DEF Recheck
    <3> QED
      BY <2>5, <3>3, <3>4 DEF Recheck
  <2>6. ASSUME ReadFails(c) PROVE IInv'
    <3>1. Calls(requests', call', told') /\ Extends(requests, requests')
      BY <1>0, <2>6, TellCalls DEF ReadFails
    <3> QED
      BY <1>1, <2>6, <3>1 DEF ReadFails, IInv
  <2>7. ASSUME SendLost(c) PROVE IInv'
    <3>1. Calls(requests', call', told') /\ Extends(requests, requests')
      BY <1>0, <2>7, UnsureCalls DEF SendLost
    <3>2. call[c].mark \in Marks /\ requests' = requests
      BY <1>0, <2>7 DEF SendLost, Calls, Marks, Unsure
    <3>3. adrift' \subseteq Marks'
      BY <2>7, <3>2 DEF SendLost, IInv, Marks
    <3> QED
      BY <1>0, <2>7, <3>1, <3>2, <3>3 DEF SendLost, IInv
  <2>8. ASSUME ReplyLost(c) PROVE IInv'
    <3>1. Calls(requests', call', told') /\ Extends(requests, requests')
      BY <1>0, <2>8, UnsureCalls DEF ReplyLost
    <3>2. call[c].mark \in Marks
      BY <1>0, <2>8 DEF ReplyLost, Calls, Marks
    <3> QED
      BY <1>2, <2>8, <3>1, <3>2 DEF ReplyLost, IInv
  <2>9. ASSUME SendTaken(c) PROVE IInv'
    <3> DEFINE answer == Answer(primary, call[c].mark)
    <3>1. call[c].mark \in Marks
      BY <1>0, <2>9 DEF SendTaken, Calls, Marks
    <3>2. answer \in Written \cup Refused
      <4>1. requests[call[c].mark] \in RequestType
        BY <1>0, <3>1 DEF Marks
      <4>2. requests[call[c].mark].kind \in {"put", "replace", "take", "settle"}
        BY <4>1 DEF RequestType
      <4> QED
        BY <1>0, <4>2 DEF Answer, Remembered, Outcome, Fine, Written, Refused
    <3>3. CASE Confirms(answer)
      <4> DEFINE next == [call[c] EXCEPT !.pc = "applied", !.reply = answer]
      <4>1. call' = [call EXCEPT ![c] = next] /\ UNCHANGED <<requests, told>>
        BY <1>0, <2>9, <3>3 DEF SendTaken, Calls
      <4>2. next \in Call /\ next.op = call[c].op /\ next.mark = call[c].mark /\ next.pc = "applied"
        BY <2>0, <3>2 DEF Call
      <4>3. call[c].pc = "send"
        BY <2>9 DEF SendTaken
      <4> HIDE DEF next
      <4>4. Calls(requests', call', told') /\ Extends(requests, requests')
        BY <1>0, <4>1, <4>2, <4>3, MoveCalls
      <4>5. standing' \in [Client -> {"none", "pending", "confirmed", "lost"}]
        BY <2>9, <3>3 DEF SendTaken, IInv
      <4> QED
        BY <1>2, <2>9, <3>1, <4>4, <4>5 DEF SendTaken, IInv
    <3>4. CASE ~Confirms(answer)
      <4>1. Calls(requests', call', told') /\ Extends(requests, requests')
        BY <1>0, <2>9, <3>2, <3>4, ReceiveCalls DEF SendTaken
      <4> QED
        BY <1>2, <2>9, <3>1, <3>4, <4>1 DEF SendTaken, IInv
    <3> QED
      BY <3>3, <3>4
  <2>10. ASSUME ConfirmWrite(c) \/ FindConfirmed(c) PROVE IInv'
    <3>1. call[c].pc = "applied" /\ Receive(c, call[c].reply)
      BY <2>10 DEF ConfirmWrite, FindConfirmed
    <3>2. CASE call[c].reply = "none"
      <4>1. Again(c)
        BY <3>1, <3>2 DEF Receive
      <4>2. Calls(requests', call', told') /\ Extends(requests, requests')
        BY <1>0, <4>1, AgainCalls
      <4> QED
        BY <1>1, <2>10, <4>2 DEF ConfirmWrite, FindConfirmed, Confirm, IInv
    <3>3. CASE call[c].reply \in Written \cup Refused
      <4>1. Calls(requests', call', told') /\ Extends(requests, requests')
        BY <1>0, <3>1, <3>3, ReceiveCalls
      <4> QED
        BY <1>1, <2>10, <4>1 DEF ConfirmWrite, FindConfirmed, Confirm, IInv
    <3> QED
      BY <2>0, <3>2, <3>3 DEF Call
  <2>11. ASSUME NotConfirmed(c) PROVE IInv'
    <3>1. Calls(requests', call', told') /\ Extends(requests, requests')
      BY <1>0, <2>11, UnsureCalls DEF NotConfirmed
    <3> QED
      BY <1>1, <2>11, <3>1 DEF NotConfirmed, IInv
  <2>12. ASSUME Resend(c) PROVE IInv'
    <3> DEFINE next == [call[c] EXCEPT !.pc = "send", !.sends = call[c].sends + 1]
    <3>1. call' = [call EXCEPT ![c] = next] /\ UNCHANGED <<requests, told>>
      BY <1>0, <2>12 DEF Resend, storeVars, Calls
    <3>2. next \in Call /\ next.op = call[c].op /\ next.mark = call[c].mark /\ next.pc = "send"
      <4>1. call[c].sends + 1 \in Nat
        BY <2>0 DEF Call
      <4> QED
        BY <2>0, <4>1 DEF Call
    <3>3. call[c].pc = "unsure"
      BY <2>12 DEF Resend
    <3> HIDE DEF next
    <3>4. Calls(requests', call', told') /\ Extends(requests, requests')
      BY <1>0, <3>1, <3>2, <3>3, MoveCalls
    <3> QED
      BY <1>1, <2>12, <3>4 DEF Resend, storeVars, IInv
  <2>13. ASSUME GiveUp(c) PROVE IInv'
    <3>1. Calls(requests', call', told') /\ Extends(requests, requests')
      BY <1>0, <2>13, TellCalls DEF GiveUp
    <3> QED
      BY <1>1, <2>13, <3>1 DEF GiveUp, IInv
  <2> QED
    BY <1>5, <2>1, <2>2, <2>3, <2>4, <2>5, <2>6, <2>7, <2>8, <2>9, <2>10, <2>11, <2>12, <2>13 DEF Step
<1>6. ASSUME NEW m \in adrift, Land(m) PROVE IInv'
  <2>1. m \in Marks /\ adrift' \subseteq Marks
    BY <1>6 DEF Land, IInv
  <2>2. Calls(requests', call', told') /\ Extends(requests, requests')
    BY <1>0, <1>4, <1>6 DEF Land, clientVars
  <2> QED
    BY <1>2, <1>6, <2>1, <2>2 DEF Land, clientVars, IInv
<1>7. ASSUME Failover PROVE IInv'
  <2>1. Calls(requests', call', told') /\ Extends(requests, requests')
    BY <1>0, <1>4, <1>7 DEF Failover
  <2> QED
    BY <1>1, <1>7, <2>1 DEF Failover, IInv
<1>8. ASSUME Forget PROVE IInv'
  <2>1. Fine(primary', requests) /\ Fine(replica', requests) /\ requests' = requests
    BY <1>0, <1>8, EmptyFine DEF Forget
  <2> QED
    BY <1>8, <2>1 DEF Forget, IInv, Marks
<1>9. ASSUME Tick, UNCHANGED clientVars PROVE IInv'
  BY <1>9 DEF Tick, clientVars, IInv, Marks
<1>10. ASSUME UNCHANGED vars PROVE IInv'
  BY <1>10 DEF vars, IInv, Marks
<1> QED
  BY <1>5, <1>6, <1>7, <1>8, <1>9, <1>10 DEF Next

(* Every variable keeps its type.                                          *)
THEOREM TypeCorrect == Spec => []TypeOK
<1>1. IInv => TypeOK
  BY IInvImplies
<1> QED
  BY InitIInv, StepIInv, <1>1, PTL DEF Spec

(* No write takes effect past the deadline it was sent with: writeDeadline *)
(* of records.ts, and the late answer of memory.ts.                        *)
THEOREM NoWriteIsLate == Spec => []NothingLate
<1>1. IInv => NothingLate
  BY IInvImplies
<1> QED
  BY InitIInv, StepIInv, <1>1, PTL DEF Spec

(* No write takes effect twice, however often it is sent, however late its *)
(* sends land, and whichever node answers: untilAnswered of records.ts.    *)
THEOREM NoWriteTwice == Spec => []AtMostOnce
<1>1. IInv => AtMostOnce
  BY IInvImplies
<1> QED
  BY InitIInv, StepIInv, <1>1, PTL DEF Spec


----------------------------------------------------------------------------
(* What a request asks: a put finds nothing, and both it and a replace     *)
(* leave a record.                                                         *)
Sound(r) ==
  /\ r.kind = "put" => r.base = Absent
  /\ r.kind \in {"put", "replace"} => r.value \in Value

(* What an entry of a history owes to its request, and an answer to it.    *)
Made(e, r) ==
  /\ r.kind \in {"put", "replace"} => e.base = r.base /\ e.after = r.value
  /\ r.kind = "settle" => e.base = r.base /\ e.after = r.base
  /\ r.kind = "take" => e.after = Absent

Answers(answer, r) ==
  /\ answer = "written" => r.kind \in {"put", "replace"}
  /\ answer = "taken" => r.kind = "take"
  /\ answer = "committed" => r.kind = "settle"

Logged(s, m) == \E i \in 1..Len(s.log) : s.log[i].mark = m

(* A node's history chains, ends in what the node holds, and has every     *)
(* write the node remembers to have answered.                              *)
Story(s, rs) ==
  /\ s.held = NoRecord \/ s.held.value \in Value
  /\ Len(s.log) = 0 => s.held = NoRecord
  /\ Len(s.log) # 0 =>
       LET e == s.log[Len(s.log)] IN
       s.held.value = e.after /\ s.held.ends = e.ends /\ s.held.version = e.version
  /\ \A i \in 1..Len(s.log) :
       /\ IF i = 1 THEN s.log[i].base = Absent ELSE Follows(s.log[i - 1], s.log[i])
       /\ Made(s.log[i], rs[s.log[i].mark])
  /\ \A m \in DOMAIN s.seen : s.seen[m].answer \in Written => Answers(s.seen[m].answer, rs[m]) /\ Logged(s, m)

(* The versions known, each with what it names: those a node holds, and    *)
(* those a request was decided on.  A version names one value for good.    *)
Known(v, x, p, q, rs) ==
  \/ v = 0 /\ x = Absent
  \/ v = p.held.version /\ x = p.held.value
  \/ v = q.held.version /\ x = q.held.value
  \/ \E m \in 1..Len(rs) : v = rs[m].version /\ x = rs[m].base

Versions(p, q, rs, last) ==
  /\ \A v, x : Known(v, x, p, q, rs) => v \in 0..last
  /\ \A v, x, y : Known(v, x, p, q, rs) /\ Known(v, y, p, q, rs) => x = y

(* What a call may ask for.                                                *)
Asks(op, r) ==
  /\ op.kind = "create" => r.kind = "put" \/ (r.kind = "settle" /\ r.base # Absent)
  /\ op.kind = "change" => r.kind \in {"put", "replace", "settle"}
  /\ op.kind = "remove" => r.kind = "take" \/ (r.kind = "settle" /\ r.base = Absent)

Fits(rs, cs) ==
  /\ \A m \in 1..Len(rs) : Sound(rs[m])
  /\ \A c \in Client :
       /\ cs[c].pc \in {"send", "applied", "unsure", "recheck"} => Asks(cs[c].op, rs[cs[c].mark])
       /\ cs[c].pc = "recheck" => cs[c].op.kind = "create"

(* One history goes on from another.                                       *)
Ahead(s, t) == Len(s.log) <= Len(t.log) /\ \A i \in 1..Len(s.log) : t.log[i] = s.log[i]

(* The write a call awaits the confirmation of is in the primary's         *)
(* history, and once confirmed in the replica's.                           *)
Stands(rs, cs, st, p, q) ==
  \A c \in Client : cs[c].pc = "applied" /\ cs[c].reply \in Written =>
    /\ Answers(cs[c].reply, rs[cs[c].mark])
    /\ st[c] = "pending" => Logged(p, cs[c].mark)
    /\ st[c] = "confirmed" => Logged(q, cs[c].mark)

SInv ==
  /\ IInv
  /\ Story(primary, requests) /\ Story(replica, requests)
  /\ Versions(primary, replica, requests, lastVersion)
  /\ Fits(requests, call)
  /\ Ahead(replica, primary)
  /\ Stands(requests, call, standing, primary, replica)

(* More requests change no story.                                          *)
LEMMA StoryExtends ==
  ASSUME NEW s, NEW rs, NEW more, Fine(s, rs), Story(s, rs), Extends(rs, more)
  PROVE  Story(s, more)
<1>1. \A m \in DOMAIN s.seen : more[m] = rs[m]
  BY DEF Fine, Extends
<1>2. \A i \in 1..Len(s.log) : s.log[i].mark \in DOMAIN s.seen
  BY DEF Fine
<1> QED
  BY <1>1, <1>2 DEF Story

LEMMA EmptyStory == ASSUME NEW rs PROVE Story(Empty, rs)
<1>1. Empty.held = NoRecord /\ Len(Empty.log) = 0 /\ DOMAIN Empty.seen = {}
  BY DEF Empty
<1> QED
  BY <1>1 DEF Story

(* What the key holds now is what the last write left, or nothing once it  *)
(* ended.                                                                  *)
LEMMA LiveStory ==
  ASSUME NEW s, NEW rs, Fine(s, rs), Story(s, rs), now \in Nat
  PROVE  /\ Live(s) = NoRecord \/ Live(s).value \in Value
         /\ Len(s.log) = 0 => Live(s).value = Absent
         /\ Len(s.log) # 0 =>
              LET e == s.log[Len(s.log)] IN
              Live(s).value = IF e.ends # Never /\ e.ends <= now THEN Absent ELSE e.after
<1>1. NoRecord.value = Absent
  BY DEF NoRecord
<1> QED
  BY <1>1 DEF Story, Live

LEMMA LiveKnown ==
  ASSUME NEW s \in {primary, replica}
  PROVE  Known(Live(s).version, Live(s).value, primary, replica, requests)
BY DEF Known, Live, NoRecord

(* The primary takes a request: its history chains on, for the write was   *)
(* decided on what the node holds.                                         *)
LEMMA GuardedStory ==
  ASSUME NEW m \in Marks, SInv
  PROVE  /\ Story(Guarded(primary, m), requests)
         /\ Ahead(primary, Guarded(primary, m))
         /\ Answer(primary, m) \in Written =>
              Answers(Answer(primary, m), requests[m]) /\ Logged(Guarded(primary, m), m)
<1> DEFINE s == primary
           answer == Answer(s, m)
           r == requests[m]
           n == Guarded(s, m)
<1>1. /\ r \in RequestType /\ Sound(r) /\ Fine(s, requests) /\ Story(s, requests)
      /\ now \in Nat /\ lastVersion \in Nat /\ s.log \in Seq(EntryType)
  BY DEF SInv, IInv, Calls, Fits, Marks, Fine
<1>2. CASE Remembered(s, m)
  <2>1. n = s /\ answer = s.seen[m].answer /\ m \in DOMAIN s.seen
    BY <1>2 DEF Guarded, Answer, Remembered
  <2>2. Ahead(s, s)
    BY <1>1 DEF Ahead
  <2> QED
    BY <1>1, <2>1, <2>2 DEF Story
<1>3. CASE ~Remembered(s, m) /\ answer \notin Written
  <2>1. n = [s EXCEPT !.seen = Remember(s, m, answer)]
    BY <1>3 DEF Guarded
  <2>2. n.held = s.held /\ n.log = s.log /\ n.seen = Remember(s, m, answer)
    BY <1>1, <2>1 DEF Fine
  <2>3. DOMAIN n.seen = DOMAIN s.seen \cup {m} /\ n.seen[m].answer = answer
        /\ \A x \in DOMAIN s.seen : x # m => n.seen[x] = s.seen[x]
    BY <2>2 DEF Remember
  <2>4. Ahead(s, n) /\ \A x : Logged(s, x) => Logged(n, x)
    BY <1>1, <2>2 DEF Ahead, Logged
  <2> HIDE DEF answer, n
  <2>5. \A x \in DOMAIN n.seen : n.seen[x].answer \in Written => Answers(n.seen[x].answer, requests[x]) /\ Logged(n, x)
    BY <1>1, <1>3, <2>3, <2>4 DEF Story
  <2>6. Story(n, requests)
    BY <1>1, <2>2, <2>5 DEF Story
  <2> QED
    BY <1>3, <2>4, <2>6 DEF n, answer
<1>4. CASE ~Remembered(s, m) /\ answer \in Written
  <2> DEFINE h == HeldAfter(s, r, NextVersion)
             e == Entry(s, m, NextVersion)
             k == Len(s.log) + 1
  <2>1. n = [held |-> h, seen |-> Remember(s, m, answer), log |-> Append(s.log, e)]
    BY <1>4 DEF Guarded
  <2>2. answer = Outcome(s, r)
    BY <1>4 DEF Answer, Written
  <2>3. r.kind \in {"put", "replace", "take", "settle"}
    BY <1>1 DEF RequestType
  <2>4. Answers(answer, r)
    BY <2>2, <2>3 DEF Answers, Outcome
  <2>5. e.mark = m /\ e.after = h.value /\ e.ends = h.ends /\ e.version = h.version /\ e.at = now
        /\ e.base = (IF r.kind = "take" THEN Live(s).value ELSE r.base)
    BY DEF Entry
  <2>6. e.base = Live(s).value
    <3>1. CASE r.kind = "put"
      <4>1. Live(s) = NoRecord
        BY <1>4, <2>2, <3>1 DEF Outcome, Written
      <4> QED
        BY <1>1, <2>5, <3>1, <4>1 DEF Sound, NoRecord
    <3>2. CASE r.kind = "take"
      BY <2>5, <3>2
    <3>3. CASE r.kind \in {"replace", "settle"}
      <4>1. Live(s).version = r.version
        BY <1>4, <2>2, <3>3 DEF Outcome, Written
      <4>2. Known(r.version, Live(s).value, primary, replica, requests)
        BY <4>1, LiveKnown
      <4>3. Known(r.version, r.base, primary, replica, requests)
        BY DEF Known, Marks
      <4>4. r.base = Live(s).value
        BY <4>2, <4>3 DEF SInv, Versions
      <4> QED
        BY <2>5, <3>3, <4>4
    <3> QED
      BY <2>3, <3>1, <3>2, <3>3
  <2>7. /\ r.kind \in {"put", "replace"} => h.value = r.value
        /\ r.kind = "take" => h = NoRecord
        /\ r.kind = "settle" => h = Live(s)
    BY DEF HeldAfter
  <2>8. Made(e, r)
    BY <2>5, <2>6, <2>7 DEF Made, NoRecord
  <2>9. h = NoRecord \/ h.value \in Value
    <3>1. Live(s) = NoRecord \/ Live(s).value \in Value
      BY <1>1, LiveStory
    <3> QED
      BY <1>1, <2>3, <2>7, <3>1 DEF Sound
  <2>10. e \in EntryType
    <3>1. h \in HeldType
      BY <1>1, HeldAfterType DEF Fine, NextVersion
    <3>2. Live(s).value \in Value \cup {Absent}
      BY <1>1, LiveStory DEF NoRecord
    <3> QED
      BY <1>1, <2>5, <2>6, <3>1, <3>2 DEF Entry, EntryType, HeldType, Marks
  <2> HIDE DEF e, h, answer, r, n
  <2>11. /\ n.held = h /\ n.seen = Remember(s, m, answer) /\ n.log = Append(s.log, e)
    BY <2>1
  <2>12. k \in Nat \ {0} /\ Len(n.log) = k /\ n.log[k] = e /\ \A i \in 1..Len(s.log) : n.log[i] = s.log[i]
    BY <1>1, <2>10, <2>11
  <2>13. Ahead(s, n) /\ Logged(n, m) /\ \A x : Logged(s, x) => Logged(n, x)
    BY <1>1, <2>5, <2>12 DEF Ahead, Logged
  <2>14. IF k = 1 THEN e.base = Absent ELSE Follows(s.log[k - 1], e)
    <3>1. k = 1 => Len(s.log) = 0
      BY <1>1
    <3>2. k # 1 => Len(s.log) # 0 /\ k - 1 = Len(s.log)
      BY <1>1
    <3> QED
      BY <1>1, <2>5, <2>6, <3>1, <3>2, LiveStory DEF Follows
  <2>15. \A i \in 1..Len(n.log) :
           /\ IF i = 1 THEN n.log[i].base = Absent ELSE Follows(n.log[i - 1], n.log[i])
           /\ Made(n.log[i], requests[n.log[i].mark])
    <3> SUFFICES ASSUME NEW i \in 1..k
                 PROVE  /\ IF i = 1 THEN n.log[i].base = Absent ELSE Follows(n.log[i - 1], n.log[i])
                        /\ Made(n.log[i], requests[n.log[i].mark])
      BY <2>12
    <3>1. CASE i = k
      <4>1. i # 1 => n.log[i - 1] = s.log[k - 1]
        BY <1>1, <2>12, <3>1
      <4> QED
        BY <2>5, <2>8, <2>12, <2>14, <3>1, <4>1 DEF r
    <3>2. CASE i \in 1..Len(s.log)
      <4>1. n.log[i] = s.log[i] /\ (i # 1 => n.log[i - 1] = s.log[i - 1])
        BY <1>1, <2>12, <3>2
      <4> QED
        BY <1>1, <3>2, <4>1 DEF Story
    <3> QED
      BY <1>1, <3>1, <3>2
  <2>16. DOMAIN n.seen = DOMAIN s.seen \cup {m} /\ n.seen[m].answer = answer
        /\ \A x \in DOMAIN s.seen : x # m => n.seen[x] = s.seen[x]
    BY <2>11 DEF Remember
  <2>17. \A x \in DOMAIN n.seen : n.seen[x].answer \in Written => Answers(n.seen[x].answer, requests[x]) /\ Logged(n, x)
    BY <1>1, <2>4, <2>13, <2>16 DEF Story, r
  <2>18. n.held.value = n.log[k].after /\ n.held.ends = n.log[k].ends /\ n.held.version = n.log[k].version
    BY <2>5, <2>11, <2>12
  <2>19. Story(n, requests)
    BY <2>9, <2>11, <2>12, <2>15, <2>17, <2>18 DEF Story
  <2> QED
    BY <2>4, <2>13, <2>19 DEF n, r, answer
<1> QED
  BY <1>2, <1>3, <1>4

(* A step that knows only versions known before, or gives new the next one. *)
Learns(p, q, rs, last, p1, q1, rs1, last1, new) ==
  /\ last1 \in {last, last + 1}
  /\ \A v, x : Known(v, x, p1, q1, rs1) =>
       Known(v, x, p, q, rs) \/ (v = last + 1 /\ last1 = last + 1 /\ x = new)

LEMMA VersionsStep ==
  ASSUME NEW p, NEW q, NEW rs, NEW last \in Nat, NEW p1, NEW q1, NEW rs1, NEW last1, NEW new,
         Versions(p, q, rs, last), Learns(p, q, rs, last, p1, q1, rs1, last1, new)
  PROVE  Versions(p1, q1, rs1, last1)
<1>0. /\ last1 \in {last, last + 1}
      /\ \A v, x : Known(v, x, p1, q1, rs1) =>
           Known(v, x, p, q, rs) \/ (v = last + 1 /\ last1 = last + 1 /\ x = new)
  BY DEF Learns
<1>1. ASSUME NEW v, NEW x, Known(v, x, p1, q1, rs1)
      PROVE  v \in 0..last1
  <2>1. CASE Known(v, x, p, q, rs)
    <3>1. v \in 0..last
      BY <2>1 DEF Versions
    <3> QED
      BY <1>0, <3>1
  <2>2. CASE v = last + 1 /\ last1 = last + 1
    BY <1>0, <2>2
  <2> QED
    BY <1>0, <1>1, <2>1, <2>2
<1>2. ASSUME NEW v, NEW x, NEW y, Known(v, x, p1, q1, rs1), Known(v, y, p1, q1, rs1)
      PROVE  x = y
  <2>1. CASE Known(v, x, p, q, rs)
    <3>1. v # last + 1
      BY <2>1 DEF Versions
    <3>2. Known(v, y, p, q, rs)
      BY <1>0, <1>2, <3>1
    <3> QED
      BY <2>1, <3>2 DEF Versions
  <2>2. CASE v = last + 1 /\ x = new
    <3>1. ~Known(v, y, p, q, rs)
      BY <2>2 DEF Versions
    <3> QED
      BY <1>0, <1>2, <2>2, <3>1
  <2> QED
    BY <1>0, <1>2, <2>1, <2>2
<1> QED
  BY <1>1, <1>2 DEF Versions

(* A request drawn, if any, is sound and names a version known.            *)
Draws(rs, more, p, q) ==
  \/ more = rs
  \/ \E r \in RequestType :
       Sound(r) /\ Known(r.version, r.base, p, q, rs) /\ more = Append(rs, r)

LEMMA DrawsKnown ==
  ASSUME NEW rs \in Seq(RequestType), NEW more, NEW p, NEW q, NEW p1, NEW q1,
         Draws(rs, more, p, q), NEW v, NEW x, Known(v, x, p1, q1, more)
  PROVE  Known(v, x, p1, q1, rs) \/ Known(v, x, p, q, rs)
<1>1. CASE more = rs
  BY <1>1
<1>2. ASSUME NEW r \in RequestType, Known(r.version, r.base, p, q, rs), more = Append(rs, r)
      PROVE  Known(v, x, p1, q1, rs) \/ Known(v, x, p, q, rs)
  <2>1. /\ Len(more) = Len(rs) + 1 /\ more[Len(rs) + 1] = r /\ Len(rs) \in Nat
        /\ \A m \in 1..Len(rs) : more[m] = rs[m]
    BY <1>2
  <2>2. ASSUME NEW m \in 1..Len(more), v = more[m].version, x = more[m].base
        PROVE  Known(v, x, p1, q1, rs) \/ Known(v, x, p, q, rs)
    <3>1. CASE m = Len(rs) + 1
      BY <1>2, <2>1, <2>2, <3>1
    <3>2. CASE m \in 1..Len(rs)
      BY <2>1, <2>2, <3>2 DEF Known
    <3> QED
      BY <2>1, <3>1, <3>2
  <2> QED
    BY <2>2 DEF Known
<1> QED
  BY <1>1, <1>2 DEF Draws

LEMMA DrawsSound ==
  ASSUME NEW rs \in Seq(RequestType), NEW more, NEW p, NEW q, Draws(rs, more, p, q),
         \A m \in 1..Len(rs) : Sound(rs[m])
  PROVE  Extends(rs, more) /\ \A m \in 1..Len(more) : Sound(more[m])
<1>1. CASE more = rs
  BY <1>1 DEF Extends
<1>2. ASSUME NEW r \in RequestType, Sound(r), more = Append(rs, r)
      PROVE  Extends(rs, more) /\ \A m \in 1..Len(more) : Sound(more[m])
  <2>1. /\ Len(more) = Len(rs) + 1 /\ more[Len(rs) + 1] = r /\ Len(rs) \in Nat
        /\ \A m \in 1..Len(rs) : more[m] = rs[m]
    BY <1>2
  <2>2. \A m \in 1..Len(more) : m = Len(rs) + 1 \/ m \in 1..Len(rs)
    BY <2>1
  <2>3. Extends(rs, more)
    BY <2>1 DEF Extends
  <2> QED
    BY <1>2, <2>1, <2>2, <2>3
<1> QED
  BY <1>1, <1>2 DEF Draws

(* A client goes on: it may draw a request, and asks what its call may.    *)
Moved(c) ==
  /\ Draws(requests, requests', primary, replica)
  /\ Fits(requests', call')
  /\ \A d \in Client \ {c} : call'[d] = call[d]
  /\ call'[c].pc # "applied"

LEMMA MovedStep ==
  ASSUME SInv, NEW c \in Client, NEW next, Draws(requests, requests', primary, replica),
         call' = [call EXCEPT ![c] = next], next.pc # "applied",
         next.pc \in {"send", "unsure", "recheck"} => Asks(next.op, requests'[next.mark]),
         next.pc = "recheck" => next.op.kind = "create"
  PROVE  Moved(c)
<1>1. requests \in Seq(RequestType) /\ call \in [Client -> Call] /\ Calls(requests, call, told)
      /\ Fits(requests, call)
  BY DEF SInv, IInv, Calls
<1>2. Extends(requests, requests') /\ \A m \in 1..Len(requests') : Sound(requests'[m])
  BY <1>1, DrawsSound DEF Fits
<1>3. call'[c] = next /\ \A d \in Client \ {c} : call'[d] = call[d]
  BY <1>1
<1>4. ASSUME NEW d \in Client, call'[d].pc \in {"send", "applied", "unsure", "recheck"}
      PROVE  /\ Asks(call'[d].op, requests'[call'[d].mark])
             /\ call'[d].pc = "recheck" => call'[d].op.kind = "create"
  <2>1. CASE d = c
    BY <1>3, <1>4, <2>1
  <2>2. CASE d # c
    <3>1. call'[d] = call[d]
      BY <1>3, <2>2
    <3>2. /\ call[d].mark \in 1..Len(requests) /\ Asks(call[d].op, requests[call[d].mark])
          /\ call[d].pc = "recheck" => call[d].op.kind = "create"
      BY <1>1, <1>4, <3>1 DEF Calls, Fits
    <3> QED
      BY <1>2, <3>1, <3>2 DEF Extends
  <2> QED
    BY <2>1, <2>2
<1> QED
  BY <1>2, <1>3, <1>4 DEF Moved, Fits

LEMMA TellMoved ==
  ASSUME SInv, NEW c \in Client, NEW said, NEW by, Tell(c, said, by)
  PROVE  Moved(c)
<1>1. Idle.pc = "idle"
  BY DEF Idle, Doing
<1>2. Draws(requests, requests', primary, replica)
  BY DEF Tell, Draws
<1> QED
  BY <1>1, <1>2, MovedStep DEF Tell

LEMMA AgainMoved ==
  ASSUME SInv, NEW c \in Client, Again(c)
  PROVE  Moved(c)
<1>1. CASE call[c].tried + 1 >= MaxAttempts
  BY <1>1, TellMoved DEF Again
<1>2. CASE ~(call[c].tried + 1 >= MaxAttempts)
  <2> DEFINE next == Doing("begin", call[c].op, 0, 0, call[c].tried + 1)
  <2>1. next.pc = "begin" /\ call' = [call EXCEPT ![c] = next] /\ requests' = requests
    BY <1>2 DEF Again, Doing
  <2>2. Draws(requests, requests', primary, replica)
    BY <2>1 DEF Draws
  <2> HIDE DEF next
  <2> QED
    BY <2>1, <2>2, MovedStep
<1> QED
  BY <1>1, <1>2

LEMMA DrawMoved ==
  ASSUME SInv, NEW c \in Client, NEW r \in RequestType, Draw(c, r), Sound(r),
         Known(r.version, r.base, primary, replica, requests), Asks(call[c].op, r)
  PROVE  Moved(c)
<1> DEFINE next == Doing("send", call[c].op, Len(requests) + 1, 1, call[c].tried)
<1>1. /\ next.pc = "send" /\ next.op = call[c].op /\ next.mark = Len(requests) + 1
      /\ call' = [call EXCEPT ![c] = next] /\ requests' = Append(requests, r)
  BY DEF Draw, Doing
<1>2. Draws(requests, requests', primary, replica)
  BY <1>1 DEF Draws
<1>3. requests'[Len(requests) + 1] = r
  BY <1>1 DEF SInv, IInv, Calls
<1> HIDE DEF next
<1> QED
  BY <1>1, <1>2, <1>3, MovedStep

LEMMA SettleMoved ==
  ASSUME SInv, NEW c \in Client, NEW held \in HeldType, NEW deadline \in Nat,
         SettleAsRead(c, held, deadline),
         Known(held.version, held.value, primary, replica, requests),
         call[c].op.kind = "create" => held.value # Absent,
         call[c].op.kind = "remove" => held.value = Absent
  PROVE  Moved(c)
<1> DEFINE r == Request("settle", held, held.value, Keeping, deadline)
<1>1. r \in RequestType
  BY RequestTyped DEF HeldType, Lifetime
<1>2. r.kind = "settle" /\ r.base = held.value /\ r.version = held.version
  BY DEF Request
<1>3. Draw(c, r)
  BY DEF SettleAsRead
<1> HIDE DEF r
<1>4. Sound(r) /\ Asks(call[c].op, r)
  BY <1>2 DEF Sound, Asks
<1> QED
  BY <1>1, <1>2, <1>3, <1>4, DrawMoved

LEMMA KeepMoved ==
  ASSUME SInv, NEW c \in Client, NEW next, call' = [call EXCEPT ![c] = next], requests' = requests,
         next.op = call[c].op, next.mark = call[c].mark, next.pc # "applied",
         next.pc = "recheck" => next.op.kind = "create",
         call[c].pc \in {"send", "applied", "unsure", "recheck"}
  PROVE  Moved(c)
<1>1. Asks(call[c].op, requests[call[c].mark])
  BY DEF SInv, Fits
<1>2. Draws(requests, requests', primary, replica)
  BY DEF Draws
<1> QED
  BY <1>1, <1>2, MovedStep

LEMMA UnsureMoved ==
  ASSUME SInv, NEW c \in Client, Unsure(c), call[c].pc \in {"send", "applied"}
  PROVE  Moved(c)
<1> DEFINE next == [call[c] EXCEPT !.pc = "unsure", !.reply = "none"]
<1>1. call' = [call EXCEPT ![c] = next] /\ requests' = requests
  BY DEF Unsure, SInv, IInv, Calls
<1>2. next.op = call[c].op /\ next.mark = call[c].mark /\ next.pc = "unsure"
  BY DEF SInv, IInv, Calls, Call
<1> HIDE DEF next
<1> QED
  BY <1>1, <1>2, KeepMoved

LEMMA ReceiveMoved ==
  ASSUME SInv, NEW c \in Client, NEW answer, Receive(c, answer),
         call[c].pc \in {"send", "applied"}
  PROVE  Moved(c)
<1>1. /\ call[c] \in Call /\ call[c].mark \in 1..Len(requests)
      /\ call[c].op.kind \in {"create", "change", "remove"}
      /\ requests[call[c].mark] \in RequestType
      /\ Asks(call[c].op, requests[call[c].mark])
  BY DEF SInv, IInv, Calls, Fits
<1>2. requests[call[c].mark].deadline \in Nat
  BY <1>1 DEF RequestType
<1>3. CASE answer \in {"written", "taken", "committed"}
  <2>1. PICK said, by : Tell(c, said, by)
    BY <1>3 DEF Receive
  <2> QED
    BY <2>1, TellMoved
<1>4. CASE answer = "exists" /\ call[c].op.kind = "create"
  <2> DEFINE next == [call[c] EXCEPT !.pc = "recheck", !.reply = "none"]
  <2>1. call' = [call EXCEPT ![c] = next] /\ requests' = requests
    BY <1>4 DEF Receive, SInv, IInv, Calls
  <2>2. next.op = call[c].op /\ next.mark = call[c].mark /\ next.pc = "recheck"
    BY <1>1 DEF Call
  <2> HIDE DEF next
  <2> QED
    BY <1>4, <2>1, <2>2, KeepMoved
<1>5. CASE answer = "missing" /\ requests[call[c].mark].kind = "take"
  <2>1. NoRecord \in HeldType /\ NoRecord.value = Absent /\ NoRecord.version = 0
    BY DEF NoRecord, HeldType, Never
  <2>2. Known(NoRecord.version, NoRecord.value, primary, replica, requests)
    BY <2>1 DEF Known
  <2>3. call[c].op.kind = "remove"
    BY <1>1, <1>5 DEF Asks
  <2>4. SettleAsRead(c, NoRecord, requests[call[c].mark].deadline)
    BY <1>5 DEF Receive
  <2> QED
    BY <1>2, <2>1, <2>2, <2>3, <2>4, SettleMoved
<1>6. CASE answer = "late" /\ requests[call[c].mark].kind # "settle"
  BY <1>6, TellMoved DEF Receive
<1>7. CASE /\ answer \notin {"written", "taken", "committed"}
           /\ ~(answer = "exists" /\ call[c].op.kind = "create")
           /\ ~(answer = "missing" /\ requests[call[c].mark].kind = "take")
           /\ ~(answer = "late" /\ requests[call[c].mark].kind # "settle")
  <2>1. Again(c)
    BY <1>7 DEF Receive
  <2> QED
    BY <2>1, AgainMoved
<1> QED
  BY <1>3, <1>4, <1>5, <1>6, <1>7

LEMMA LoggedAhead ==
  ASSUME NEW s, NEW t, NEW m, Ahead(s, t), Logged(s, m), Len(s.log) \in Nat, Len(t.log) \in Nat
  PROVE  Logged(t, m)
<1>1. PICK i \in 1..Len(s.log) : s.log[i].mark = m
  BY DEF Logged
<1>2. i \in 1..Len(t.log) /\ t.log[i] = s.log[i]
  BY DEF Ahead
<1> QED
  BY <1>1, <1>2 DEF Logged

(* A call still waiting keeps what it waits for, as the histories grow.    *)
LEMMA StandsKept ==
  ASSUME SInv, NEW d \in Client, NEW mark, NEW reply, NEW rs, NEW p, NEW q,
         call[d].pc = "applied", call[d].mark = mark, call[d].reply = reply, reply \in Written,
         Extends(requests, rs), Ahead(primary, p), Ahead(replica, q),
         Len(p.log) \in Nat, Len(q.log) \in Nat
  PROVE  /\ Answers(reply, rs[mark])
         /\ standing[d] = "pending" => Logged(p, mark)
         /\ standing[d] = "confirmed" => Logged(q, mark)
<1>1. mark \in 1..Len(requests) /\ Len(primary.log) \in Nat /\ Len(replica.log) \in Nat
  BY DEF SInv, IInv, Calls, Fine
<1>2. rs[mark] = requests[mark]
  BY <1>1 DEF Extends
<1>3. /\ Answers(reply, requests[mark])
      /\ standing[d] = "pending" => Logged(primary, mark)
      /\ standing[d] = "confirmed" => Logged(replica, mark)
  BY DEF SInv, Stands
<1> QED
  BY <1>1, <1>2, <1>3, LoggedAhead

LEMMA AheadSame ==
  ASSUME NEW s, Len(s.log) \in Nat
  PROVE  Ahead(s, s)
BY DEF Ahead

(* A client's step that writes nothing: the replica may catch up.          *)
LEMMA QuietSInv ==
  ASSUME SInv, IInv', NEW c \in Client, Moved(c),
         UNCHANGED <<primary, lastVersion>>, replica' \in {primary, replica},
         \A d \in Client \ {c} :
           \/ standing'[d] = standing[d]
           \/ standing'[d] = "confirmed" /\ standing[d] = "pending" /\ replica' = primary
  PROVE  SInv'
<1>1. /\ requests \in Seq(RequestType) /\ Fine(primary, requests) /\ Fine(replica, requests)
      /\ lastVersion \in Nat /\ Len(primary.log) \in Nat /\ Len(replica.log) \in Nat
  BY DEF SInv, IInv, Calls, Fine
<1>2. Extends(requests, requests') /\ Fits(requests', call')
  BY <1>1, DrawsSound DEF Moved, SInv, Fits
<1>3. Story(primary', requests') /\ Story(replica', requests')
  BY <1>1, <1>2, StoryExtends DEF SInv
<1>4. Ahead(primary, primary') /\ Ahead(replica, replica') /\ Ahead(replica', primary')
  BY <1>1, AheadSame DEF SInv
<1>5. Versions(primary', replica', requests', lastVersion')
  <2>1. ASSUME NEW v, NEW x, Known(v, x, primary', replica', requests')
        PROVE  Known(v, x, primary, replica, requests)
    <3>1. Known(v, x, primary', replica', requests) \/ Known(v, x, primary, replica, requests)
      BY <1>1, <2>1, DrawsKnown DEF Moved
    <3> QED
      BY <3>1 DEF Known
  <2>2. Learns(primary, replica, requests, lastVersion,
               primary', replica', requests', lastVersion', Absent)
    BY <2>1 DEF Learns
  <2> QED
    BY <1>1, <2>2, VersionsStep DEF SInv
<1>6. ASSUME NEW d \in Client, call'[d].pc = "applied", call'[d].reply \in Written
      PROVE  /\ Answers(call'[d].reply, requests'[call'[d].mark])
             /\ standing'[d] = "pending" => Logged(primary', call'[d].mark)
             /\ standing'[d] = "confirmed" => Logged(replica', call'[d].mark)
  <2>1. d # c /\ call'[d] = call[d]
    BY <1>6 DEF Moved
  <2>2. /\ Answers(call[d].reply, requests'[call[d].mark])
        /\ standing[d] = "pending" => Logged(primary', call[d].mark)
        /\ standing[d] = "confirmed" => Logged(replica', call[d].mark)
    BY <1>1, <1>2, <1>4, <1>6, <2>1, StandsKept
  <2> QED
    BY <2>1, <2>2
<1>7. Stands(requests', call', standing', primary', replica')
  BY <1>6 DEF Stands
<1> QED
  BY <1>2, <1>3, <1>4, <1>5, <1>7 DEF SInv

(* A step where the primary takes a request.                               *)
LEMMA TakenSInv ==
  ASSUME SInv, IInv', NEW m \in Marks, Apply(m), replica' = replica,
         Draws(requests, requests', primary, replica), Fits(requests', call'),
         \A d \in Client :
           \/ call'[d] = call[d] /\ standing'[d] = standing[d]
           \/ call'[d].pc # "applied"
           \/ /\ call'[d].mark = m /\ call'[d].reply = Answer(primary, m)
              /\ standing'[d] = "pending"
  PROVE  SInv' /\ Ahead(primary, primary')
<1>1. /\ requests \in Seq(RequestType) /\ Fine(primary, requests) /\ Fine(replica, requests)
      /\ lastVersion \in Nat /\ Len(primary.log) \in Nat /\ Len(replica.log) \in Nat
      /\ Len(primary'.log) \in Nat
  <2>1. Fine(primary', requests')
    BY DEF IInv
  <2>2. primary'.log \in Seq(EntryType)
    BY <2>1 DEF Fine
  <2>3. /\ requests \in Seq(RequestType) /\ Fine(primary, requests) /\ Fine(replica, requests)
        /\ lastVersion \in Nat
    BY DEF SInv, IInv, Calls
  <2>4. primary.log \in Seq(EntryType) /\ replica.log \in Seq(EntryType)
    BY <2>3 DEF Fine
  <2> QED
    BY <2>2, <2>3, <2>4
<1>2. Extends(requests, requests')
  BY <1>1, DrawsSound DEF SInv, Fits
<1>3. /\ Story(primary', requests) /\ Ahead(primary, primary')
      /\ Answer(primary, m) \in Written =>
           Answers(Answer(primary, m), requests[m]) /\ Logged(primary', m)
  BY GuardedStory DEF Apply
<1>4. Fine(primary', requests)
  BY <1>1, GuardedFine DEF Apply, SInv, IInv
<1>5. Story(primary', requests') /\ Story(replica', requests')
  BY <1>1, <1>2, <1>3, <1>4, StoryExtends DEF SInv
<1>6. Ahead(replica, replica') /\ Ahead(replica', primary')
  BY <1>1, <1>3, AheadSame DEF SInv, Ahead
<1>7. Versions(primary', replica', requests', lastVersion')
  <2> DEFINE r == requests[m]
  <2>1. \/ primary'.held = primary.held /\ lastVersion' \in {lastVersion, lastVersion + 1}
        \/ /\ primary'.held.version = lastVersion + 1 /\ primary'.held.value = r.value
           /\ lastVersion' = lastVersion + 1
        \/ primary'.held = NoRecord /\ lastVersion' = lastVersion
        \/ primary'.held = Live(primary) /\ lastVersion' = lastVersion + 1
    <3>1. CASE Remembered(primary, m)
      BY <3>1 DEF Apply, Guarded
    <3>2. CASE ~Remembered(primary, m) /\ Answer(primary, m) \notin Written
      <4>1. primary'.held = primary.held
        BY <1>1, <3>2 DEF Apply, Guarded, Fine
      <4> QED
        BY <3>2, <4>1 DEF Apply, Written
    <3>3. CASE ~Remembered(primary, m) /\ Answer(primary, m) \in Written
      <4>1. primary'.held = HeldAfter(primary, r, NextVersion)
        BY <3>3 DEF Apply, Guarded
      <4>2. r \in RequestType
        BY <1>1 DEF Marks
      <4>3. r.kind \in {"put", "replace", "take", "settle"}
        BY <4>2 DEF RequestType
      <4>4. Answers(Answer(primary, m), r)
        BY <1>3, <3>3
      <4>5. CASE r.kind \in {"put", "replace"}
        <5>1. Answer(primary, m) = "written"
          BY <3>3, <4>4, <4>5 DEF Answers, Written
        <5> QED
          BY <3>3, <4>1, <4>5, <5>1 DEF Apply, HeldAfter, NextVersion
      <4>6. CASE r.kind = "take"
        <5>1. Answer(primary, m) = "taken"
          BY <3>3, <4>4, <4>6 DEF Answers, Written
        <5> QED
          BY <4>1, <4>6, <5>1 DEF Apply, HeldAfter
      <4>7. CASE r.kind = "settle"
        <5>1. Answer(primary, m) = "committed"
          BY <3>3, <4>4, <4>7 DEF Answers, Written
        <5> QED
          BY <3>3, <4>1, <4>7, <5>1 DEF Apply, HeldAfter, NextVersion
      <4> QED
        BY <4>3, <4>5, <4>6, <4>7
    <3> QED
      BY <3>1, <3>2, <3>3
  <2>2. ASSUME NEW v, NEW x, Known(v, x, primary', replica', requests')
        PROVE  \/ Known(v, x, primary, replica, requests)
               \/ v = lastVersion + 1 /\ lastVersion' = lastVersion + 1 /\ x = r.value
    <3>1. Known(v, x, primary', replica', requests) \/ Known(v, x, primary, replica, requests)
      BY <1>1, <2>2, DrawsKnown
    <3>2. CASE v = primary'.held.version /\ x = primary'.held.value
      <4>1. CASE primary'.held = primary.held
        BY <3>2, <4>1 DEF Known
      <4>2. CASE primary'.held = NoRecord
        BY <3>2, <4>2 DEF Known, NoRecord
      <4>3. CASE primary'.held = Live(primary)
        BY <3>2, <4>3, LiveKnown
      <4> QED
        BY <2>1, <3>2, <4>1, <4>2, <4>3
    <3>3. CASE ~(v = primary'.held.version /\ x = primary'.held.value)
      BY <3>1, <3>3 DEF Known
    <3> QED
      BY <3>2, <3>3
  <2>3. lastVersion' \in {lastVersion, lastVersion + 1}
    BY <2>1
  <2> HIDE DEF r
  <2>4. Learns(primary, replica, requests, lastVersion,
               primary', replica', requests', lastVersion', r.value)
    BY <2>2, <2>3 DEF Learns
  <2> QED
    BY <1>1, <2>4, VersionsStep DEF SInv
<1>8. ASSUME NEW d \in Client, call'[d].pc = "applied", call'[d].reply \in Written
      PROVE  /\ Answers(call'[d].reply, requests'[call'[d].mark])
             /\ standing'[d] = "pending" => Logged(primary', call'[d].mark)
             /\ standing'[d] = "confirmed" => Logged(replica', call'[d].mark)
  <2>1. CASE call'[d] = call[d] /\ standing'[d] = standing[d]
    BY <1>1, <1>2, <1>3, <1>6, <1>8, <2>1, StandsKept
  <2>2. CASE call'[d].mark = m /\ call'[d].reply = Answer(primary, m) /\ standing'[d] = "pending"
    <3>1. requests'[m] = requests[m]
      BY <1>2 DEF Extends, Marks
    <3> QED
      BY <1>3, <1>8, <2>2, <3>1
  <2> QED
    BY <1>8, <2>1, <2>2
<1>9. Stands(requests', call', standing', primary', replica')
  BY <1>8 DEF Stands
<1> QED
  BY <1>3, <1>5, <1>6, <1>7, <1>9 DEF SInv

LEMMA InitSInv == Init => SInv
<1> SUFFICES ASSUME Init PROVE SInv
  OBVIOUS
<1>1. /\ primary = Empty /\ replica = Empty /\ requests = <<>> /\ lastVersion = 0
      /\ call = [c \in Client |-> Idle]
  BY DEF Init, StoreInit
<1>2. Idle.pc = "idle"
  BY DEF Idle, Doing
<1>3. Empty.held.version = 0 /\ Empty.held.value = Absent /\ Len(Empty.log) = 0
  BY DEF Empty, NoRecord
<1>4. Story(Empty, <<>>)
  BY EmptyStory
<1>5. Versions(Empty, Empty, <<>>, 0)
  BY <1>3 DEF Versions, Known
<1>6. Fits(<<>>, call) /\ Stands(<<>>, call, standing, Empty, Empty)
  BY <1>1, <1>2 DEF Fits, Stands
<1>7. Ahead(Empty, Empty)
  BY <1>3 DEF Ahead
<1> QED
  BY <1>1, <1>4, <1>5, <1>6, <1>7, InitIInv DEF SInv

(* Where the space keeps what it confirmed and confirms what it writes.    *)
Replicated == {"durable", "no-eviction", "replicated"} \subseteq space.guarantees

(* A call was told what an entry of the history says.                      *)
Backed(t, s) ==
  t.said \in Positive =>
    \E i \in 1..Len(s.log) : s.log[i].mark = t.by /\ Atomic!Says(t.said, s.log[i])

(* The history grows, and rests what is told.                              *)
Grows ==
  /\ Ahead(replica, replica')
  /\ \A d \in Client : told'[d] = told[d] \/ Backed(told'[d], replica')

LEMMA TellTold ==
  ASSUME SInv, NEW c \in Client, NEW said, NEW by, Tell(c, said, by),
         [said |-> said, by |-> by].said \in Positive => Backed([said |-> said, by |-> by], replica')
  PROVE  \A d \in Client : told'[d] = told[d] \/ Backed(told'[d], replica')
<1>1. told' = [told EXCEPT ![c] = [said |-> said, by |-> by]]
  BY DEF Tell
<1>2. told \in [Client -> [said : {"nothing", "created", "changed", "exists", "unchanged",
                                  "removed", "read", "unavailable"}, by : Nat]]
  BY DEF SInv, IInv, Calls
<1>3. Backed([said |-> said, by |-> by], replica')
  BY DEF Backed
<1> QED
  BY <1>1, <1>2, <1>3

LEMMA AgainTold ==
  ASSUME SInv, NEW c \in Client, Again(c)
  PROVE  \A d \in Client : told'[d] = told[d] \/ Backed(told'[d], replica')
<1>1. CASE Tell(c, "unavailable", 0)
  BY <1>1, TellTold DEF Positive
<1>2. CASE told' = told
  BY <1>2
<1> QED
  BY <1>1, <1>2 DEF Again

(* What a call is told of its write is what the write's entry says.        *)
LEMMA ReceiveTold ==
  ASSUME SInv, SInv', NEW c \in Client, NEW answer, Receive(c, answer),
         call[c].pc \in {"send", "applied"},
         answer \in Written => Answers(answer, requests[call[c].mark]) /\ Logged(replica', call[c].mark)
  PROVE  \A d \in Client : told'[d] = told[d] \/ Backed(told'[d], replica')
<1> DEFINE m == call[c].mark
           r == requests[m]
           op == call[c].op.kind
<1>1. /\ m \in 1..Len(requests) /\ op \in {"create", "change", "remove"}
      /\ r \in RequestType /\ Asks(call[c].op, r) /\ Sound(r)
  BY DEF SInv, IInv, Calls, Fits
<1>2. CASE answer \in Written
  <2>1. PICK said :
             /\ Tell(c, said, m)
             /\ answer = "written" => said = IF op = "create" THEN "created" ELSE "changed"
             /\ answer = "taken" => said = "removed"
             /\ answer = "committed" =>
                  said = CASE op = "create" -> "exists"
                           [] op = "change" -> "unchanged"
                           [] op = "remove" -> "removed"
    BY <1>2 DEF Receive, Written
  <2>2. PICK i \in 1..Len(replica'.log) : replica'.log[i].mark = m
    BY <1>2 DEF Logged
  <2>3. requests' = requests
    BY <2>1 DEF Tell
  <2>4. Story(replica', requests')
    BY DEF SInv
  <2>5. Made(replica'.log[i], r)
    BY <2>2, <2>3, <2>4 DEF Story
  <2>6. Answers(answer, r)
    BY <1>2
  <2>7. Atomic!Says(said, replica'.log[i])
    <3>1. CASE answer = "written"
      <4>1. r.kind \in {"put", "replace"} /\ (op = "create" => r.kind = "put")
        BY <1>1, <2>6, <3>1 DEF Answers, Asks
      <4>2. r.value # Absent /\ (op = "create" => r.base = Absent)
        BY <1>1, <4>1, StoreAssumption DEF Sound
      <4> QED
        BY <2>1, <2>5, <3>1, <4>1, <4>2 DEF Made, Atomic!Says
    <3>2. CASE answer = "taken"
      BY <2>1, <2>5, <2>6, <3>2 DEF Made, Answers, Atomic!Says
    <3>3. CASE answer = "committed"
      <4>1. r.kind = "settle" /\ (op = "create" => r.base # Absent) /\ (op = "remove" => r.base = Absent)
        BY <1>1, <2>6, <3>3 DEF Answers, Asks
      <4> QED
        BY <1>1, <2>1, <2>5, <3>3, <4>1 DEF Made, Atomic!Says
    <3> QED
      BY <1>2, <3>1, <3>2, <3>3 DEF Written
  <2>8. Backed([said |-> said, by |-> m], replica')
    BY <2>2, <2>7 DEF Backed
  <2> QED
    BY <2>1, <2>8, TellTold
<1>3. CASE told' = told
  BY <1>3
<1>4. CASE Tell(c, "unavailable", 0)
  BY <1>4, TellTold DEF Positive
<1>5. CASE Again(c)
  BY <1>5, AgainTold
<1> QED
  <2>1. CASE answer \notin Written
    BY <1>3, <1>4, <1>5, <2>1 DEF Receive, Written, SettleAsRead, Draw
  <2> QED
    BY <1>2, <2>1

(* A client's step keeps the stories; in a replicated space the history    *)
(* only grows, and what is told rests on it.                               *)
LEMMA ClientSInv ==
  ASSUME SInv, IInv', NEW c \in Client, Step(c), UNCHANGED space
  PROVE  SInv' /\ (Replicated => Grows)
<1>0. /\ IInv /\ requests \in Seq(RequestType) /\ call[c] \in Call /\ now \in Nat
      /\ Fine(primary, requests) /\ Fine(replica, requests)
      /\ Story(primary, requests) /\ Live(primary) \in HeldType
      /\ call[c].op \in Operation \cup {NoOp}
  <2>1. Live(primary) \in HeldType
    BY DEF SInv, IInv, Fine, Live, NoRecord, HeldType, Never
  <2> QED
    BY <2>1 DEF SInv, IInv, Calls, Call
<1>1. /\ Len(primary.log) \in Nat /\ Len(replica.log) \in Nat
      /\ Ahead(replica, replica) /\ Ahead(replica, primary)
  <2>1. Len(primary.log) \in Nat /\ Len(replica.log) \in Nat
    BY <1>0 DEF Fine
  <2> QED
    BY <2>1, AheadSame DEF SInv
<1>2. ASSUME UNCHANGED told, replica' \in {primary, replica} PROVE Grows
  BY <1>1, <1>2 DEF Grows
<1>3. ASSUME NEW said, NEW by, Tell(c, said, by), said \notin Positive,
             replica' \in {primary, replica}
      PROVE  Grows
  <2>1. \A d \in Client : told'[d] = told[d] \/ Backed(told'[d], replica')
    BY <1>3, TellTold
  <2> QED
    BY <1>1, <1>3, <2>1 DEF Grows
<1>4. ASSUME Again(c), replica' \in {primary, replica} PROVE Grows
  <2>1. \A d \in Client : told'[d] = told[d] \/ Backed(told'[d], replica')
    BY <1>4, AgainTold
  <2> QED
    BY <1>1, <1>4, <2>1 DEF Grows
<1>5. ASSUME ReadStore, Moved(c) PROVE SInv' /\ replica' \in {primary, replica}
  <2>1. /\ UNCHANGED <<primary, lastVersion>> /\ replica' \in {primary, replica}
        /\ \A d \in Client \ {c} :
             \/ standing'[d] = standing[d]
             \/ standing'[d] = "confirmed" /\ standing[d] = "pending" /\ replica' = primary
    BY <1>5 DEF ReadStore, Confirm
  <2> QED
    BY <1>5, <2>1, QuietSInv
<1>6. ASSUME Moved(c), UNCHANGED <<primary, lastVersion, replica>>,
             \A d \in Client \ {c} : standing'[d] = standing[d]
      PROVE  SInv'
  BY <1>6, QuietSInv
<1>7. ASSUME NEW op \in Operation, Start(c, op) PROVE SInv' /\ Grows
  <2> DEFINE next == Doing("begin", op, 0, 0, 0)
  <2>1. next.pc = "begin" /\ call' = [call EXCEPT ![c] = next]
    BY <1>7 DEF Start, Doing
  <2>2. UNCHANGED <<primary, replica, lastVersion, requests, standing>>
    BY <1>7 DEF Start, storeVars
  <2>3. Draws(requests, requests', primary, replica)
    BY <2>2 DEF Draws
  <2> HIDE DEF next
  <2>4. Moved(c)
    BY <2>1, <2>3, MovedStep
  <2>5. SInv'
    BY <1>6, <2>2, <2>4
  <2>6. \A d \in Client : told'[d] = told[d] \/ Backed(told'[d], replica')
    <3>1. told' = [told EXCEPT ![c] = Untold] /\ Backed(Untold, replica')
      BY <1>7 DEF Start, Untold, Backed, Positive
    <3> QED
      BY <1>0, <3>1 DEF IInv, Calls
  <2> QED
    BY <1>1, <2>2, <2>5, <2>6 DEF Grows
<1>8. ASSUME BeginBlind(c) PROVE SInv' /\ Grows
  <2>1. UNCHANGED <<primary, lastVersion, replica, standing>>
    BY <1>8 DEF BeginBlind
  <2>2. Known(0, Absent, primary, replica, requests)
    BY DEF Known
  <2>3. CASE /\ call[c].op.kind = "create"
             /\ Draw(c, Request("put", NoRecord, call[c].op.value, call[c].op.life, now + Patience))
    <3> DEFINE r == Request("put", NoRecord, call[c].op.value, call[c].op.life, now + Patience)
    <3>1. call[c].op \in CallTypes
      BY <1>0, <2>3, RecordsAssumption DEF NoOp
    <3>2. call[c].op.value \in Value /\ call[c].op.life \in Lifetime
      BY <2>3, <3>1 DEF CallTypes
    <3>3. r \in RequestType
      BY <1>0, <3>2, RequestTyped, RecordsAssumption DEF NoRecord, HeldType, Never
    <3>4. r.kind = "put" /\ r.base = Absent /\ r.version = 0 /\ r.value \in Value
      BY <3>2 DEF Request, NoRecord
    <3> HIDE DEF r
    <3>5. Sound(r) /\ Asks(call[c].op, r)
      BY <2>3, <3>4 DEF Sound, Asks
    <3>6. Moved(c) /\ UNCHANGED told
      BY <2>2, <2>3, <3>3, <3>4, <3>5, DrawMoved DEF r, Draw
    <3> QED
      BY <1>2, <1>6, <2>1, <3>6
  <2>4. CASE /\ call[c].op.kind = "remove"
             /\ Draw(c, Request("take", NoRecord, Absent, Keeping, now + Patience))
    <3> DEFINE r == Request("take", NoRecord, Absent, Keeping, now + Patience)
    <3>1. r \in RequestType
      <4>1. NoRecord \in HeldType /\ Keeping \in Lifetime /\ now + Patience \in Nat
        BY <1>0, RecordsAssumption DEF NoRecord, HeldType, Never, Lifetime
      <4> QED
        BY <4>1, RequestTyped
    <3>2. r.kind = "take" /\ r.base = Absent /\ r.version = 0
      BY DEF Request, NoRecord
    <3> HIDE DEF r
    <3>3. Sound(r) /\ Asks(call[c].op, r)
      BY <2>4, <3>2 DEF Sound, Asks
    <3>4. Moved(c) /\ UNCHANGED told
      BY <2>2, <2>4, <3>1, <3>2, <3>3, DrawMoved DEF r, Draw
    <3> QED
      BY <1>2, <1>6, <2>1, <3>4
  <2> QED
    BY <1>8, <2>3, <2>4 DEF BeginBlind
<1>9. ASSUME BeginChange(c) PROVE SInv' /\ Grows
  <2> DEFINE held == Live(primary)
             decided == call[c].op.rule[held.value]
             life == call[c].op.life
             kind == IF held = NoRecord THEN "put" ELSE "replace"
             r == Request(kind, held, decided, life, now + Patience)
  <2>1. /\ held \in HeldType /\ held.value \in Value \cup {Absent} /\ now + Patience \in Nat
        /\ Known(held.version, held.value, primary, replica, requests)
    BY <1>0, LiveKnown, RecordsAssumption DEF HeldType
  <2>2. call[c].op.kind = "change" /\ ReadStore
    BY <1>9 DEF BeginChange
  <2>3. call[c].op \in CallTypes
    BY <1>0, <2>2, RecordsAssumption DEF NoOp
  <2>4. call[c].op.rule \in Rule /\ life \in Lifetime
    BY <2>2, <2>3 DEF CallTypes
  <2>5. decided \in Value \cup {Unchanged}
    BY <2>1, <2>4 DEF Rule
  <2>6. CASE decided = Unchanged
    <3>1. SettleAsRead(c, held, now + Patience)
      BY <1>9, <2>6 DEF BeginChange
    <3>2. Moved(c) /\ UNCHANGED told
      BY <2>1, <2>2, <3>1, SettleMoved DEF SettleAsRead, Draw
    <3> QED
      BY <1>2, <1>5, <2>2, <3>2
  <2>7. CASE decided # Unchanged
    <3>1. Draw(c, r)
      BY <1>9, <2>7 DEF BeginChange
    <3>2. /\ kind \in {"put", "replace"} /\ (kind = "put" => held = NoRecord)
      OBVIOUS
    <3>3. decided \in Value
      BY <2>5, <2>7
    <3> HIDE DEF held, decided, life, kind
    <3>4. r \in RequestType
      BY <2>1, <2>4, <3>2, <3>3, RequestTyped
    <3>5. r.kind = kind /\ r.base = held.value /\ r.version = held.version /\ r.value = decided
      BY DEF Request
    <3>6. Sound(r) /\ Asks(call[c].op, r)
      BY <2>2, <3>2, <3>3, <3>5 DEF Sound, Asks, NoRecord
    <3> HIDE DEF r
    <3>7. Moved(c) /\ UNCHANGED told
      BY <2>1, <3>1, <3>4, <3>5, <3>6, DrawMoved DEF Draw
    <3> QED
      BY <1>2, <1>5, <2>2, <3>7
  <2> QED
    BY <2>6, <2>7
<1>10. ASSUME Read(c) PROVE SInv' /\ Grows
  <2>1. ReadStore /\ Tell(c, "read", Live(primary).version) /\ "read" \notin Positive
    BY <1>10 DEF Read, Positive
  <2>2. Moved(c)
    BY <2>1, TellMoved
  <2> QED
    BY <1>3, <1>5, <2>1, <2>2
<1>11. ASSUME Recheck(c) PROVE SInv' /\ Grows
  <2>1. /\ call[c].mark \in 1..Len(requests) /\ call[c].op.kind = "create"
        /\ call[c].pc = "recheck" /\ ReadStore
    BY <1>11 DEF Recheck, SInv, IInv, Calls, Fits
  <2>2. requests[call[c].mark].deadline \in Nat
    <3>1. requests[call[c].mark] \in RequestType
      BY <1>0, <2>1
    <3> QED
      BY <3>1 DEF RequestType
  <2>3. CASE Again(c)
    BY <1>4, <1>5, <2>1, <2>3, AgainMoved
  <2>4. CASE Live(primary) # NoRecord /\ SettleAsRead(c, Live(primary), requests[call[c].mark].deadline)
    <3>1. Live(primary).value # Absent
      BY <1>0, <2>4, LiveStory, StoreAssumption
    <3>2. Known(Live(primary).version, Live(primary).value, primary, replica, requests)
      BY LiveKnown
    <3>3. Moved(c) /\ UNCHANGED told
      BY <1>0, <2>1, <2>2, <2>4, <3>1, <3>2, SettleMoved DEF SettleAsRead, Draw
    <3> QED
      BY <1>2, <1>5, <2>1, <3>3
  <2> QED
    BY <1>11, <2>3, <2>4 DEF Recheck
<1>12. ASSUME ReadFails(c) \/ GiveUp(c) PROVE SInv' /\ Grows
  <2>1. /\ Tell(c, "unavailable", 0) /\ "unavailable" \notin Positive
        /\ UNCHANGED <<primary, replica, lastVersion, standing>>
    BY <1>12 DEF ReadFails, GiveUp, Positive
  <2>2. Moved(c)
    BY <2>1, TellMoved
  <2> QED
    BY <1>3, <1>6, <2>1, <2>2
<1>13. ASSUME SendLost(c) \/ NotConfirmed(c) PROVE SInv' /\ Grows
  <2>1. /\ Unsure(c) /\ call[c].pc \in {"send", "applied"}
        /\ UNCHANGED <<primary, replica, lastVersion>>
        /\ \A d \in Client \ {c} : standing'[d] = standing[d]
    BY <1>0, <1>13 DEF SendLost, NotConfirmed, IInv
  <2>2. Moved(c) /\ UNCHANGED told
    BY <2>1, UnsureMoved DEF Unsure
  <2> QED
    BY <1>2, <1>6, <2>1, <2>2
<1>14. ASSUME ReplyLost(c) PROVE SInv' /\ Grows
  <2>1. /\ Unsure(c) /\ call[c].pc = "send" /\ Apply(call[c].mark) /\ call[c].mark \in Marks
        /\ replica' = replica /\ standing' = standing
    BY <1>0, <1>14 DEF ReplyLost, IInv, Calls, Marks
  <2>2. Moved(c) /\ UNCHANGED told
    BY <2>1, UnsureMoved DEF Unsure
  <2>3. \A d \in Client : (call'[d] = call[d] /\ standing'[d] = standing[d]) \/ call'[d].pc # "applied"
    BY <2>1, <2>2 DEF Moved
  <2>4. Draws(requests, requests', primary, replica) /\ Fits(requests', call')
    BY <2>2 DEF Moved
  <2>5. SInv'
    BY <2>1, <2>3, <2>4, TakenSInv
  <2> QED
    BY <1>2, <2>1, <2>2, <2>5
<1>15. ASSUME SendTaken(c) PROVE SInv' /\ (Replicated => Grows)
  <2> DEFINE answer == Answer(primary, call[c].mark)
  <2>1. /\ call[c].pc = "send" /\ Apply(call[c].mark) /\ call[c].mark \in Marks /\ replica' = replica
    BY <1>0, <1>15 DEF SendTaken, IInv, Calls, Marks
  <2>2. CASE Confirms(answer)
    <3> DEFINE next == [call[c] EXCEPT !.pc = "applied", !.reply = answer]
    <3>1. /\ call' = [call EXCEPT ![c] = next] /\ UNCHANGED <<requests, told>>
          /\ standing' = [standing EXCEPT ![c] = "pending"]
      BY <1>0, <1>15, <2>2 DEF SendTaken, IInv, Calls
    <3>2. next.op = call[c].op /\ next.mark = call[c].mark /\ next.pc = "applied" /\ next.reply = answer
      BY <1>0 DEF Call
    <3> HIDE DEF next, answer
    <3>3. /\ call'[c] = next /\ standing'[c] = "pending"
          /\ \A d \in Client \ {c} : call'[d] = call[d] /\ standing'[d] = standing[d]
      BY <1>0, <3>1 DEF IInv, Calls
    <3>4. Draws(requests, requests', primary, replica)
      BY <3>1 DEF Draws
    <3>5. Fits(requests', call')
      BY <2>1, <3>1, <3>2, <3>3 DEF SInv, Fits
    <3>6. SInv'
      BY <2>1, <3>2, <3>3, <3>4, <3>5, TakenSInv DEF answer
    <3> QED
      BY <1>2, <2>1, <3>1, <3>6
  <2>3. CASE ~Confirms(answer)
    <3>1. Receive(c, answer) /\ standing' = standing
      BY <1>15, <2>3 DEF SendTaken
    <3>2. Moved(c)
      BY <2>1, <3>1, ReceiveMoved
    <3>3. \A d \in Client : (call'[d] = call[d] /\ standing'[d] = standing[d]) \/ call'[d].pc # "applied"
      BY <3>1, <3>2 DEF Moved
    <3>4. Draws(requests, requests', primary, replica) /\ Fits(requests', call')
      BY <3>2 DEF Moved
    <3>5. SInv'
      BY <2>1, <3>3, <3>4, TakenSInv
    <3>6. ASSUME Replicated PROVE Grows
      <4>1. answer \notin Written
        BY <2>3, <3>6 DEF Confirms, Replicated
      <4>2. \A d \in Client : told'[d] = told[d] \/ Backed(told'[d], replica')
        BY <2>1, <3>1, <3>5, <4>1, ReceiveTold
      <4> QED
        BY <1>1, <2>1, <4>2 DEF Grows
    <3> QED
      BY <3>5, <3>6
  <2> QED
    BY <2>2, <2>3
<1>16. ASSUME ConfirmWrite(c) \/ FindConfirmed(c) PROVE SInv' /\ Grows
  <2> DEFINE reply == call[c].reply
             m == call[c].mark
  <2>1. call[c].pc = "applied" /\ Receive(c, reply) /\ UNCHANGED <<primary, lastVersion>>
    BY <1>16 DEF ConfirmWrite, FindConfirmed
  <2>2. /\ replica' \in {primary, replica}
        /\ \A d \in Client \ {c} :
             \/ standing'[d] = standing[d]
             \/ standing'[d] = "confirmed" /\ standing[d] = "pending" /\ replica' = primary
    <3>1. CASE ConfirmWrite(c)
      BY <3>1 DEF ConfirmWrite, Confirm
    <3>2. CASE FindConfirmed(c)
      BY <1>0, <3>2 DEF FindConfirmed, IInv
    <3> QED
      BY <1>16, <3>1, <3>2
  <2>3. reply \in Written => Answers(reply, requests[m]) /\ Logged(replica', m)
    <3>1. CASE ConfirmWrite(c)
      BY <2>1, <3>1 DEF ConfirmWrite, Confirm, SInv, Stands
    <3>2. CASE FindConfirmed(c)
      BY <2>1, <3>2 DEF FindConfirmed, SInv, Stands
    <3> QED
      BY <1>16, <3>1, <3>2
  <2> HIDE DEF reply, m
  <2>4. Moved(c)
    BY <2>1, ReceiveMoved
  <2>5. SInv'
    BY <2>1, <2>2, <2>4, QuietSInv
  <2>6. \A d \in Client : told'[d] = told[d] \/ Backed(told'[d], replica')
    BY <2>1, <2>3, <2>5, ReceiveTold DEF m
  <2> QED
    BY <1>1, <2>2, <2>5, <2>6 DEF Grows
<1>17. ASSUME Resend(c) PROVE SInv' /\ Grows
  <2> DEFINE next == [call[c] EXCEPT !.pc = "send", !.sends = call[c].sends + 1]
  <2>1. /\ call' = [call EXCEPT ![c] = next] /\ call[c].pc = "unsure"
        /\ UNCHANGED <<primary, replica, lastVersion, requests, standing, told>>
    BY <1>0, <1>17 DEF Resend, storeVars, IInv, Calls
  <2>2. next.op = call[c].op /\ next.mark = call[c].mark /\ next.pc = "send"
    BY <1>0 DEF Call
  <2> HIDE DEF next
  <2>3. Moved(c)
    BY <2>1, <2>2, KeepMoved
  <2> QED
    BY <1>2, <1>6, <2>1, <2>3
<1> QED
  BY <1>7, <1>8, <1>9, <1>10, <1>11, <1>12, <1>13, <1>14, <1>15, <1>16, <1>17 DEF Step

LEMMA StepSInv ==
  ASSUME SInv, [Next]_vars
  PROVE  SInv' /\ (Replicated => Grows)
<1>0. /\ IInv /\ IInv' /\ Len(replica.log) \in Nat /\ Len(primary.log) \in Nat
      /\ Ahead(replica, replica) /\ Ahead(primary, primary) /\ requests \in Seq(RequestType)
  <2>1. IInv /\ IInv'
    BY StepIInv DEF SInv
  <2>2. Fine(primary, requests) /\ Fine(replica, requests) /\ requests \in Seq(RequestType)
    BY <2>1 DEF IInv, Calls
  <2>3. Len(replica.log) \in Nat /\ Len(primary.log) \in Nat
    BY <2>2 DEF Fine
  <2> QED
    BY <2>1, <2>2, <2>3, AheadSame
<1>1. ASSUME UNCHANGED <<replica, told>> PROVE Grows
  BY <1>0, <1>1 DEF Grows
<1>2. ASSUME NEW c \in Client, Step(c), UNCHANGED space PROVE SInv' /\ (Replicated => Grows)
  BY <1>0, <1>2, ClientSInv
<1>3. ASSUME NEW m \in adrift, Land(m) PROVE SInv' /\ Grows
  <2>1. m \in Marks /\ Apply(m) /\ UNCHANGED <<replica, requests, call, standing, told>>
    BY <1>0, <1>3 DEF Land, IInv, clientVars
  <2>2. Draws(requests, requests', primary, replica) /\ Fits(requests', call')
    BY <2>1 DEF Draws, SInv
  <2> QED
    BY <1>0, <1>1, <2>1, <2>2, TakenSInv
<1>4. ASSUME Failover PROVE SInv' /\ Grows
  <2>1. /\ primary' = replica /\ UNCHANGED <<replica, lastVersion, requests, call, told>>
        /\ standing' = [c \in Client |-> IF standing[c] = "pending" THEN "lost" ELSE standing[c]]
    BY <1>4 DEF Failover
  <2>2. Learns(primary, replica, requests, lastVersion,
               primary', replica', requests', lastVersion', Absent)
    BY <2>1 DEF Learns, Known
  <2>3. Versions(primary', replica', requests', lastVersion')
    BY <1>0, <2>2, VersionsStep DEF SInv, IInv
  <2>4. ASSUME NEW c \in Client, call'[c].pc = "applied", call'[c].reply \in Written
        PROVE  /\ Answers(call'[c].reply, requests'[call'[c].mark])
               /\ standing'[c] = "pending" => Logged(primary', call'[c].mark)
               /\ standing'[c] = "confirmed" => Logged(replica', call'[c].mark)
    <3>1. standing'[c] # "pending" /\ (standing'[c] = "confirmed" => standing[c] = "confirmed")
      BY <2>1
    <3>2. /\ Answers(call[c].reply, requests[call[c].mark])
          /\ standing[c] = "confirmed" => Logged(replica, call[c].mark)
      BY <2>1, <2>4 DEF SInv, Stands
    <3> QED
      BY <2>1, <3>1, <3>2
  <2>5. Stands(requests', call', standing', primary', replica')
    BY <2>4 DEF Stands
  <2>6. Story(primary', requests') /\ Story(replica', requests') /\ Fits(requests', call')
        /\ Ahead(replica', primary')
    BY <1>0, <2>1 DEF SInv
  <2> QED
    BY <1>0, <1>1, <2>1, <2>3, <2>5, <2>6 DEF SInv
<1>5. ASSUME Forget PROVE SInv' /\ ~Replicated
  <2>1. /\ primary' = Empty /\ replica' = Empty /\ UNCHANGED <<lastVersion, requests, call, told>>
        /\ standing' = [c \in Client |-> IF standing[c] # "none" THEN "lost" ELSE "none"]
        /\ ~Replicated
    BY <1>5 DEF Forget, Replicated
  <2>2. Empty.held.version = 0 /\ Empty.held.value = Absent /\ Len(Empty.log) = 0
    BY DEF Empty, NoRecord
  <2>3. Learns(primary, replica, requests, lastVersion,
               primary', replica', requests', lastVersion', Absent)
    BY <2>1, <2>2 DEF Learns, Known
  <2>4. Versions(primary', replica', requests', lastVersion')
    BY <1>0, <2>3, VersionsStep DEF SInv, IInv
  <2>5. ASSUME NEW c \in Client, call'[c].pc = "applied", call'[c].reply \in Written
        PROVE  /\ Answers(call'[c].reply, requests'[call'[c].mark])
               /\ standing'[c] = "pending" => Logged(primary', call'[c].mark)
               /\ standing'[c] = "confirmed" => Logged(replica', call'[c].mark)
    <3>1. standing'[c] # "pending" /\ standing'[c] # "confirmed"
      BY <2>1
    <3>2. Answers(call[c].reply, requests[call[c].mark])
      BY <2>1, <2>5 DEF SInv, Stands
    <3> QED
      BY <2>1, <3>1, <3>2
  <2>6. Stands(requests', call', standing', primary', replica')
    BY <2>5 DEF Stands
  <2>7. Ahead(replica', primary') /\ Story(primary', requests') /\ Story(replica', requests')
        /\ Fits(requests', call')
    BY <2>1, <2>2, EmptyStory DEF Ahead, SInv
  <2> QED
    BY <1>0, <2>1, <2>4, <2>6, <2>7 DEF SInv
<1>6. ASSUME Tick, UNCHANGED clientVars PROVE SInv' /\ Grows
  <2>1. UNCHANGED <<primary, replica, lastVersion, requests, call, standing, told>>
    BY <1>6 DEF Tick, clientVars
  <2> QED
    BY <1>0, <1>1, <2>1 DEF SInv
<1>7. ASSUME UNCHANGED vars PROVE SInv' /\ Grows
  <2>1. UNCHANGED <<primary, replica, lastVersion, requests, call, standing, told>>
    BY <1>7 DEF vars
  <2> QED
    BY <1>0, <1>1, <2>1 DEF SInv
<1> QED
  BY <1>2, <1>3, <1>4, <1>5, <1>6, <1>7 DEF Next

(* No update is lost: each write that counts was decided on what the one   *)
(* before it left (rewrite of records.ts, replaceIf of store.ts).          *)
THEOREM NoUpdateLost == Spec => []Chained
<1>1. SInv => Chained
  BY DEF SInv, Story, Chained
<1> QED
  BY InitSInv, StepSInv, <1>1, PTL DEF Spec

(* What is told in a replicated space rests on the replica's history.      *)
Resting == Replicated => \A c \in Client : Backed(told[c], replica)

LEMMA BackedAhead ==
  ASSUME NEW t, NEW s, NEW n, Backed(t, s), Ahead(s, n), Len(s.log) \in Nat, Len(n.log) \in Nat
  PROVE  Backed(t, n)
<1>1. \A i \in 1..Len(s.log) : i \in 1..Len(n.log) /\ n.log[i] = s.log[i]
  BY DEF Ahead
<1> QED
  BY <1>1 DEF Backed

LEMMA LogTyped ==
  ASSUME SInv
  PROVE  primary.log \in Seq(EntryType) /\ replica.log \in Seq(EntryType)
BY DEF SInv, IInv, Fine

LEMMA InitResting == Init => Resting
<1> SUFFICES ASSUME Init, NEW c \in Client PROVE Backed(told[c], replica)
  BY DEF Resting
<1>1. told[c].said = "nothing"
  BY DEF Init, Untold
<1> QED
  BY <1>1 DEF Backed, Positive

LEMMA SameSpace == [Next]_vars => UNCHANGED space
BY DEF Next, vars

LEMMA StepResting ==
  ASSUME SInv, Resting, [Next]_vars
  PROVE  Resting'
<1>1. SInv' /\ (Replicated => Grows) /\ space' = space
  BY StepSInv, SameSpace
<1>2. Len(replica.log) \in Nat
  BY LogTyped
<1>3. Len(replica'.log) \in Nat
  <2>1. Fine(replica', requests')
    BY <1>1 DEF SInv, IInv
  <2> QED
    BY <2>1 DEF Fine
<1>4. ASSUME Replicated, NEW c \in Client PROVE Backed(told'[c], replica')
  <2>1. Ahead(replica, replica') /\ (told'[c] = told[c] \/ Backed(told'[c], replica'))
    BY <1>1, <1>4 DEF Grows
  <2>2. Backed(told[c], replica)
    BY <1>4 DEF Resting
  <2> QED
    BY <1>2, <1>3, <2>1, <2>2, BackedAhead
<1> QED
  BY <1>1, <1>4 DEF Resting, Replicated

(* In a space that keeps its records and replicates its writes, what a     *)
(* call was told rests on a write no failover takes back: confirmedAsRead  *)
(* and untilAnswered of records.ts over the answers simulated.ts confirms. *)
THEOREM AnswersStand == Spec => [](Replicated => AnswersKept)
<1>1. SInv /\ Resting => (Replicated => AnswersKept)
  BY DEF Resting, Backed, AnswersKept
<1> QED
  BY InitSInv, InitResting, StepSInv, StepResting, <1>1, PTL DEF Spec

(* A history that goes on from another has it as its first part.           *)
LEMMA AheadSubSeq ==
  ASSUME NEW s \in Seq(EntryType), NEW t \in Seq(EntryType), Len(s) <= Len(t),
         \A i \in 1..Len(s) : t[i] = s[i]
  PROVE  s = SubSeq(t, 1, Len(s))
<1>1. Len(s) \in Nat /\ Len(t) \in Nat
  OBVIOUS
<1>2. /\ SubSeq(t, 1, Len(s)) \in Seq(EntryType)
      /\ Len(SubSeq(t, 1, Len(s))) = Len(s)
      /\ \A i \in 1..Len(s) : SubSeq(t, 1, Len(s))[i] = t[i]
  <2>1. \A i \in 1..Len(s) : t[i] \in EntryType
    BY <1>1
  <2> QED
    BY <1>1, <2>1, SubSeqProperties
<1> QED
  BY <1>2, SeqEqual

LEMMA InitAtomic == Init => Atomic!Init
<1> SUFFICES ASSUME Init PROVE Atomic!Init
  OBVIOUS
<1>1. replica.log = <<>> /\ \A c \in Client : told[c].said = "nothing"
  BY DEF Init, StoreInit, Empty, Untold
<1> QED
  BY <1>1 DEF Atomic!Init

LEMMA StepAtomic ==
  ASSUME SInv, Resting, Replicated, [Next]_vars
  PROVE  [Atomic!Next]_<<replica.log, told>>
<1>1. SInv' /\ Grows /\ Calls(requests', call', told')
  BY StepSInv DEF SInv, IInv
<1>2. replica.log \in Seq(EntryType) /\ replica'.log \in Seq(EntryType)
  <2>1. Fine(replica', requests')
    BY <1>1 DEF SInv, IInv
  <2>2. replica'.log \in Seq(EntryType)
    BY <2>1 DEF Fine
  <2> QED
    BY <2>2, LogTyped
<1>3. Len(replica.log) <= Len(replica'.log) /\ replica.log = SubSeq(replica'.log, 1, Len(replica.log))
  BY <1>1, <1>2, AheadSubSeq DEF Grows, Ahead
<1>4. Atomic!Legal(replica'.log)
  <2>1. Story(replica', requests') /\ Fine(replica', requests')
    BY <1>1 DEF SInv, IInv
  <2>2. \A i \in 1..Len(replica'.log) :
          IF i = 1 THEN replica'.log[i].base = Absent
          ELSE Follows(replica'.log[i - 1], replica'.log[i])
    BY <2>1 DEF Story
  <2>3. \A i, j \in 1..Len(replica'.log) :
          replica'.log[i].mark = replica'.log[j].mark => i = j
    BY <2>1 DEF Fine
  <2> QED
    BY <2>2, <2>3 DEF Atomic!Legal, Atomic!Follows, Follows
<1>5. ASSUME NEW c \in Client, told'[c] # told[c] PROVE Atomic!Justified(told'[c], replica'.log)
  <2>1. Backed(told'[c], replica')
    BY <1>1, <1>5 DEF Grows
  <2>2. told'[c].said \in {"nothing", "created", "changed", "exists", "unchanged",
                           "removed", "read", "unavailable"}
    BY <1>1 DEF Calls
  <2> QED
    BY <2>1, <2>2 DEF Backed, Positive, Atomic!Justified
<1> QED
  BY <1>3, <1>4, <1>5 DEF Atomic!Next

(* In such a space the callers of one record see one atomic record: writes *)
(* take effect once each, on what the one before left, the history only    *)
(* grows, and a call is told only what an entry of it says.                *)
THEOREM RecordIsAtomic == Spec /\ Replicated => IsAtomic
<1>1. Replicated /\ [Next]_vars => Replicated'
  BY SameSpace DEF Replicated
<1> QED
  BY InitSInv, InitResting, InitAtomic, StepSInv, StepResting, StepAtomic, <1>1, PTL
     DEF Spec, IsAtomic, Atomic!Spec

(* What a plain read saw, the replica took.                                *)
Confirming == {"durable", "no-eviction", "confirmed-reads"} \subseteq space.guarantees

Seen(t, s) ==
  t.said = "read" /\ t.by # 0 => \E i \in 1..Len(s.log) : s.log[i].version = t.by

Seeing == Confirming => \A c \in Client : Seen(told[c], replica)

LEMMA TellOther ==
  ASSUME SInv, NEW c \in Client, NEW said, NEW by, Tell(c, said, by), said # "read"
  PROVE  \A d \in Client : told'[d] = told[d] \/ told'[d].said # "read"
<1>1. told' = [told EXCEPT ![c] = [said |-> said, by |-> by]]
  BY DEF Tell
<1> QED
  BY <1>1 DEF SInv, IInv, Calls

LEMMA ReceiveOther ==
  ASSUME SInv, NEW c \in Client, NEW answer, Receive(c, answer), call[c].pc \in {"send", "applied"}
  PROVE  \A d \in Client : told'[d] = told[d] \/ told'[d].said # "read"
<1>1. call[c].op.kind \in {"create", "change", "remove"}
  BY DEF SInv, IInv, Calls
<1>2. \/ told' = told
      \/ \E said, by : Tell(c, said, by) /\ said # "read"
  <2>1. CASE answer = "written"
    BY <2>1 DEF Receive
  <2>2. CASE answer = "taken"
    BY <2>2 DEF Receive
  <2>3. CASE answer = "committed"
    BY <1>1, <2>3 DEF Receive
  <2>4. CASE answer \notin {"written", "taken", "committed"}
    BY <2>4 DEF Receive, SettleAsRead, Draw, Again
  <2> QED
    BY <2>1, <2>2, <2>3, <2>4
<1> QED
  BY <1>2, TellOther

(* A step but a read tells nothing of a read.                              *)
LEMMA OnlyRead ==
  ASSUME SInv, NEW c \in Client, Step(c), ~Read(c)
  PROVE  \A d \in Client : told'[d] = told[d] \/ told'[d].said # "read"
<1>1. CASE told' = told
  BY <1>1
<1>2. CASE \E said, by : Tell(c, said, by) /\ said # "read"
  BY <1>2, TellOther
<1>3. CASE \E op \in Operation : Start(c, op)
  <2>1. told' = [told EXCEPT ![c] = Untold] /\ Untold.said # "read"
    BY <1>3 DEF Start, Untold
  <2> QED
    BY <2>1 DEF SInv, IInv, Calls
<1>4. CASE \E answer : Receive(c, answer) /\ call[c].pc \in {"send", "applied"}
  BY <1>4, ReceiveOther
<1>5. CASE BeginBlind(c) \/ BeginChange(c) \/ Recheck(c)
  BY <1>1, <1>2, <1>5 DEF BeginBlind, BeginChange, Recheck, SettleAsRead, Draw, Again
<1>6. CASE ReadFails(c) \/ GiveUp(c)
  BY <1>2, <1>6 DEF ReadFails, GiveUp
<1>7. CASE SendLost(c) \/ ReplyLost(c) \/ NotConfirmed(c) \/ Resend(c)
  BY <1>1, <1>7 DEF SendLost, ReplyLost, NotConfirmed, Resend, Unsure
<1>8. CASE SendTaken(c)
  BY <1>1, <1>4, <1>8 DEF SendTaken
<1>9. CASE ConfirmWrite(c) \/ FindConfirmed(c)
  BY <1>4, <1>9 DEF ConfirmWrite, FindConfirmed
<1> QED
  BY <1>3, <1>5, <1>6, <1>7, <1>8, <1>9 DEF Step

LEMMA InitSeeing == Init => Seeing
<1> SUFFICES ASSUME Init, NEW c \in Client PROVE Seen(told[c], replica)
  BY DEF Seeing
<1>1. told[c].said = "nothing"
  BY DEF Init, Untold
<1> QED
  BY <1>1 DEF Seen

LEMMA SeenAhead ==
  ASSUME NEW t, NEW s, NEW n, Seen(t, s), Ahead(s, n), Len(s.log) \in Nat, Len(n.log) \in Nat
  PROVE  Seen(t, n)
<1>1. \A i \in 1..Len(s.log) : i \in 1..Len(n.log) /\ n.log[i] = s.log[i]
  BY DEF Ahead
<1> QED
  BY <1>1 DEF Seen

LEMMA StepSeeing ==
  ASSUME SInv, Seeing, [Next]_vars
  PROVE  Seeing'
<1> SUFFICES ASSUME Confirming PROVE \A c \in Client : Seen(told'[c], replica')
  BY SameSpace DEF Seeing, Confirming
<1>1. Len(replica.log) \in Nat /\ Len(primary.log) \in Nat
  BY LogTyped
<1>2. /\ \A c \in Client : Seen(told[c], replica)
      /\ \A c \in Client : Seen(told[c], primary)
  <2>1. \A c \in Client : Seen(told[c], replica)
    BY DEF Seeing
  <2>2. Ahead(replica, primary)
    BY DEF SInv
  <2> QED
    BY <1>1, <2>1, <2>2, SeenAhead
<1>3. replica' \in {primary, replica}
  <2>1. ASSUME NEW c \in Client, Step(c) PROVE replica' \in {primary, replica}
    <3>1. CASE BeginChange(c) \/ Read(c) \/ Recheck(c)
      BY <3>1 DEF BeginChange, Read, Recheck, ReadStore, Confirm
    <3>2. CASE \E op \in Operation : Start(c, op)
      BY <3>2 DEF Start, storeVars
    <3>3. CASE BeginBlind(c) \/ ReadFails(c) \/ GiveUp(c) \/ Resend(c)
      BY <3>3 DEF BeginBlind, ReadFails, GiveUp, Resend, storeVars
    <3>4. CASE SendLost(c) \/ ReplyLost(c) \/ SendTaken(c) \/ NotConfirmed(c)
      BY <3>4 DEF SendLost, ReplyLost, SendTaken, NotConfirmed
    <3>5. CASE ConfirmWrite(c) \/ FindConfirmed(c)
      BY <3>5 DEF ConfirmWrite, FindConfirmed, Confirm
    <3> QED
      BY <2>1, <3>1, <3>2, <3>3, <3>4, <3>5 DEF Step
  <2>2. ~Forget
    BY DEF Forget, Confirming
  <2>3. ASSUME Failover \/ Tick \/ (\E m \in adrift : Land(m)) \/ UNCHANGED vars
        PROVE  replica' \in {primary, replica}
    BY <2>3 DEF Failover, Tick, Land, vars
  <2> QED
    BY <2>1, <2>2, <2>3 DEF Next
<1>4. ASSUME NEW c \in Client, told'[c] = told[c] \/ told'[c].said # "read"
      PROVE  Seen(told'[c], replica')
  <2>1. CASE told'[c] = told[c]
    BY <1>2, <1>3, <2>1
  <2>2. CASE told'[c].said # "read"
    BY <2>2 DEF Seen
  <2> QED
    BY <1>4, <2>1, <2>2
<1>5. ASSUME NEW c \in Client, Read(c), NEW d \in Client PROVE Seen(told'[d], replica')
  <2>1. /\ replica' = primary
        /\ told' = [told EXCEPT ![c] = [said |-> "read", by |-> Live(primary).version]]
    BY <1>5 DEF Read, ReadStore, Confirm, Confirming, Tell
  <2>2. told'[d] = IF d = c THEN [said |-> "read", by |-> Live(primary).version] ELSE told[d]
    BY <2>1 DEF SInv, IInv, Calls
  <2>3. CASE d # c
    BY <1>4, <2>2, <2>3
  <2>4. CASE d = c /\ Live(primary).version # 0
    <3>1. Live(primary) = primary.held /\ primary.held # NoRecord
      BY <2>4 DEF Live, NoRecord
    <3>2. Len(primary.log) # 0 /\ primary.held.version = primary.log[Len(primary.log)].version
      BY <3>1 DEF SInv, Story
    <3>3. Len(primary.log) \in 1..Len(primary.log)
      BY <1>1, <3>2
    <3> QED
      BY <2>1, <2>2, <2>4, <3>1, <3>2, <3>3 DEF Seen
  <2>5. CASE d = c /\ Live(primary).version = 0
    BY <2>2, <2>5 DEF Seen
  <2> QED
    BY <2>3, <2>4, <2>5
<1>6. ASSUME NEW c \in Client, Step(c), NEW d \in Client PROVE Seen(told'[d], replica')
  BY <1>4, <1>5, <1>6, OnlyRead
<1>7. ASSUME Failover \/ Forget \/ (Tick /\ UNCHANGED clientVars) \/ (\E m \in adrift : Land(m)) \/ UNCHANGED vars
      PROVE  told' = told
  BY <1>7 DEF Failover, Forget, Tick, Land, vars, clientVars
<1> QED
  BY <1>4, <1>6, <1>7 DEF Next

(* Where the space confirms reads and keeps its records, the version a     *)
(* plain read saw is one the replica took: confirmed-reads of store.ts, as *)
(* simulated.ts answers a find.                                            *)
THEOREM ReadsStand == Spec => [](Confirming => ReadsKept)
<1>1. SInv /\ Seeing => (Confirming => ReadsKept)
  BY DEF Seeing, Seen, ReadsKept
<1> QED
  BY InitSInv, InitSeeing, StepSInv, StepSeeing, <1>1, PTL DEF Spec
=============================================================================
