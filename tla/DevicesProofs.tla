--------------------------- MODULE DevicesProofs ----------------------------
(***************************************************************************)
(* What the runs of MCDeviceGrant show of devices on small instances, for  *)
(* any number of browsers and polls at once, whatever fails, stops or ends *)
(* between their steps: a device is decided once and answered once, a      *)
(* session closed leaves no token usable, variables keep their types, and  *)
(* what a cap pushed out is followed until it is denied.                   *)
(*                                                                         *)
(* A decision told, and one answered, is of a worker's own frame until it  *)
(* is: no two workers have frames alike, and what a frame knows of its     *)
(* device's record lasts, since the record moves one way.                  *)
(***************************************************************************)
EXTENDS DeviceGrant, TLAPS

IsStack(s) == \E S : s \in Seq(S)
In(r, s) == \E i \in 1 .. Len(s) : r = s[i]

(* Frames of the token sets, which others may be below; and the device's.  *)
Plain(r) ==
  r.pc \in {"settle.read", "settle.deny", "settle.take", "settle.check", "settle.done", "settle.again",
            "settle.add", "record.index", "record.near", "record.list", "record.add", "record.relist",
            "close.held", "close.deny", "close.awaiting", "close.rest"}
Verifies == {"verify.enter", "verify.find", "verify.admit", "verify.decide", "verify.tell"}
Polls == {"poll.read", "poll.open", "poll.admit", "poll.take", "poll.revoked", "poll.entry", "poll.answer"}
Devices == {"authorize.save", "authorize.code"} \cup Verifies \cup Polls
Issues == {"issue.make", "issue.told"}

(* Frames that are about to write what is written once.                    *)
Saving(r) == r.pc = "authorize.save"
Telling(r) == r.pc = "verify.tell"
Answering(r) ==
  r.pc \in {"poll.revoked", "poll.entry", "poll.answer"} \/ (r.pc \in Issues /\ r.then = "poll.answer")
Owning(r) == Saving(r) \/ Telling(r) \/ Answering(r)

Alike(r, q) ==
  /\ r.d = q.d
  /\ \/ Saving(r) /\ Saving(q)
     \/ Telling(r) /\ Telling(q)
     \/ Answering(r) /\ Answering(q)

(* What a record keeps of how it was decided, and that it was taken.       *)
Approved(d) == "session" \in DOMAIN device[d]
Marked(action, d) ==
  IF action = "approve" THEN Approved(d)
  ELSE device[d].state \in {"denied", "taken"} /\ ~Approved(d)
Taken(d) == Approved(d) /\ device[d].state = "taken"

Knows(r) ==
  /\ "pc" \in DOMAIN r
  /\ r.pc \in Devices => "d" \in DOMAIN r /\ r.d \in Device
  /\ r.pc \in Verifies => "action" \in DOMAIN r
  /\ r.pc \in Issues => /\ {"d", "then"} \subseteq DOMAIN r
                        /\ r.then = "session.keep" \/ (r.then = "poll.answer" /\ r.d \in Device)
  /\ Saving(r) => device[r.d] = NoDevice
  /\ Telling(r) => Marked(r.action, r.d) /\ \A x \in told : x[1] # r.d
  /\ Answering(r) => Taken(r.d) /\ \A x \in answers : x[1] # r.d

DeviceFine(d) ==
  \/ device[d] \in {NoDevice, InState("pending"), InState("denied"), InState("taken")}
  \/ DOMAIN device[d] = {"state", "session"} /\ device[d].state \in {"approved", "taken"}

(* A worker is about one thing: what is below is what it is about.         *)
Shape(s) ==
  /\ IsStack(s)
  /\ \A i \in 1 .. Len(s) : i < Len(s) => Plain(s[i])
  /\ \A i \in 1 .. Len(s) : i > 1 => ~Saving(s[i])

RecordsFine ==
  /\ coded \subseteq Device
  /\ DOMAIN device = Device /\ \A d \in Device : DeviceFine(d)
  /\ \A x \in told : x[1] \in Device /\ Marked(x[2], x[1])
  /\ \A x \in answers : x[1] \in Device /\ Taken(x[1])
  /\ \A x, y \in told : x[1] = y[1] => x = y
  /\ \A x, y \in answers : x[1] = y[1] => x = y

Clash(v, w) == \E r, q : In(r, task[v]) /\ In(q, task[w]) /\ Alike(r, q)

IInv ==
  /\ DOMAIN task = Worker
  /\ RecordsFine
  /\ \A w \in Worker : Shape(task[w]) /\ \A r : In(r, task[w]) => Knows(r)
  /\ \A v, w \in Worker : Clash(v, w) => v = w

----------------------------------------------------------------------------
LEMMA Once == IInv => DecidedOnce
<1> SUFFICES ASSUME IInv PROVE DecidedOnce
  OBVIOUS
<1>1. ASSUME NEW x \in told, NEW y \in answers, x[1] = y[1] PROVE x[2] = "approve"
  BY <1>1 DEF IInv, RecordsFine, Marked, Taken
<1>2. QED
  BY <1>1 DEF IInv, RecordsFine, DecidedOnce

LEMMA IsStackParts ==
  ASSUME NEW s, IsStack(s)
  PROVE  /\ Len(s) \in Nat /\ DOMAIN s = 1 .. Len(s)
         /\ s # <<>> => Len(s) > 0 /\ Head(s) = s[1]
BY DEF IsStack

LEMMA Tuples ==
  ASSUME NEW x, NEW y
  PROVE  /\ IsStack(<<>>) /\ Len(<<>>) = 0
         /\ IsStack(<<x>>) /\ Len(<<x>>) = 1 /\ <<x>>[1] = x
         /\ IsStack(<<x, y>>) /\ Len(<<x, y>>) = 2 /\ <<x, y>>[1] = x /\ <<x, y>>[2] = y
<1>1. <<>> \in Seq({}) /\ <<x>> \in Seq({x}) /\ <<x, y>> \in Seq({x, y})
  OBVIOUS
<1>2. QED
  BY <1>1 DEF IsStack

LEMMA InTuples ==
  ASSUME NEW x, NEW y, NEW r
  PROVE  /\ ~In(r, <<>>)
         /\ In(r, <<x>>) => r = x
         /\ In(r, <<x, y>>) => r \in {x, y}
<1>1. ASSUME NEW s, NEW k \in 0 .. 2, Len(s) = k, In(r, s)
      PROVE  \/ k >= 1 /\ r = s[1]
             \/ k >= 2 /\ r = s[2]
  BY <1>1 DEF In
<1>2. ~In(r, <<>>)
  BY <1>1, Tuples
<1>3. In(r, <<x>>) => r = x
  BY <1>1, Tuples
<1>4. In(r, <<x, y>>) => r \in {x, y}
  BY <1>1, Tuples
<1>5. QED
  BY <1>2, <1>3, <1>4

(* What stacks are made of when the top frame makes way.                   *)
LEMMA Made ==
  ASSUME NEW s, IsStack(s), s # <<>>, NEW a, IsStack(a)
  PROVE  LET n == a \o Tail(s) IN
           /\ IsStack(n) /\ Len(n) = Len(a) + Len(s) - 1
           /\ \A i \in 1 .. Len(n) : n[i] = IF i <= Len(a) THEN a[i] ELSE s[i - Len(a) + 1]
<1>1. PICK S, T : s \in Seq(S) /\ a \in Seq(T)
  BY DEF IsStack
<1> DEFINE U == S \cup T
<1>2. s \in Seq(U) /\ a \in Seq(U)
  BY <1>1
<1> HIDE DEF U
<1>3. Tail(s) \in Seq(U) /\ Len(Tail(s)) = Len(s) - 1 /\ Len(s) \in Nat \ {0}
  BY <1>2
<1>4. \A i \in 1 .. Len(s) - 1 : Tail(s)[i] = s[i + 1]
  BY <1>2
<1>5. QED
  BY <1>2, <1>3, <1>4 DEF IsStack

LEMMA InPushed ==
  ASSUME NEW s, IsStack(s), s # <<>>, NEW a, IsStack(a), NEW r, In(r, a \o Tail(s))
  PROVE  In(r, a) \/ (In(r, s) /\ Len(s) # 1)
<1> DEFINE n == a \o Tail(s)
           k == Len(a)
           l == Len(s)
<1>1. l \in Nat \ {0} /\ k \in Nat
  BY IsStackParts
<1>2. Len(n) = k + l - 1 /\ \A i \in 1 .. Len(n) : n[i] = IF i <= k THEN a[i] ELSE s[i - k + 1]
  BY Made
<1>3. PICK i \in 1 .. Len(n) : r = n[i]
  BY DEF In
<1> HIDE DEF n, k, l
<1>4. CASE i <= k
  BY <1>1, <1>2, <1>3, <1>4 DEF In, k
<1>5. CASE i > k
  <2>1. i - k + 1 \in 1 .. l /\ l # 1
    BY <1>1, <1>2, <1>3, <1>5
  <2>2. r = s[i - k + 1]
    BY <1>1, <1>2, <1>3, <1>5
  <2>3. QED
    BY <2>1, <2>2 DEF In, l
<1>6. QED
  BY <1>1, <1>2, <1>3, <1>4, <1>5

(* A stack keeps its shape when its top makes way for frames that are      *)
(* plain, or, where the top is the last, plain but for their last.         *)
LEMMA ShapePushed ==
  ASSUME NEW s, Shape(s), s # <<>>, NEW a, IsStack(a),
         \A i \in 1 .. Len(a) : Plain(a[i]) \/ (i = Len(a) /\ ~Plain(s[1]) /\ (i > 1 => ~Saving(a[i])))
  PROVE  Shape(a \o Tail(s))
<1> DEFINE n == a \o Tail(s)
           k == Len(a)
           l == Len(s)
<1>1. l \in Nat \ {0} /\ k \in Nat /\ IsStack(s)
  BY IsStackParts DEF Shape
<1>2. IsStack(n) /\ Len(n) = k + l - 1
      /\ \A i \in 1 .. Len(n) : n[i] = IF i <= k THEN a[i] ELSE s[i - k + 1]
  BY <1>1, Made
<1>3. \A r : Plain(r) => ~Saving(r)
  BY DEF Plain, Saving
<1>4. /\ \A i \in 1 .. l : (i < l => Plain(s[i])) /\ (i > 1 => ~Saving(s[i]))
      /\ \A i \in 1 .. k : Plain(a[i]) \/ (i = k /\ ~Plain(s[1]) /\ (i > 1 => ~Saving(a[i])))
  BY DEF Shape
<1> HIDE DEF n, k, l
<1>5. ~Plain(s[1]) => l = 1
  BY <1>1, <1>4
<1>6. ASSUME NEW i \in 1 .. Len(n), i < Len(n) PROVE Plain(n[i])
  <2>1. CASE i <= k
    BY <1>1, <1>2, <1>4, <1>5, <1>6, <2>1
  <2>2. CASE i > k
    <3>1. i - k + 1 \in 1 .. l /\ i - k + 1 < l
      BY <1>1, <1>2, <1>6, <2>2
    <3>2. QED
      BY <1>1, <1>2, <1>4, <2>2, <3>1
  <2>3. QED
    BY <1>1, <1>2, <2>1, <2>2
<1>7. ASSUME NEW i \in 1 .. Len(n), i > 1 PROVE ~Saving(n[i])
  <2>1. CASE i <= k
    BY <1>1, <1>2, <1>3, <1>4, <1>7, <2>1
  <2>2. CASE i > k
    <3>1. i - k + 1 \in 1 .. l /\ i - k + 1 > 1
      BY <1>1, <1>2, <1>7, <2>2
    <3>2. QED
      BY <1>1, <1>2, <1>4, <2>2, <3>1
  <2>3. QED
    BY <1>1, <1>2, <2>1, <2>2
<1>8. QED
  BY <1>2, <1>6, <1>7 DEF Shape, n

(* A throw leaves the one frame that catches, which is the last.           *)
LEMMA Unwinds ==
  ASSUME NEW s, Shape(s)
  PROVE  \/ Unwound(s) = <<>>
         \/ \E x : Unwound(s) = <<x>> /\ (\E q : In(q, s) /\ q.pc \in DOMAIN Handlers
                                                /\ x = [q EXCEPT !.pc = Handlers[@]])
<1>1. IsStack(s)
  BY DEF Shape
<1>2. Len(s) \in Nat /\ DOMAIN s = 1 .. Len(s)
  BY <1>1, IsStackParts
<1>3. CASE Catching(s) = {}
  BY <1>3 DEF Unwound
<1>4. CASE Catching(s) # {}
  <2>1. ASSUME NEW i \in Catching(s) PROVE i = Len(s) /\ i \in 1 .. Len(s) /\ s[i].pc \in DOMAIN Handlers
    <3>1. i \in 1 .. Len(s) /\ s[i].pc \in DOMAIN Handlers
      BY <1>2, <2>1 DEF Catching
    <3>2. ~Plain(s[i])
      BY <3>1 DEF Handlers, Plain
    <3> DEFINE l == Len(s)
    <3>3. l \in Nat /\ i \in 1 .. l /\ ~(i < l)
      BY <1>2, <3>1, <3>2 DEF Shape
    <3> HIDE DEF l
    <3>4. i = l
      BY <3>3
    <3>5. QED
      BY <3>1, <3>4 DEF l
  <2>2. Catching(s) = {Len(s)}
    BY <1>4, <2>1
  <2> DEFINE k == CHOOSE i \in Catching(s) : \A j \in Catching(s) : i <= j
  <2>3. k = Len(s)
    BY <1>2, <2>2
  <2>4. Unwound(s) = <<[s[k] EXCEPT !.pc = Handlers[@]]>> \o SubSeq(s, k + 1, Len(s))
    BY <1>4 DEF Unwound
  <2> HIDE DEF k
  <2>5. SubSeq(s, k + 1, Len(s)) = <<>>
    <3>1. PICK S : s \in Seq(S)
      BY <1>1 DEF IsStack
    <3>2. QED
      BY <2>3, <3>1
  <2>6. PICK q, x : q = s[k] /\ x = [s[k] EXCEPT !.pc = Handlers[@]]
    OBVIOUS
  <2>7. Unwound(s) = <<x>>
    <3>1. \A y : <<y>> \o <<>> = <<y>>
      OBVIOUS
    <3>2. QED
      BY <2>4, <2>5, <2>6, <3>1
  <2>8. In(q, s) /\ q.pc \in DOMAIN Handlers
    BY <2>1, <2>2, <2>3, <2>6 DEF In
  <2>9. x = [q EXCEPT !.pc = Handlers[@]]
    BY <2>6
  <2>10. QED
    BY <2>7, <2>8, <2>9
<1>5. QED
  BY <1>3, <1>4

----------------------------------------------------------------------------
(* Steps.                                                                  *)
LEMMA Tops ==
  ASSUME IInv, NEW w \in Worker, task[w] # <<>>
  PROVE  /\ In(Top(w), task[w]) /\ Knows(Top(w)) /\ Top(w) = task[w][1]
         /\ Shape(task[w]) /\ IsStack(task[w])
         /\ ~Plain(Top(w)) => Len(task[w]) = 1
<1>1. Shape(task[w]) /\ IsStack(task[w])
  BY DEF IInv, Shape
<1>2. PICK s : s = task[w]
  OBVIOUS
<1>3. Len(s) \in Nat /\ Len(s) > 0 /\ Top(w) = s[1]
  BY <1>1, <1>2, IsStackParts DEF Top
<1>4. In(Top(w), s) /\ 1 \in 1 .. Len(s)
  BY <1>3 DEF In
<1>5. ASSUME Len(s) # 1 PROVE Plain(s[1])
  <2>1. PICK l : l = Len(s)
    OBVIOUS
  <2>2. l \in Nat /\ l > 0 /\ l # 1
    BY <1>3, <1>5, <2>1
  <2>3. 1 < l
    BY <2>2
  <2>4. QED
    BY <1>1, <1>2, <1>4, <2>1, <2>3 DEF Shape
<1>6. QED
  BY <1>1, <1>2, <1>3, <1>4, <1>5 DEF IInv

(* A step of w: what it leaves on its stack, and what others know.         *)
LEMMA Step ==
  ASSUME IInv, RecordsFine', NEW w \in Worker, NEW n, task' = [task EXCEPT ![w] = n], Shape(n),
         \A r : In(r, n) => Knows(r)',
         \A r, q : In(r, n) /\ Alike(r, q) => \A v \in Worker \ {w} : ~In(q, task[v]),
         \A v \in Worker \ {w} : \A r : In(r, task[v]) => Knows(r)'
  PROVE  IInv'
<1>1. DOMAIN task' = Worker /\ task'[w] = n /\ \A v \in Worker \ {w} : task'[v] = task[v]
  BY DEF IInv
<1>2. ASSUME NEW v \in Worker PROVE Shape(task'[v]) /\ \A r : In(r, task'[v]) => Knows(r)'
  BY <1>1, <1>2 DEF IInv
<1>3. ASSUME NEW u \in Worker, NEW v \in Worker, NEW r, NEW q,
             In(r, task'[u]), In(q, task'[v]), Alike(r, q)
      PROVE  u = v
  <2>1. Alike(q, r)
    BY <1>3 DEF Alike
  <2>2. CASE u = w
    BY <1>1, <1>3, <2>2
  <2>3. CASE v = w
    BY <1>1, <1>3, <2>1, <2>3
  <2>4. CASE u # w /\ v # w
    BY <1>1, <1>3, <2>4 DEF IInv, Clash
  <2>5. QED
    BY <2>2, <2>3, <2>4
<1>4. (\A u, v \in Worker : Clash(u, v) => u = v)'
  BY <1>3 DEF Clash
<1>5. QED
  BY <1>1, <1>2, <1>4 DEF IInv

SameRecords == UNCHANGED <<device, told, answers, coded>>

LEMMA KnowsSame ==
  ASSUME SameRecords
  PROVE  /\ IInv => RecordsFine'
         /\ \A r : Knows(r) => Knows(r)'
<1>1. device' = device /\ told' = told /\ answers' = answers /\ coded' = coded
  BY DEF SameRecords
<1>2. IInv => RecordsFine'
  BY <1>1 DEF IInv, RecordsFine, DeviceFine, Marked, Approved, Taken
<1>3. ASSUME NEW r, Knows(r) PROVE Knows(r)'
  BY <1>1, <1>3 DEF Knows, Marked, Approved, Taken
<1>4. QED
  BY <1>2, <1>3

(* What w's frames own, others' do not.                                    *)
LEMMA Apart ==
  ASSUME IInv, NEW w \in Worker, NEW r, In(r, task[w]), NEW q, Alike(r, q), NEW v \in Worker \ {w}
  PROVE  ~In(q, task[v])
BY DEF IInv, Clash

(* The top of w makes way, and nothing is written of devices: what comes   *)
(* owns nothing, or what the top did.                                      *)
LEMMA Quiet ==
  ASSUME IInv, SameRecords, NEW w \in Worker, task[w] # <<>>, NEW a, IsStack(a), Become(w, a),
         \A i \in 1 .. Len(a) :
           Plain(a[i]) \/ (i = Len(a) /\ ~Plain(Top(w)) /\ (i > 1 => ~Saving(a[i]))),
         \A r : In(r, a) => Knows(r) /\ \A q : Alike(r, q) => Alike(Top(w), q)
  PROVE  IInv'
<1>0. PICK s, t, n : s = task[w] /\ t = Top(w) /\ n = a \o Tail(s)
  OBVIOUS
<1>1. In(t, s) /\ Knows(t) /\ t = s[1] /\ Shape(s) /\ IsStack(s) /\ s # <<>>
  BY <1>0, Tops
<1>2. task' = [task EXCEPT ![w] = n]
  BY <1>0 DEF Become
<1>3. Shape(n)
  BY <1>0, <1>1, ShapePushed
<1>4. ASSUME NEW r, In(r, n)
      PROVE  Knows(r) /\ \A q : Alike(r, q) => \A v \in Worker \ {w} : ~In(q, task[v])
  <2>1. CASE In(r, a)
    BY <1>0, <1>1, <2>1, Apart
  <2>2. CASE In(r, s)
    BY <1>0, <2>2, Apart DEF IInv
  <2>3. QED
    BY <1>0, <1>1, <1>4, <2>1, <2>2, InPushed
<1>5. QED
  BY <1>2, <1>3, <1>4, Step, KnowsSame DEF IInv

LEMMA PlainOwns ==
  ASSUME NEW r, Plain(r) \/ ~Owning(r)
  PROVE  \A q : ~Alike(r, q)
BY DEF Plain, Owning, Alike, Saving, Telling, Answering, Issues

LEMMA PlainKnows ==
  ASSUME NEW r, Plain(r), "pc" \in DOMAIN r
  PROVE  Knows(r)
BY DEF Plain, Knows, Saving, Telling, Answering, Issues, Devices, Verifies, Polls

LEMMA QuietReturn ==
  ASSUME IInv, SameRecords, NEW w \in Worker, task[w] # <<>>, Return(w)
  PROVE  IInv'
<1>1. PICK a : a = <<>>
  OBVIOUS
<1>2. IsStack(a) /\ Become(w, a) /\ Len(a) = 0 /\ \A r : ~In(r, a)
  BY <1>1, Tuples, InTuples DEF Return
<1>3. QED
  BY <1>2, Quiet

LEMMA QuietOne ==
  ASSUME IInv, SameRecords, NEW w \in Worker, task[w] # <<>>, NEW x, Become(w, <<x>>),
         Plain(x) \/ ~Plain(Top(w)), Knows(x), ~Owning(x) \/ \A q : Alike(x, q) => Alike(Top(w), q)
  PROVE  IInv'
<1>1. PICK a : a = <<x>>
  OBVIOUS
<1>2. IsStack(a) /\ Become(w, a) /\ Len(a) = 1 /\ a[1] = x /\ \A r : In(r, a) => r = x
  BY <1>1, Tuples, InTuples
<1>3. \A r : In(r, a) => Knows(r) /\ \A q : Alike(r, q) => Alike(Top(w), q)
  BY <1>2, PlainOwns
<1>4. ASSUME NEW i \in 1 .. Len(a) PROVE i = 1
  BY <1>2
<1>5. \A i \in 1 .. Len(a) :
        Plain(a[i]) \/ (i = Len(a) /\ ~Plain(Top(w)) /\ (i > 1 => ~Saving(a[i])))
  BY <1>2, <1>4
<1>6. QED
  BY <1>2, <1>3, <1>5, Quiet

LEMMA QuietTwo ==
  ASSUME IInv, SameRecords, NEW w \in Worker, task[w] # <<>>, NEW x, NEW y, Become(w, <<x, y>>),
         Plain(x), Knows(x), Plain(y) \/ (~Plain(Top(w)) /\ ~Saving(y)),
         Knows(y), ~Owning(y) \/ \A q : Alike(y, q) => Alike(Top(w), q)
  PROVE  IInv'
<1>1. PICK a : a = <<x, y>>
  OBVIOUS
<1>2. IsStack(a) /\ Become(w, a) /\ Len(a) = 2 /\ a[1] = x /\ a[2] = y /\ \A r : In(r, a) => r \in {x, y}
  BY <1>1, Tuples, InTuples
<1>3. \A r : In(r, a) => Knows(r) /\ \A q : Alike(r, q) => Alike(Top(w), q)
  BY <1>2, PlainOwns
<1>4. ASSUME NEW i \in 1 .. Len(a) PROVE i = 1 \/ i = 2
  BY <1>2
<1>5. \A i \in 1 .. Len(a) :
        Plain(a[i]) \/ (i = Len(a) /\ ~Plain(Top(w)) /\ (i > 1 => ~Saving(a[i])))
  BY <1>2, <1>4
<1>6. QED
  BY <1>2, <1>3, <1>5, Quiet

(* A frame that goes on under another pc.                                  *)
LEMMA Moved ==
  ASSUME NEW t, Knows(t), NEW pc
  PROVE  LET x == [t EXCEPT !.pc = pc] IN
           /\ DOMAIN x = DOMAIN t /\ x.pc = pc
           /\ \A f \in DOMAIN t \ {"pc"} : x[f] = t[f]
BY DEF Knows

LEMMA Thrown ==
  ASSUME IInv, SameRecords, NEW w \in Worker,
         NEW n, task' = [task EXCEPT ![w] = n], n = Unwound(task[w]) \/ n = <<>>
  PROVE  IInv'
<1>1. Shape(task[w])
  BY DEF IInv
<1>2. CASE n = <<>>
  <2>1. IsStack(n) /\ Len(n) = 0 /\ \A r : ~In(r, n)
    BY <1>2, Tuples, InTuples
  <2>2. \A i \in 1 .. Len(n) : FALSE
    BY <2>1
  <2>3. Shape(n)
    BY <2>1, <2>2 DEF Shape
  <2>4. QED
    BY <2>1, <2>3, Step, KnowsSame DEF IInv
<1>3. CASE n # <<>>
  <2>1. PICK x, q : /\ n = <<x>> /\ In(q, task[w]) /\ q.pc \in DOMAIN Handlers
                    /\ x = [q EXCEPT !.pc = Handlers[@]]
    BY <1>1, <1>3, Unwinds
  <2>2. PICK pc : pc = Handlers[q.pc]
    OBVIOUS
  <2>3. pc \in {"issue.undo", "session.undo", "sweep"}
    BY <2>1, <2>2 DEF Handlers
  <2>4. x = [q EXCEPT !.pc = pc] /\ Knows(q)
    BY <2>1, <2>2 DEF IInv
  <2>5. DOMAIN x = DOMAIN q /\ x.pc = pc
    BY <2>4, Moved
  <2>6. Knows(x) /\ ~Owning(x) /\ ~Saving(x)
    BY <2>3, <2>4, <2>5
    DEF Knows, Owning, Saving, Telling, Answering, Issues, Devices, Verifies, Polls
  <2>7. IsStack(n) /\ Len(n) = 1 /\ \A r : In(r, n) => r = x
    BY <2>1, Tuples, InTuples
  <2>8. Shape(n)
    <3>1. \A i \in 1 .. Len(n) : ~(i < Len(n)) /\ ~(i > 1)
      BY <2>7
    <3>2. QED
      BY <2>7, <3>1 DEF Shape
  <2>9. \A r, y : In(r, n) => ~Alike(r, y)
    BY <2>6, <2>7, PlainOwns
  <2>10. QED
    BY <2>6, <2>7, <2>8, <2>9, Step, KnowsSame DEF IInv
<1>4. QED
  BY <1>2, <1>3

(* A worker takes something up.                                            *)
LEMMA Begun ==
  ASSUME IInv, SameRecords, NEW w \in Worker, NEW x, Start(w, <<x>>), Knows(x),
         \A q : Alike(x, q) => \A v \in Worker \ {w} : ~In(q, task[v])
  PROVE  IInv'
<1>1. PICK n : n = <<x>>
  OBVIOUS
<1>2. IsStack(n) /\ Len(n) = 1 /\ n[1] = x /\ \A r : In(r, n) => r = x
  BY <1>1, Tuples, InTuples
<1>3. Shape(n)
  <2>1. \A i \in 1 .. Len(n) : ~(i < Len(n)) /\ ~(i > 1)
    BY <1>2
  <2>2. QED
    BY <1>2, <2>1 DEF Shape
<1>4. QED
  BY <1>1, <1>2, <1>3, Step, KnowsSame DEF IInv, Start

----------------------------------------------------------------------------
(* The token sets, which know nothing of devices.                          *)
LEMMA PlainOne ==
  ASSUME IInv, SameRecords, NEW w \in Worker, task[w] # <<>>, NEW x, Become(w, <<x>>),
         "pc" \in DOMAIN x, Plain(x)
  PROVE  IInv'
BY PlainKnows, PlainOwns, QuietOne

LEMMA PlainTwo ==
  ASSUME IInv, SameRecords, NEW w \in Worker, task[w] # <<>>, NEW x, NEW y, Become(w, <<x, y>>),
         "pc" \in DOMAIN x, Plain(x), "pc" \in DOMAIN y, Plain(y)
  PROVE  IInv'
BY PlainKnows, PlainOwns, QuietTwo

LEMMA PlainTo ==
  ASSUME IInv, SameRecords, NEW w \in Worker, task[w] # <<>>, NEW pc, To(w, pc), Plain([pc |-> pc])
  PROVE  IInv'
<1>1. PICK t, x : t = Top(w) /\ x = [t EXCEPT !.pc = pc]
  OBVIOUS
<1>2. Become(w, <<x>>) /\ Knows(t)
  BY <1>1, Tops DEF To
<1>3. x.pc = pc /\ "pc" \in DOMAIN x
  BY <1>1, <1>2, Moved DEF Knows
<1>4. Plain(x)
  BY <1>3 DEF Plain
<1>5. QED
  BY <1>2, <1>3, <1>4, PlainOne

LEMMA Settles ==
  ASSUME IInv, SameRecords, NEW w \in Worker, SettleStep(w)
  PROVE  IInv'
<1>1. PICK t : t = Top(w)
  OBVIOUS
<1>2. task[w] # <<>> /\ Plain(t)
  BY <1>1 DEF SettleStep, SettleRead, SettleDeny, SettleTake, SettleCheck, SettleDone, SettleAgain, SettleAdd,
              Doing, Idle, Plain
<1>3. "pc" \in DOMAIN t
  BY <1>1, <1>2, Tops DEF Knows
<1>4. CASE SettleRead(w)
  <2>1. PICK x : x = [t EXCEPT !.pc = "settle.deny", !.todo = kept[t.s].awaiting] /\ Become(w, <<x>>)
    BY <1>1, <1>4 DEF SettleRead
  <2>2. x.pc = "settle.deny" /\ "pc" \in DOMAIN x
    BY <1>3, <2>1
  <2>3. QED
    BY <1>2, <2>1, <2>2, PlainOne DEF Plain
<1>5. CASE SettleDeny(w)
  <2>1. ASSUME NEW a, Become(w, <<[pc |-> "settle.take", s |-> t.s, a |-> a], [t EXCEPT !.todo = @ \ {a}]>>)
        PROVE  IInv'
    <3>1. PICK x, y : /\ x = [pc |-> "settle.take", s |-> t.s, a |-> a]
                      /\ y = [t EXCEPT !.todo = @ \ {a}] /\ Become(w, <<x, y>>)
      BY <2>1
    <3>2. y.pc = t.pc /\ "pc" \in DOMAIN y
      BY <1>3, <3>1
    <3>3. x.pc = "settle.take" /\ "pc" \in DOMAIN x
      BY <3>1
    <3>4. QED
      BY <1>2, <3>1, <3>2, <3>3, PlainTwo DEF Plain
  <2>2. CASE To(w, "settle.check")
    BY <1>2, <2>2, PlainTo DEF Plain
  <2>3. QED
    BY <1>1, <1>5, <2>1, <2>2 DEF SettleDeny
<1>6. CASE SettleTake(w)
  BY <1>2, <1>6, QuietReturn DEF SettleTake
<1>7. CASE SettleCheck(w)
  BY <1>2, <1>7, QuietReturn, PlainTo DEF SettleCheck, Plain
<1>8. CASE SettleDone(w)
  BY <1>2, <1>8, PlainTo DEF SettleDone, Plain
<1>9. CASE SettleAgain(w)
  BY <1>2, <1>9, QuietReturn, PlainTo DEF SettleAgain, Plain
<1>10. CASE SettleAdd(w)
  BY <1>2, <1>10, QuietReturn DEF SettleAdd
<1>11. QED
  BY <1>4, <1>5, <1>6, <1>7, <1>8, <1>9, <1>10 DEF SettleStep

LEMMA Records ==
  ASSUME IInv, SameRecords, NEW w \in Worker, RecordStep(w)
  PROVE  IInv'
<1>1. task[w] # <<>>
  BY DEF RecordStep, RecordIndex, RecordNear, RecordList, RecordAdd, RecordRelist, Doing, Idle
<1>2. CASE RecordIndex(w)
  BY <1>1, <1>2, PlainTo DEF RecordIndex, Plain
<1>3. CASE RecordNear(w)
  BY <1>1, <1>3, PlainTo DEF RecordNear, Plain
<1>4. CASE RecordList(w)
  BY <1>1, <1>4, PlainTo DEF RecordList, Plain
<1>5. CASE RecordAdd(w)
  <2>1. Return(w) \/ To(w, "record.relist")
    BY <1>5 DEF RecordAdd
  <2>2. QED
    BY <1>1, <2>1, QuietReturn, PlainTo DEF Plain
<1>6. CASE RecordRelist(w)
  BY <1>1, <1>6, PlainOne DEF RecordRelist, Settle, Plain
<1>7. QED
  BY <1>2, <1>3, <1>4, <1>5, <1>6 DEF RecordStep

LEMMA Closes ==
  ASSUME IInv, SameRecords, NEW w \in Worker, CloseStep(w)
  PROVE  IInv'
<1>1. PICK t : t = Top(w)
  OBVIOUS
<1>2. task[w] # <<>> /\ Plain(t)
  BY <1>1 DEF CloseStep, CloseHeld, CloseDeny, CloseAwaiting, CloseRest, Doing, Idle, Plain
<1>3. "pc" \in DOMAIN t
  BY <1>1, <1>2, Tops DEF Knows
<1>4. ASSUME NEW x, Become(w, <<x>>), "pc" \in DOMAIN x, x.pc \in {"close.deny", "close.rest"} PROVE IInv'
  BY <1>2, <1>4, PlainOne DEF Plain
<1>5. CASE CloseHeld(w)
  <2>1. PICK x : x = [t EXCEPT !.pc = "close.deny", !.todo = kept[t.s].held] /\ Become(w, <<x>>)
    BY <1>1, <1>5 DEF CloseHeld
  <2>2. QED
    BY <1>3, <1>4, <2>1
<1>6. CASE CloseDeny(w)
  <2>1. t.pc = "close.deny"
    BY <1>1, <1>6 DEF CloseDeny, Doing
  <2>2. ASSUME NEW a, Become(w, <<[t EXCEPT !.todo = @ \ {a}]>>) PROVE IInv'
    <3>1. PICK x : x = [t EXCEPT !.todo = @ \ {a}] /\ Become(w, <<x>>)
      BY <2>2
    <3>2. QED
      BY <1>3, <1>4, <2>1, <3>1
  <2>3. QED
    BY <1>1, <1>2, <1>6, <2>2, PlainTo DEF CloseDeny, Plain
<1>7. CASE CloseAwaiting(w)
  <2>1. PICK x : x = [t EXCEPT !.pc = "close.rest", !.todo = kept[t.s].awaiting] /\ Become(w, <<x>>)
    BY <1>1, <1>7 DEF CloseAwaiting
  <2>2. QED
    BY <1>3, <1>4, <2>1
<1>8. CASE CloseRest(w)
  <2>1. ASSUME NEW a, Become(w, <<[pc |-> "settle.take", s |-> t.s, a |-> a], [t EXCEPT !.todo = @ \ {a}]>>)
        PROVE  IInv'
    <3>1. PICK x, y : /\ x = [pc |-> "settle.take", s |-> t.s, a |-> a]
                      /\ y = [t EXCEPT !.todo = @ \ {a}] /\ Become(w, <<x, y>>)
      BY <2>1
    <3>2. y.pc = t.pc /\ "pc" \in DOMAIN y
      BY <1>3, <3>1
    <3>3. x.pc = "settle.take" /\ "pc" \in DOMAIN x
      BY <3>1
    <3>4. QED
      BY <1>2, <3>1, <3>2, <3>3, PlainTwo DEF Plain
  <2>2. QED
    BY <1>1, <1>2, <1>8, <2>1, QuietReturn DEF CloseRest
<1>9. QED
  BY <1>5, <1>6, <1>7, <1>8 DEF CloseStep

LEMMA Sweeps ==
  ASSUME IInv, SameRecords, NEW w \in Worker, SweepNext(w)
  PROVE  IInv'
<1>1. PICK t : t = Top(w)
  OBVIOUS
<1>2. task[w] # <<>> /\ t.pc = "sweep"
  BY <1>1 DEF SweepNext, Doing, Idle
<1>3. "pc" \in DOMAIN t
  BY <1>1, <1>2, Tops DEF Knows
<1>4. ASSUME NEW s, Become(w, <<Settle(s), [t EXCEPT !.todo = @ \ {s}]>>) PROVE IInv'
  <2>1. PICK x, y : x = Settle(s) /\ y = [t EXCEPT !.todo = @ \ {s}] /\ Become(w, <<x, y>>)
    BY <1>4
  <2>2. y.pc = "sweep" /\ "pc" \in DOMAIN y
    BY <1>2, <1>3, <2>1
  <2>3. x.pc = "settle.read" /\ "pc" \in DOMAIN x
    BY <2>1 DEF Settle
  <2>4. Plain(x) /\ ~Plain(t) /\ ~Saving(y) /\ ~Owning(y) /\ Knows(y)
    BY <1>2, <2>2, <2>3
    DEF Plain, Knows, Owning, Saving, Telling, Answering, Issues, Devices, Verifies, Polls
  <2>5. QED
    BY <1>1, <1>2, <2>1, <2>3, <2>4, PlainKnows, QuietTwo
<1>5. QED
  BY <1>1, <1>2, <1>4, QuietReturn DEF SweepNext

----------------------------------------------------------------------------
(* A frame that is not plain goes on under another pc.                     *)
LEMMA Goes ==
  ASSUME IInv, SameRecords, NEW w \in Worker, task[w] # <<>>, ~Plain(Top(w)), NEW pc, To(w, pc),
         Knows([Top(w) EXCEPT !.pc = pc]),
         LET x == [Top(w) EXCEPT !.pc = pc] IN ~Owning(x) \/ \A q : Alike(x, q) => Alike(Top(w), q)
  PROVE  IInv'
<1>1. PICK x : x = [Top(w) EXCEPT !.pc = pc]
  OBVIOUS
<1>2. Become(w, <<x>>)
  BY <1>1 DEF To
<1>3. QED
  BY <1>1, <1>2, QuietOne

(* To one that owns nothing, of what is known of such.                     *)
Idles == {"authorize.code", "verify.find", "verify.admit", "verify.decide", "poll.admit", "poll.take"}

LEMMA GoesIdle ==
  ASSUME IInv, SameRecords, NEW w \in Worker, task[w] # <<>>, NEW pc \in Idles, To(w, pc),
         Top(w).pc \in Devices, pc \in Verifies => Top(w).pc \in Verifies
  PROVE  IInv'
<1>1. PICK t, x : t = Top(w) /\ x = [t EXCEPT !.pc = pc]
  OBVIOUS
<1>2. Knows(t) /\ t.pc \in Devices /\ (pc \in Verifies => t.pc \in Verifies)
  BY <1>1, Tops
<1>3. DOMAIN x = DOMAIN t /\ x.pc = pc /\ \A f \in DOMAIN t \ {"pc"} : x[f] = t[f]
  BY <1>1, <1>2, Moved
<1>4. "d" \in DOMAIN t /\ t.d \in Device /\ x.d = t.d
  BY <1>2, <1>3 DEF Knows
<1>5. pc \notin {"authorize.save", "verify.tell", "poll.revoked", "poll.entry", "poll.answer"} \cup Issues
  BY DEF Idles, Issues
<1>6. ~Saving(x) /\ ~Telling(x) /\ ~Answering(x)
  BY <1>3, <1>5 DEF Saving, Telling, Answering, Issues
<1>7. Knows(x)
  <2>1. "pc" \in DOMAIN x /\ "d" \in DOMAIN x /\ x.d \in Device /\ x.pc \notin Issues
    BY <1>2, <1>3, <1>4, <1>5 DEF Knows
  <2>2. x.pc \in Verifies => "action" \in DOMAIN x
    BY <1>2, <1>3 DEF Knows
  <2>3. QED
    BY <1>6, <2>1, <2>2 DEF Knows
<1>8. ~Plain(t)
  BY <1>2 DEF Plain, Devices, Verifies, Polls
<1>9. QED
  BY <1>1, <1>6, <1>7, <1>8, Goes DEF Owning

LEMMA Issuing ==
  ASSUME IInv, SameRecords, NEW w \in Worker, IssueStep(w)
  PROVE  IInv'
<1>1. PICK t : t = Top(w)
  OBVIOUS
<1>2. task[w] # <<>> /\ t.pc \in Issues \cup {"issue.undo"} /\ ~Plain(t)
  BY <1>1 DEF IssueStep, IssueMake, IssueTold, IssueUndo, Doing, Idle, Issues, Plain
<1>3. Knows(t)
  BY <1>1, <1>2, Tops
<1>4. CASE IssueMake(w)
  <2>1. t.pc = "issue.make" /\ {"d", "then"} \subseteq DOMAIN t
    BY <1>1, <1>3, <1>4 DEF IssueMake, Doing, Knows, Issues
  <2>2. ASSUME NEW a, Become(w, <<Record(t.s, a), [pc |-> "issue.told", s |-> t.s, then |-> t.then, d |-> t.d, a |-> a]>>)
        PROVE  IInv'
    <3>1. PICK x, y : /\ x = Record(t.s, a)
                      /\ y = [pc |-> "issue.told", s |-> t.s, then |-> t.then, d |-> t.d, a |-> a]
                      /\ Become(w, <<x, y>>)
      BY <2>2
    <3>2. y.pc = "issue.told" /\ y.then = t.then /\ y.d = t.d /\ {"pc", "d", "then"} \subseteq DOMAIN y
      BY <3>1
    <3>3. x.pc = "record.index" /\ "pc" \in DOMAIN x
      BY <3>1 DEF Record
    <3>4. Plain(x) /\ Knows(x) /\ ~Saving(y) /\ ~Telling(y) /\ (Answering(y) <=> Answering(t))
      BY <2>1, <3>2, <3>3, PlainKnows DEF Plain, Saving, Telling, Answering, Issues
    <3>5. Knows(y)
      BY <1>3, <2>1, <3>2, <3>4 DEF Knows, Issues, Devices, Verifies, Polls
    <3>6. \A q : Alike(y, q) => Alike(t, q)
      BY <3>2, <3>4 DEF Alike
    <3>7. QED
      BY <1>1, <1>2, <3>1, <3>4, <3>5, <3>6, QuietTwo
  <2>3. QED
    BY <1>1, <1>2, <1>4, <2>2, QuietReturn DEF IssueMake
<1>5. CASE IssueTold(w)
  <2>1. PICK pc, x : pc = t.then /\ x = [t EXCEPT !.pc = pc]
    OBVIOUS
  <2>2. t.pc = "issue.told" /\ {"d", "then"} \subseteq DOMAIN t /\ pc \in {"session.keep", "poll.answer"}
    BY <1>1, <1>3, <1>5, <2>1 DEF IssueTold, Doing, Knows, Issues
  <2>3. x.pc = pc /\ x.d = t.d /\ DOMAIN x = DOMAIN t
    BY <1>3, <2>1, <2>2, Moved
  <2>4. ~Saving(x) /\ ~Telling(x) /\ (Answering(x) <=> Answering(t))
    BY <2>1, <2>2, <2>3 DEF Saving, Telling, Answering, Issues
  <2>5. Knows(x)
    BY <1>3, <2>1, <2>2, <2>3, <2>4 DEF Knows, Issues, Devices, Verifies, Polls
  <2>6. \A q : Alike(x, q) => Alike(t, q)
    BY <2>3, <2>4 DEF Alike
  <2>7. QED
    BY <1>1, <1>2, <1>5, <2>1, <2>5, <2>6, Goes DEF IssueTold
<1>6. CASE IssueUndo(w)
  BY <1>6, Thrown DEF IssueUndo, Throw
<1>7. QED
  BY <1>4, <1>5, <1>6 DEF IssueStep

LEMMA Sessions ==
  ASSUME IInv, SameRecords, NEW w \in Worker, SessionStep(w)
  PROVE  IInv'
<1>1. PICK t : t = Top(w)
  OBVIOUS
<1>2. task[w] # <<>> /\ ~Plain(t)
  BY <1>1 DEF SessionStep, SessionEnter, SessionKeep, SessionUndo, Doing, Idle, Plain
<1>3. Knows(t)
  BY <1>1, <1>2, Tops
<1>4. CASE SessionEnter(w)
  <2>1. ASSUME NEW x, x = Issue(t.s, "session.keep", "none"), Become(w, <<x>>) PROVE IInv'
    <3>1. x.pc = "issue.make" /\ x.then = "session.keep" /\ {"pc", "d", "then"} \subseteq DOMAIN x
      BY <2>1 DEF Issue
    <3>2. ~Owning(x)
      BY <3>1 DEF Owning, Saving, Telling, Answering
    <3>3. Knows(x)
      BY <3>1, <3>2 DEF Knows, Owning, Issues, Devices, Verifies, Polls
    <3>4. QED
      BY <1>1, <1>2, <2>1, <3>2, <3>3, QuietOne
  <2>2. QED
    BY <1>1, <1>2, <1>4, <2>1, QuietReturn DEF SessionEnter, Return
<1>5. CASE SessionKeep(w)
  <2>1. ASSUME To(w, "session.undo") PROVE IInv'
    <3>1. PICK x : x = [t EXCEPT !.pc = "session.undo"]
      OBVIOUS
    <3>2. x.pc = "session.undo" /\ "pc" \in DOMAIN x
      BY <1>3, <3>1, Moved DEF Knows
    <3>3. ~Owning(x) /\ Knows(x)
      BY <3>2 DEF Knows, Owning, Saving, Telling, Answering, Issues, Devices, Verifies, Polls
    <3>4. QED
      BY <1>1, <1>2, <2>1, <3>1, <3>3, Goes
  <2>2. QED
    BY <1>1, <1>2, <1>5, <2>1, QuietReturn DEF SessionKeep
<1>6. CASE SessionUndo(w)
  BY <1>2, <1>6, QuietReturn DEF SessionUndo
<1>7. QED
  BY <1>4, <1>5, <1>6 DEF SessionStep

----------------------------------------------------------------------------
(* Steps that write of a device.                                           *)
LEMMA Undecided ==
  ASSUME IInv, NEW d \in Device, device[d].state \in {"none", "pending"}
  PROVE  /\ device[d] = IF device[d].state = "none" THEN NoDevice ELSE InState("pending")
         /\ \A action : ~Marked(action, d)
         /\ ~Taken(d)
         /\ \A x \in told \cup answers : x[1] # d
<1>1. DeviceFine(d)
  BY DEF IInv, RecordsFine
<1>2. device[d] \in {NoDevice, InState("pending")}
  BY <1>1 DEF DeviceFine, NoDevice, InState
<1>3. (\A action : ~Marked(action, d)) /\ ~Taken(d)
  BY <1>2 DEF Marked, Taken, Approved, NoDevice, InState
<1>4. \A x \in told \cup answers : x[1] # d
  BY <1>3 DEF IInv, RecordsFine
<1>5. QED
  BY <1>2, <1>3, <1>4 DEF NoDevice, InState

(* What a frame knows but of d lasts.                                      *)
LEMMA KnowsElse ==
  ASSUME NEW r, Knows(r), NEW d \in Device,
         \A e \in Device \ {d} : device'[e] = device[e],
         \A x \in told' : x[1] = d \/ x \in told,
         \A x \in answers' : x[1] = d \/ x \in answers,
         Saving(r) => r.d # d,
         Telling(r) /\ r.d = d => Marked(r.action, d)' /\ \A x \in told' : x[1] # d,
         Answering(r) /\ r.d = d => Taken(d)' /\ \A x \in answers' : x[1] # d
  PROVE  Knows(r)'
<1>1. Owning(r) => r.d \in Device
  BY DEF Knows, Owning, Saving, Telling, Answering, Devices, Verifies, Polls, Issues
<1>2. Saving(r) => device'[r.d] = NoDevice
  BY <1>1 DEF Knows, Owning
<1>3. ASSUME Telling(r) PROVE Marked(r.action, r.d)' /\ \A x \in told' : x[1] # r.d
  BY <1>1, <1>3 DEF Knows, Owning, Marked, Approved
<1>4. ASSUME Answering(r) PROVE Taken(r.d)' /\ \A x \in answers' : x[1] # r.d
  BY <1>1, <1>4 DEF Knows, Owning, Taken, Approved
<1>5. QED
  BY <1>2, <1>3, <1>4 DEF Knows

LEMMA RecordsElse ==
  ASSUME IInv, NEW d \in Device, DOMAIN device' = Device,
         \A e \in Device \ {d} : device'[e] = device[e], told' = told, answers' = answers, coded' = coded,
         DeviceFine(d)', \A action : Marked(action, d) => Marked(action, d)', Taken(d) => Taken(d)'
  PROVE  RecordsFine'
<1>1. ASSUME NEW e \in Device \ {d}
      PROVE  /\ DeviceFine(e) => DeviceFine(e)'
             /\ Taken(e) => Taken(e)'
             /\ \A action : Marked(action, e) => Marked(action, e)'
  BY DEF DeviceFine, Marked, Taken, Approved
<1>2. \A e \in Device : DeviceFine(e)'
  BY <1>1 DEF IInv, RecordsFine
<1>3. \A x \in told' : x[1] \in Device /\ Marked(x[2], x[1])'
  BY <1>1 DEF IInv, RecordsFine
<1>4. \A x \in answers' : x[1] \in Device /\ Taken(x[1])'
  BY <1>1 DEF IInv, RecordsFine
<1>5. QED
  BY <1>2, <1>3, <1>4 DEF IInv, RecordsFine

(* The frame that is not plain is the whole of the stack.                  *)
LEMMA Alone ==
  ASSUME IInv, NEW w \in Worker, task[w] # <<>>, ~Plain(Top(w)), NEW a, IsStack(a), Become(w, a)
  PROVE  task' = [task EXCEPT ![w] = a]
<1>0. PICK s : s = task[w]
  OBVIOUS
<1>1. IsStack(s) /\ Len(s) = 1 /\ s # <<>>
  BY <1>0, Tops
<1>2. PICK S, T : s \in Seq(S) /\ a \in Seq(T)
  BY <1>1 DEF IsStack
<1>3. Tail(s) = <<>>
  <2>1. Tail(s) \in Seq(S) /\ Len(Tail(s)) = 0
    BY <1>1, <1>2
  <2>2. \A z \in Seq(S) : Len(z) = 0 => z = <<>>
    OBVIOUS
  <2>3. QED
    BY <2>1, <2>2
<1>4. a \o <<>> = a
  BY <1>2
<1>5. QED
  BY <1>0, <1>3, <1>4 DEF Become

LEMMA WrittenOne ==
  ASSUME IInv, RecordsFine', NEW w \in Worker, task[w] # <<>>, ~Plain(Top(w)), NEW x, Become(w, <<x>>),
         Knows(x)', \A q : Alike(x, q) => \A v \in Worker \ {w} : ~In(q, task[v]),
         \A v \in Worker \ {w} : \A r : In(r, task[v]) => Knows(r)'
  PROVE  IInv'
<1>1. PICK n : n = <<x>>
  OBVIOUS
<1>2. IsStack(n) /\ Len(n) = 1 /\ \A r : In(r, n) => r = x
  BY <1>1, Tuples, InTuples
<1>3. Shape(n)
  <2>1. \A i \in 1 .. Len(n) : ~(i < Len(n)) /\ ~(i > 1)
    BY <1>2
  <2>2. QED
    BY <1>2, <2>1 DEF Shape
<1>4. task' = [task EXCEPT ![w] = n]
  BY <1>1, <1>2, Alone
<1>5. \A r : In(r, n) => Knows(r)'
  BY <1>2
<1>6. QED
  BY <1>2, <1>3, <1>4, <1>5, Step

LEMMA WrittenReturn ==
  ASSUME IInv, RecordsFine', NEW w \in Worker, task[w] # <<>>, ~Plain(Top(w)), Return(w),
         \A v \in Worker \ {w} : \A r : In(r, task[v]) => Knows(r)'
  PROVE  IInv'
<1>1. PICK n : n = <<>>
  OBVIOUS
<1>2. IsStack(n) /\ Len(n) = 0 /\ \A r : ~In(r, n)
  BY <1>1, Tuples, InTuples
<1>3. Shape(n)
  <2>1. \A i \in 1 .. Len(n) : FALSE
    BY <1>2
  <2>2. QED
    BY <1>2, <2>1 DEF Shape
<1>4. task' = [task EXCEPT ![w] = n]
  BY <1>1, <1>2, Alone DEF Return
<1>5. QED
  BY <1>2, <1>3, <1>4, Step

LEMMA Authorizes ==
  ASSUME IInv, NEW w \in Worker, AuthorizeSave(w)
  PROVE  IInv'
<1>1. PICK t, d, x : t = Top(w) /\ d = t.d /\ x = [t EXCEPT !.pc = "authorize.code"]
  OBVIOUS
<1>2. /\ task[w] # <<>> /\ t.pc = "authorize.save" /\ Become(w, <<x>>)
      /\ device' = [device EXCEPT ![d] = InState("pending")] /\ told' = told /\ answers' = answers /\ coded' = coded
  BY <1>1 DEF AuthorizeSave, Doing, Idle, To
<1>3. Knows(t) /\ ~Plain(t) /\ In(t, task[w])
  BY <1>1, <1>2, Tops DEF Plain
<1>4. Saving(t) /\ d \in Device /\ device[d] = NoDevice /\ "d" \in DOMAIN t
  BY <1>1, <1>2, <1>3 DEF Knows, Saving, Devices
<1>5. DOMAIN device = Device
  BY DEF IInv, RecordsFine
<1>6. device'[d] = InState("pending") /\ DOMAIN device' = Device
      /\ \A e \in Device \ {d} : device'[e] = device[e]
  BY <1>2, <1>4, <1>5
<1>7. (\A action : ~Marked(action, d)) /\ ~Taken(d)
  BY <1>4, Undecided DEF NoDevice
<1>8. RecordsFine'
  BY <1>2, <1>4, <1>6, <1>7, RecordsElse DEF DeviceFine
<1>9. ASSUME NEW v \in Worker \ {w}, NEW r, In(r, task[v]) PROVE Knows(r)'
  <2>1. Knows(r)
    BY <1>9 DEF IInv
  <2>2. Saving(r) => r.d # d
    BY <1>1, <1>3, <1>4, <1>9, Apart DEF Alike
  <2>3. ~(Telling(r) /\ r.d = d) /\ ~(Answering(r) /\ r.d = d)
    BY <1>7, <2>1 DEF Knows
  <2>4. QED
    BY <1>2, <1>4, <1>6, <2>1, <2>2, <2>3, KnowsElse
<1>10. Knows(x)' /\ ~Owning(x)
  <2>1. x.pc = "authorize.code" /\ x.d = d /\ {"pc", "d"} \subseteq DOMAIN x
    BY <1>1, <1>3, <1>4, Moved DEF Knows
  <2>2. QED
    BY <1>4, <2>1 DEF Knows, Owning, Saving, Telling, Answering, Issues, Devices, Verifies, Polls
<1>11. QED
  BY <1>1, <1>2, <1>3, <1>8, <1>9, <1>10, PlainOwns, WrittenOne

LEMMA Verify ==
  ASSUME IInv, NEW w \in Worker,
         \/ SameRecords /\ (VerifyEnter(w) \/ VerifyFind(w) \/ VerifyAdmit(w))
         \/ VerifyDecide(w) \/ VerifyTell(w)
  PROVE  IInv'
<1>1. PICK t, d : t = Top(w) /\ d = t.d
  OBVIOUS
<1>2. task[w] # <<>> /\ t.pc \in Verifies /\ t.pc \in Devices /\ ~Plain(t)
  BY <1>1 DEF VerifyEnter, VerifyFind, VerifyAdmit, VerifyDecide, VerifyTell, Doing, Idle, Verifies, Devices, Plain
<1>3. Knows(t) /\ In(t, task[w]) /\ d \in Device /\ {"pc", "d", "action"} \subseteq DOMAIN t
  BY <1>1, <1>2, Tops DEF Knows
<1>4. ASSUME SameRecords, NEW pc \in {"verify.find", "verify.admit", "verify.decide"}, To(w, pc) PROVE IInv'
  BY <1>1, <1>2, <1>4, GoesIdle DEF Idles
<1>5. ASSUME SameRecords, Return(w) PROVE IInv'
  BY <1>2, <1>5, QuietReturn
<1>6. CASE SameRecords /\ VerifyEnter(w)
  BY <1>4, <1>5, <1>6 DEF VerifyEnter
<1>7. CASE SameRecords /\ VerifyFind(w)
  <2>1. Return(w) \/ To(w, "verify.admit") \/ To(w, "verify.decide")
    BY <1>7 DEF VerifyFind
  <2>2. QED
    BY <1>4, <1>5, <1>7, <2>1
<1>8. CASE SameRecords /\ VerifyAdmit(w)
  BY <1>4, <1>5, <1>8 DEF VerifyAdmit
<1>9. CASE VerifyDecide(w) /\ Return(w) /\ UNCHANGED device
  BY <1>2, <1>5, <1>9 DEF VerifyDecide, SameRecords
<1>10. CASE VerifyDecide(w) /\ ~(Return(w) /\ UNCHANGED device)
  <2>1. PICK x, b : x = [t EXCEPT !.pc = "verify.tell"] /\ b = Decided(t)
    OBVIOUS
  <2>2. /\ device[d].state = "pending" /\ Become(w, <<x>>)
        /\ device' = [device EXCEPT ![d] = b] /\ told' = told /\ answers' = answers /\ coded' = coded
    BY <1>1, <1>10, <2>1 DEF VerifyDecide, To
  <2>3. DOMAIN device = Device
    BY DEF IInv, RecordsFine
  <2>4. device'[d] = b /\ DOMAIN device' = Device /\ \A e \in Device \ {d} : device'[e] = device[e]
    BY <1>3, <2>2, <2>3
  <2>5. /\ device[d] = InState("pending") /\ ~Taken(d)
        /\ \A action : ~Marked(action, d)
        /\ \A z \in told : z[1] # d
    BY <1>3, <2>2, Undecided
  <2>6. DeviceFine(d)' /\ Marked(t.action, d)'
    BY <2>1, <2>4 DEF DeviceFine, Marked, Approved, Decided, ApprovedBy, InState
  <2>7. RecordsFine'
    BY <1>3, <2>2, <2>4, <2>5, <2>6, RecordsElse
  <2>8. ASSUME NEW r, Knows(r) PROVE Knows(r)' /\ ~(Telling(r) /\ r.d = d)
    <3>1. ~(Telling(r) /\ r.d = d) /\ ~(Answering(r) /\ r.d = d)
      BY <2>5, <2>8 DEF Knows
    <3>2. Saving(r) => r.d # d
      BY <2>2, <2>8 DEF Knows, NoDevice
    <3>3. QED
      BY <1>3, <2>2, <2>4, <2>8, <3>1, <3>2, KnowsElse
  <2>9. x.pc = "verify.tell" /\ x.d = d /\ x.action = t.action /\ {"pc", "d", "action"} \subseteq DOMAIN x
    BY <1>1, <1>3, <2>1, Moved
  <2>10. Knows(x)'
    BY <1>3, <2>2, <2>5, <2>6, <2>9 DEF Knows, Saving, Telling, Answering, Issues, Devices, Verifies
  <2>11. ASSUME NEW q, Alike(x, q), NEW v \in Worker \ {w} PROVE ~In(q, task[v])
    <3>1. Telling(q) /\ q.d = d
      BY <2>9, <2>11 DEF Alike, Saving, Telling, Answering, Issues
    <3>2. QED
      BY <2>8, <3>1 DEF IInv
  <2>12. QED
    BY <1>1, <1>2, <2>2, <2>7, <2>8, <2>10, <2>11, WrittenOne DEF IInv
<1>11. CASE VerifyTell(w)
  <2>1. PICK y : y = <<d, t.action, w>>
    OBVIOUS
  <2>2. /\ t.pc = "verify.tell" /\ Return(w)
        /\ told' = told \cup {y} /\ device' = device /\ answers' = answers /\ coded' = coded
    BY <1>1, <1>11, <2>1 DEF VerifyTell, Doing
  <2>3. y[1] = d /\ y[2] = t.action
    BY <2>1
  <2>4. Marked(t.action, d) /\ \A x \in told : x[1] # d
    BY <1>1, <1>3, <2>2 DEF Knows, Telling
  <2>5. RecordsFine'
    <3>1. \A x \in told' : x[1] \in Device /\ Marked(x[2], x[1])'
      BY <1>3, <2>2, <2>3, <2>4 DEF IInv, RecordsFine, Marked, Approved
    <3>2. \A x, z \in told' : x[1] = z[1] => x = z
      BY <2>2, <2>3, <2>4 DEF IInv, RecordsFine
    <3>3. QED
      BY <2>2, <3>1, <3>2 DEF IInv, RecordsFine, DeviceFine, Taken, Approved
  <2>6. ASSUME NEW v \in Worker \ {w}, NEW r, In(r, task[v]) PROVE Knows(r)'
    <3>1. Knows(r)
      BY <2>6 DEF IInv
    <3>2. ~(Telling(r) /\ r.d = d)
      BY <1>1, <1>3, <2>2, <2>6, Apart DEF Alike, Telling
    <3>3. Saving(r) => device[r.d] = NoDevice
      BY <3>1 DEF Knows
    <3>4. Telling(r) => Marked(r.action, r.d)' /\ \A x \in told' : x[1] # r.d
      BY <2>2, <2>3, <3>1, <3>2 DEF Knows, Marked, Approved
    <3>5. QED
      BY <2>2, <3>1, <3>4 DEF Knows, Taken, Approved
  <2>7. QED
    BY <1>1, <1>2, <2>2, <2>5, <2>6, WrittenReturn
<1>12. QED
  BY <1>6, <1>7, <1>8, <1>9, <1>10, <1>11

LEMMA Polled ==
  ASSUME IInv, SameRecords, NEW w \in Worker,
         PollRead(w) \/ PollOpen(w) \/ PollAdmit(w) \/ PollRevoked(w) \/ PollEntry(w)
  PROVE  IInv'
<1>1. PICK t, d : t = Top(w) /\ d = t.d
  OBVIOUS
<1>2. task[w] # <<>> /\ t.pc \in Polls /\ t.pc \in Devices /\ ~Plain(t)
  BY <1>1 DEF PollRead, PollOpen, PollAdmit, PollRevoked, PollEntry, Doing, Idle, Polls, Devices, Plain
<1>3. Knows(t) /\ d \in Device /\ {"pc", "d"} \subseteq DOMAIN t
  BY <1>1, <1>2, Tops DEF Knows
<1>4. ASSUME NEW pc \in {"poll.admit", "poll.take"}, To(w, pc) PROVE IInv'
  BY <1>1, <1>2, <1>4, GoesIdle DEF Idles, Verifies
<1>5. ASSUME Return(w) PROVE IInv'
  BY <1>2, <1>5, QuietReturn
<1>6. CASE PollRead(w)
  <2>1. ASSUME NEW s, Become(w, <<[t EXCEPT !.pc = "poll.open", !.s = s]>>) PROVE IInv'
    <3>1. PICK x : x = [t EXCEPT !.pc = "poll.open", !.s = s] /\ Become(w, <<x>>)
      BY <2>1
    <3>2. x.pc = "poll.open" /\ x.d = d /\ {"pc", "d"} \subseteq DOMAIN x
      BY <1>1, <1>3, <3>1
    <3>3. ~Owning(x)
      BY <3>2 DEF Owning, Saving, Telling, Answering, Issues
    <3>4. Knows(x)
      BY <1>3, <3>2, <3>3 DEF Knows, Owning, Issues, Verifies
    <3>5. QED
      BY <1>1, <1>2, <3>1, <3>3, <3>4, QuietOne
  <2>2. QED
    BY <1>1, <1>4, <1>6, <2>1 DEF PollRead
<1>7. CASE PollOpen(w)
  BY <1>4, <1>5, <1>7 DEF PollOpen
<1>8. CASE PollAdmit(w)
  BY <1>4, <1>5, <1>8 DEF PollAdmit
<1>9. CASE PollRevoked(w)
  <2>1. ASSUME To(w, "poll.entry") PROVE IInv'
    <3>1. PICK x : x = [t EXCEPT !.pc = "poll.entry"]
      OBVIOUS
    <3>2. x.pc = "poll.entry" /\ x.d = d /\ {"pc", "d"} \subseteq DOMAIN x
      BY <1>1, <1>3, <3>1, Moved
    <3>3. t.pc = "poll.revoked"
      BY <1>1, <1>9 DEF PollRevoked, Doing
    <3>4. Answering(t) /\ Answering(x) /\ ~Saving(x) /\ ~Telling(x)
      BY <3>2, <3>3 DEF Saving, Telling, Answering
    <3>5. Knows(x)
      BY <1>1, <1>3, <3>2, <3>4 DEF Knows, Issues, Verifies
    <3>6. \A q : Alike(x, q) => Alike(t, q)
      BY <1>1, <3>2, <3>4 DEF Alike
    <3>7. QED
      BY <1>1, <1>2, <2>1, <3>1, <3>5, <3>6, Goes
  <2>2. QED
    BY <1>5, <1>9, <2>1 DEF PollRevoked
<1>10. CASE PollEntry(w)
  <2>1. ASSUME Become(w, <<Issue(t.s, "poll.answer", d)>>) PROVE IInv'
    <3>1. PICK x : x = Issue(t.s, "poll.answer", d) /\ Become(w, <<x>>)
      BY <2>1
    <3>2. x.pc = "issue.make" /\ x.then = "poll.answer" /\ x.d = d /\ {"pc", "d", "then"} \subseteq DOMAIN x
      BY <3>1 DEF Issue
    <3>3. t.pc = "poll.entry"
      BY <1>1, <1>10 DEF PollEntry, Doing
    <3>4. Answering(t) /\ Answering(x) /\ ~Saving(x) /\ ~Telling(x)
      BY <3>2, <3>3 DEF Saving, Telling, Answering, Issues
    <3>5. Knows(x)
      BY <1>1, <1>3, <3>2, <3>4 DEF Knows, Issues, Devices, Verifies, Polls
    <3>6. \A q : Alike(x, q) => Alike(t, q)
      BY <1>1, <3>2, <3>4 DEF Alike
    <3>7. QED
      BY <1>1, <1>2, <3>1, <3>5, <3>6, QuietOne
  <2>2. QED
    BY <1>1, <1>5, <1>10, <2>1 DEF PollEntry, Return
<1>11. QED
  BY <1>6, <1>7, <1>8, <1>9, <1>10

(* A decision is taken.                                                    *)
LEMMA Takes ==
  ASSUME IInv, NEW w \in Worker, PollTake(w)
  PROVE  IInv'
<1>1. PICK t, d : t = Top(w) /\ d = t.d
  OBVIOUS
<1>2. task[w] # <<>> /\ t.pc = "poll.take" /\ ~Plain(t) /\ told' = told /\ answers' = answers /\ coded' = coded
  BY <1>1 DEF PollTake, Doing, Idle, Plain
<1>3. Knows(t) /\ d \in Device /\ {"pc", "d"} \subseteq DOMAIN t
  BY <1>1, <1>2, Tops DEF Knows, Devices, Polls
<1>4. DOMAIN device = Device /\ DeviceFine(d)
  BY <1>3 DEF IInv, RecordsFine
<1>5. CASE Return(w) /\ UNCHANGED device
  BY <1>2, <1>5, QuietReturn DEF SameRecords
<1>6. ASSUME device[d].state \in {"approved", "denied"}, device' = [device EXCEPT ![d].state = "taken"]
      PROVE  /\ RecordsFine'
             /\ \A r : Knows(r) => Knows(r)'
             /\ device[d].state = "approved" => Taken(d)' /\ ~Taken(d) /\ \A x \in answers : x[1] # d
  <2>1. /\ DOMAIN device' = Device /\ \A e \in Device \ {d} : device'[e] = device[e]
        /\ device'[d] = [device[d] EXCEPT !.state = "taken"]
    BY <1>3, <1>4, <1>6
  <2>2. \/ device[d] = InState("denied")
        \/ DOMAIN device[d] = {"state", "session"} /\ device[d].state = "approved"
    <3>1. NoDevice.state = "none" /\ \A st : InState(st).state = st
      BY DEF NoDevice, InState
    <3>2. QED
      BY <1>4, <1>6, <3>1 DEF DeviceFine
  <2>3. DOMAIN device'[d] = DOMAIN device[d] /\ device'[d].state = "taken"
    BY <2>1, <2>2 DEF InState
  <2>4. DeviceFine(d)'
    BY <2>1, <2>2, <2>3 DEF DeviceFine, InState
  <2>5. /\ \A action : Marked(action, d) => Marked(action, d)'
        /\ Taken(d) => Taken(d)'
    BY <2>3 DEF Marked, Taken, Approved
  <2>6. RecordsFine'
    BY <1>2, <1>3, <2>1, <2>4, <2>5, RecordsElse
  <2>7. ASSUME NEW r, Knows(r) PROVE Knows(r)'
    <3>1. Saving(r) => r.d # d
      BY <1>6, <2>7 DEF Knows, NoDevice
    <3>2. Telling(r) /\ r.d = d => Marked(r.action, d)' /\ \A x \in told' : x[1] # d
      BY <1>2, <2>5, <2>7 DEF Knows
    <3>3. Answering(r) /\ r.d = d => Taken(d)' /\ \A x \in answers' : x[1] # d
      BY <1>2, <2>5, <2>7 DEF Knows
    <3>4. QED
      BY <1>2, <1>3, <2>1, <2>7, <3>1, <3>2, <3>3, KnowsElse
  <2>8. ASSUME device[d].state = "approved" PROVE Taken(d)' /\ ~Taken(d) /\ \A x \in answers : x[1] # d
    <3>1. ~Taken(d)
      BY <2>8 DEF Taken
    <3>2. Approved(d)
      BY <2>2, <2>8 DEF Approved, InState
    <3>3. Taken(d)'
      BY <2>3, <3>2 DEF Taken, Approved
    <3>4. QED
      BY <3>1, <3>3 DEF IInv, RecordsFine
  <2>9. QED
    BY <2>6, <2>7, <2>8
<1>7. ASSUME device[d].state = "denied", device' = [device EXCEPT ![d].state = "taken"], Return(w)
      PROVE  IInv'
  BY <1>1, <1>2, <1>6, <1>7, WrittenReturn DEF IInv
<1>8. ASSUME NEW s, device[d].state = "approved", device' = [device EXCEPT ![d].state = "taken"],
             Become(w, <<[t EXCEPT !.pc = "poll.revoked", !.s = s]>>)
      PROVE  IInv'
  <2>1. PICK x : x = [t EXCEPT !.pc = "poll.revoked", !.s = s] /\ Become(w, <<x>>)
    BY <1>8
  <2>2. x.pc = "poll.revoked" /\ x.d = d /\ {"pc", "d"} \subseteq DOMAIN x
    BY <1>1, <1>3, <2>1
  <2>3. Answering(x) /\ ~Saving(x) /\ ~Telling(x)
    BY <2>2 DEF Saving, Telling, Answering
  <2>4. Taken(d)' /\ ~Taken(d) /\ \A z \in answers' : z[1] # d
    BY <1>2, <1>6, <1>8
  <2>5. Knows(x)'
    BY <1>3, <2>2, <2>3, <2>4 DEF Knows, Issues, Verifies
  <2>6. ASSUME NEW q, Alike(x, q), NEW v \in Worker \ {w} PROVE ~In(q, task[v])
    BY <2>2, <2>3, <2>4, <2>6 DEF Alike, IInv, Knows
  <2>7. QED
    BY <1>1, <1>2, <1>6, <1>8, <2>1, <2>5, <2>6, WrittenOne DEF IInv
<1>9. QED
  BY <1>1, <1>5, <1>7, <1>8 DEF PollTake

LEMMA Answers ==
  ASSUME IInv, NEW w \in Worker, PollAnswer(w)
  PROVE  IInv'
<1>1. PICK t, d, y : t = Top(w) /\ d = t.d /\ y = <<d, t.a>>
  OBVIOUS
<1>2. /\ task[w] # <<>> /\ t.pc = "poll.answer" /\ ~Plain(t) /\ Return(w)
      /\ told' = told /\ device' = device /\ coded' = coded
      /\ answers' = answers \/ answers' = answers \cup {y}
  BY <1>1 DEF PollAnswer, Doing, Idle, Plain
<1>3. Knows(t) /\ In(t, task[w]) /\ Answering(t)
  BY <1>1, <1>2, Tops DEF Answering
<1>4. d \in Device /\ Taken(d) /\ y[1] = d /\ \A x \in answers : x[1] # d
  BY <1>1, <1>2, <1>3 DEF Knows, Devices, Polls
<1>5. RecordsFine'
  <2>1. \A x \in answers' : x[1] \in Device /\ Taken(x[1])'
    BY <1>2, <1>4 DEF IInv, RecordsFine, Taken, Approved
  <2>2. \A x, z \in answers' : x[1] = z[1] => x = z
    BY <1>2, <1>4 DEF IInv, RecordsFine
  <2>3. QED
    BY <1>2, <2>1, <2>2 DEF IInv, RecordsFine, DeviceFine, Marked, Approved
<1>6. ASSUME NEW v \in Worker \ {w}, NEW r, In(r, task[v]) PROVE Knows(r)'
  <2>1. Knows(r)
    BY <1>6 DEF IInv
  <2>2. ~(Answering(r) /\ r.d = d)
    BY <1>1, <1>3, <1>6, Apart DEF Alike
  <2>3. Answering(r) => Taken(r.d)' /\ \A x \in answers' : x[1] # r.d
    BY <1>2, <1>4, <2>1, <2>2 DEF Knows, Taken, Approved
  <2>4. QED
    BY <1>2, <2>1, <2>3 DEF Knows, Marked, Approved
<1>7. QED
  BY <1>1, <1>2, <1>5, <1>6, WrittenReturn

----------------------------------------------------------------------------
LEMMA Begins ==
  ASSUME IInv, SameRecords, NEW w \in Worker,
         BeginDevice(w) \/ BeginVerify(w) \/ BeginPoll(w) \/ BeginSession(w) \/ BeginClose(w) \/ BeginSweep(w)
  PROVE  IInv'
<1>1. ASSUME NEW x, Start(w, <<x>>), "pc" \in DOMAIN x, x.pc \notin Issues, ~Owning(x),
             x.pc \in Devices => "d" \in DOMAIN x /\ x.d \in Device, x.pc \in Verifies => "action" \in DOMAIN x
      PROVE  IInv'
  BY <1>1, PlainOwns, Begun DEF Knows, Owning
<1>2. CASE BeginDevice(w)
  <2>1. PICK d, x : /\ d \in Device /\ device[d] = NoDevice
                    /\ ~\E v \in Worker : Doing(v, "authorize.save") /\ Top(v).d = d
                    /\ x = [pc |-> "authorize.save", s |-> "none", d |-> d]
                    /\ Start(w, <<x>>)
    BY <1>2 DEF BeginDevice, Begin
  <2>2. x.pc = "authorize.save" /\ x.d = d /\ {"pc", "d"} \subseteq DOMAIN x
    BY <2>1
  <2>3. Knows(x)
    BY <2>1, <2>2 DEF Knows, Saving, Telling, Answering, Issues, Verifies
  <2>4. ASSUME NEW q, Alike(x, q), NEW v \in Worker, In(q, task[v]) PROVE FALSE
    <3>1. Saving(q) /\ q.d = d
      BY <2>2, <2>4 DEF Alike, Saving, Telling, Answering, Issues
    <3>2. PICK s : s = task[v]
      OBVIOUS
    <3>3. Shape(s) /\ In(q, s)
      BY <2>4, <3>2 DEF IInv
    <3>4. PICK i \in 1 .. Len(s) : q = s[i]
      BY <3>3 DEF In
    <3>5. i = 1
      BY <3>1, <3>3, <3>4 DEF Shape
    <3>6. s # <<>>
      BY <3>4, Tuples
    <3>7. Head(s) = q
      BY <3>3, <3>4, <3>5, <3>6, IsStackParts DEF Shape
    <3>8. QED
      BY <2>1, <3>1, <3>2, <3>6, <3>7 DEF Doing, Idle, Top, Saving
  <2>5. QED
    BY <2>1, <2>3, <2>4, Begun
<1>3. CASE BeginVerify(w)
  <2>1. PICK d, s, action, x : /\ d \in Device /\ Start(w, <<x>>)
                               /\ x = [pc |-> "verify.enter", s |-> s, d |-> d, action |-> action]
    BY <1>3 DEF BeginVerify, Begin, IInv, RecordsFine
  <2>2. x.pc = "verify.enter" /\ x.d = d /\ {"pc", "d", "action"} \subseteq DOMAIN x
    BY <2>1
  <2>3. QED
    BY <1>1, <2>1, <2>2 DEF Issues, Owning, Saving, Telling, Answering
<1>4. CASE BeginPoll(w)
  <2>1. PICK d, x : d \in Device /\ x = [pc |-> "poll.read", s |-> "none", d |-> d] /\ Start(w, <<x>>)
    BY <1>4 DEF BeginPoll, Begin
  <2>2. x.pc = "poll.read" /\ x.d = d /\ {"pc", "d"} \subseteq DOMAIN x
    BY <2>1
  <2>3. QED
    BY <1>1, <2>1, <2>2 DEF Issues, Verifies, Owning, Saving, Telling, Answering
<1>5. ASSUME NEW x, Start(w, <<x>>), "pc" \in DOMAIN x, x.pc \in {"session.enter", "close.held", "sweep"}
      PROVE  IInv'
  BY <1>1, <1>5 DEF Issues, Devices, Verifies, Polls, Owning, Saving, Telling, Answering
<1>6. CASE BeginSession(w)
  BY <1>5, <1>6 DEF BeginSession, Begin
<1>7. CASE BeginClose(w)
  BY <1>5, <1>7 DEF BeginClose, Begin
<1>8. CASE BeginSweep(w)
  BY <1>5, <1>8 DEF BeginSweep, Begin
<1>9. QED
  BY <1>2, <1>3, <1>4, <1>6, <1>7, <1>8

LEMMA Codes ==
  ASSUME IInv, NEW w \in Worker, AuthorizeCode(w)
  PROVE  IInv'
<1>1. PICK t : t = Top(w)
  OBVIOUS
<1>2. /\ task[w] # <<>> /\ t.pc = "authorize.code" /\ ~Plain(t) /\ Return(w) /\ coded' = coded \cup {t.d}
      /\ device' = device /\ told' = told /\ answers' = answers
  BY <1>1 DEF AuthorizeCode, Doing, Idle, Plain
<1>3. t.d \in Device
  BY <1>1, <1>2, Tops DEF Knows, Devices
<1>4. RecordsFine'
  BY <1>2, <1>3 DEF IInv, RecordsFine, DeviceFine, Marked, Approved, Taken
<1>5. \A r : Knows(r) => Knows(r)'
  BY <1>2 DEF Knows, Marked, Approved, Taken
<1>6. QED
  BY <1>1, <1>2, <1>4, <1>5, WrittenReturn DEF IInv

LEMMA Stutters ==
  ASSUME IInv, SameRecords, UNCHANGED task
  PROVE  IInv'
<1>1. task' = task /\ RecordsFine' /\ \A r : Knows(r) => Knows(r)'
  BY KnowsSame
<1>2. QED
  BY <1>1 DEF IInv, Clash

LEMMA Starts == Init => IInv
<1> SUFFICES ASSUME Init PROVE IInv
  OBVIOUS
<1>1. /\ DOMAIN task = Worker /\ \A w \in Worker : task[w] = <<>>
      /\ DOMAIN device = Device /\ \A d \in Device : device[d] = NoDevice
      /\ coded = {} /\ told = {} /\ answers = {}
  BY DEF Init, SessionTokensInit
<1>2. IsStack(<<>>) /\ Len(<<>>) = 0 /\ \A r : ~In(r, <<>>)
  BY Tuples, InTuples
<1>3. \A i \in 1 .. Len(<<>>) : FALSE
  BY <1>2
<1>4. Shape(<<>>)
  BY <1>2, <1>3 DEF Shape
<1>5. RecordsFine
  BY <1>1 DEF RecordsFine, DeviceFine
<1>6. \A v, w \in Worker : ~Clash(v, w)
  BY <1>1, <1>2 DEF Clash
<1>7. QED
  BY <1>1, <1>2, <1>4, <1>5, <1>6 DEF IInv

LEMMA Steps == IInv /\ [Next]_allVars => IInv'
<1> SUFFICES ASSUME IInv, [Next]_allVars PROVE IInv'
  OBVIOUS
<1>1. CASE UNCHANGED allVars
  BY <1>1, Stutters DEF allVars, vars, deviceVars, SameRecords
<1>2. CASE SessionTokensNext /\ UNCHANGED deviceVars
  <2>1. SameRecords
    BY <1>2 DEF deviceVars, SameRecords
  <2>2. ASSUME NEW w \in Worker, Fails(w) \/ Crash(w) PROVE IInv'
    <3>1. PICK n : task' = [task EXCEPT ![w] = n] /\ (n = Unwound(task[w]) \/ n = <<>>)
      BY <2>2 DEF Fails, Crash, Throw, Drop
    <3>2. QED
      BY <2>1, <3>1, Thrown
  <2>3. QED
    BY <1>2, <2>1, <2>2, Settles, Records, Closes, Sweeps, Issuing, Sessions, Begins
    DEF SessionTokensNext, Work
<1>3. ASSUME NEW w \in Worker, DeviceWork(w) PROVE IInv'
  <2>1. CASE VerifyEnter(w) \/ VerifyFind(w) \/ VerifyAdmit(w) \/ VerifyDecide(w) \/ VerifyTell(w)
    <3>1. SameRecords \/ VerifyDecide(w) \/ VerifyTell(w)
      BY <2>1 DEF VerifyEnter, VerifyFind, VerifyAdmit, deviceVars, SameRecords
    <3>2. QED
      BY <2>1, <3>1, Verify
  <2>2. CASE PollRead(w) \/ PollOpen(w) \/ PollAdmit(w) \/ PollRevoked(w) \/ PollEntry(w)
    <3>1. SameRecords
      BY <2>2 DEF PollRead, PollOpen, PollAdmit, PollRevoked, PollEntry, deviceVars, SameRecords
    <3>2. QED
      BY <2>2, <3>1, Polled
  <2>3. QED
    BY <1>3, <2>1, <2>2, Authorizes, Codes, Takes, Answers DEF DeviceWork
<1>4. ASSUME NEW w \in Worker, BeginDevice(w) \/ BeginVerify(w) \/ BeginPoll(w) PROVE IInv'
  <2>1. SameRecords
    BY <1>4 DEF BeginDevice, BeginVerify, BeginPoll, deviceVars, SameRecords
  <2>2. QED
    BY <1>4, <2>1, Begins
<1>5. ASSUME NEW d \in Device, DeviceEnds(d) PROVE IInv'
  BY <1>5, Stutters DEF DeviceEnds, SameRecords
<1>6. QED
  BY <1>1, <1>2, <1>3, <1>4, <1>5 DEF Next

(* However many browsers decide a device and polls ask for its decision,   *)
(* and whatever fails, stops or ends between their steps, one browser is   *)
(* told it decided, one poll is answered a token, and none where a denial  *)
(* was told: each rewrites the record it read (verification.ts decide;     *)
(* grant.ts polled).                                                       *)
THEOREM OneDecision == Spec => []DecidedOnce
BY Starts, Steps, Once, PTL DEF Spec

----------------------------------------------------------------------------
(***************************************************************************)
(* What the runs of MCDeviceGrant show of a closed session's tokens on     *)
(* small instances, for any number of grants, closings and sweeps at once, *)
(* any caps, whatever fails or stops: none a client was given is usable.   *)
(*                                                                         *)
(* A token given was recorded first, and one recorded is held, awaits or   *)
(* is denied ever after; so a close that reads what is held and then what  *)
(* awaits misses none, those given since being of sessions still open.     *)
(***************************************************************************)

(* Frames that record a token, and those of whoever made it.               *)
Recs == {"record.index", "record.near", "record.list", "record.add"}
Holds == {"issue.told", "issue.undo", "session.keep", "session.undo", "poll.answer"}
Closes4 == {"close.held", "close.deny", "close.awaiting", "close.rest"}
Has(r) == r.pc \in Recs \cup Holds
Both(r, q) == Has(r) /\ Has(q) /\ r.a = q.a

Kept(a, s) == a \in kept[s].held \cup kept[s].awaiting \cup denied
Recorded(a, s) == index[a] = s /\ Kept(a, s)
GivenOf(s) == {a \in given : index[a] = s}

Owes(r) ==
  /\ r.pc = "issue.make" => "s" \in DOMAIN r /\ r.s \in Session
  /\ Has(r) => {"a", "s"} \subseteq DOMAIN r /\ r.a \in drawn \ given /\ r.s \in Session
  /\ r.pc \in Recs \ {"record.index"} => index[r.a] = r.s
  /\ r.pc \in {"session.keep", "poll.answer"} => Recorded(r.a, r.s)
  /\ r.pc = "settle.take" => r.a \in denied
  /\ r.pc \in Closes4 => {"s", "todo"} \subseteq DOMAIN r /\ r.s \in Session \ entering
  /\ r.pc = "close.deny" => GivenOf(r.s) \subseteq r.todo \cup denied \cup kept[r.s].awaiting
  /\ r.pc = "close.awaiting" => GivenOf(r.s) \subseteq denied \cup kept[r.s].awaiting
  /\ r.pc = "close.rest" => GivenOf(r.s) \subseteq r.todo \cup denied

(* A frame that records is on top of the one that made what it records.    *)
Linked(s) ==
  /\ \A i \in 2 .. Len(s) : s[i].pc \notin Recs
  /\ \A r : In(r, s) /\ r.pc \in Holds =>
       IF s[1].pc \in Recs THEN r.pc = "issue.told" /\ r.a = s[1].a /\ r.s = s[1].s
       ELSE r.pc = "issue.told" => Recorded(r.a, r.s)

TokensFine ==
  /\ load \in Loads /\ drawn \subseteq Token /\ given \subseteq drawn
  /\ DOMAIN index = Token /\ DOMAIN kept = Session
  /\ \A s \in Session : DOMAIN kept[s] = {"held", "awaiting"}
  /\ entering \subseteq Session /\ finished \subseteq Session \ entering
  /\ \A a \in given : index[a] \in Session /\ Kept(a, index[a])
  /\ ClosedKeepsNone

Shared(v, w) == \E r, q : In(r, task[v]) /\ In(q, task[w]) /\ Both(r, q)

TInv ==
  /\ IInv
  /\ TokensFine
  /\ \A w \in Worker : Linked(task[w]) /\ \A r : In(r, task[w]) => Owes(r)
  /\ \A v, w \in Worker : Shared(v, w) => v = w

(* What lasts, and of a token nobody but its maker does anything of.       *)
Lasts ==
  /\ denied \subseteq denied' /\ drawn \subseteq drawn' /\ entering' \subseteq entering
  /\ \A s \in Session : \A a : Kept(a, s) => Kept(a, s)'
  /\ \A s \in Session : \A a \in kept[s].awaiting : a \in kept'[s].awaiting \cup denied'
  /\ \A a \in given' : (a \in given /\ index'[a] = index[a]) \/ index'[a] \in entering'

Untouched(a) == index'[a] = index[a] /\ (a \in given' => a \in given)

Mine(w, a) == \E q : In(q, task[w]) /\ Has(q) /\ q.a = a

----------------------------------------------------------------------------
LEMMA GivenStays ==
  ASSUME Lasts, NEW s \in Session \ entering
  PROVE  GivenOf(s)' \subseteq GivenOf(s)
BY DEF Lasts, GivenOf

LEMMA RecordedStays ==
  ASSUME Lasts, NEW a, NEW s \in Session, Recorded(a, s), Untouched(a)
  PROVE  Recorded(a, s)'
<1>1. Kept(a, s)'
  BY DEF Lasts, Recorded
<1>2. QED
  BY <1>1 DEF Recorded, Untouched

LEMMA OwesStays ==
  ASSUME Lasts, NEW r, Owes(r), Has(r) => Untouched(r.a)
  PROVE  Owes(r)'
<1>1. Has(r) => {"a", "s"} \subseteq DOMAIN r /\ r.a \in drawn' \ given' /\ r.s \in Session
  BY DEF Owes, Lasts, Untouched
<1>2. r.pc \in Recs \ {"record.index"} => index'[r.a] = r.s
  BY DEF Owes, Has, Untouched
<1>3. r.pc \in {"session.keep", "poll.answer"} => Recorded(r.a, r.s)'
  BY <1>1, RecordedStays DEF Owes, Has, Holds
<1>4. r.pc = "settle.take" => r.a \in denied'
  BY DEF Owes, Lasts
<1>5. r.pc \in Closes4 => {"s", "todo"} \subseteq DOMAIN r /\ r.s \in Session \ entering'
  BY DEF Owes, Lasts
<1>6. r.pc \in Closes4 => GivenOf(r.s)' \subseteq GivenOf(r.s)
  BY GivenStays DEF Owes
<1>7. r.pc \in Closes4 => \A a \in kept[r.s].awaiting : a \in kept'[r.s].awaiting \cup denied'
  BY DEF Owes, Lasts
<1>8. denied \subseteq denied'
  BY DEF Lasts
<1>9. r.pc = "close.deny" => GivenOf(r.s)' \subseteq r.todo \cup denied' \cup kept'[r.s].awaiting
  BY <1>6, <1>7, <1>8 DEF Owes, Closes4
<1>10. r.pc = "close.awaiting" => GivenOf(r.s)' \subseteq denied' \cup kept'[r.s].awaiting
  BY <1>6, <1>7, <1>8 DEF Owes, Closes4
<1>11. r.pc = "close.rest" => GivenOf(r.s)' \subseteq r.todo \cup denied'
  BY <1>6, <1>8 DEF Owes, Closes4
<1>12. QED
  BY <1>1, <1>2, <1>3, <1>4, <1>5, <1>9, <1>10, <1>11 DEF Owes

LEMMA LinkedStays ==
  ASSUME Lasts, NEW s, Linked(s), \A r : In(r, s) => Owes(r),
         \A r : In(r, s) /\ Has(r) => Untouched(r.a)
  PROVE  Linked(s)'
<1>1. ASSUME NEW r, In(r, s), r.pc = "issue.told", Recorded(r.a, r.s) PROVE Recorded(r.a, r.s)'
  BY <1>1, RecordedStays DEF Owes, Has, Holds
<1>2. QED
  BY <1>1 DEF Linked

(* A step of w: what it leaves on its stack, and whose tokens it touches.  *)
LEMMA TokenStep ==
  ASSUME TInv, IInv', TokensFine', Lasts, NEW w \in Worker, NEW n, task' = [task EXCEPT ![w] = n],
         Linked(n)', \A r : In(r, n) => Owes(r)',
         \A r : In(r, n) /\ Has(r) => Mine(w, r.a) \/ r.a \notin drawn,
         \A a \in Token : Untouched(a) \/ Mine(w, a)
  PROVE  TInv'
<1>1. DOMAIN task' = Worker /\ task'[w] = n /\ \A v \in Worker \ {w} : task'[v] = task[v]
  BY DEF TInv, IInv
<1>2. ASSUME NEW v \in Worker \ {w}, NEW r, In(r, task[v])
      PROVE  Owes(r) /\ (Has(r) => Untouched(r.a) /\ ~Mine(w, r.a))
  <2>1. Owes(r) /\ (Has(r) => ~Mine(w, r.a))
    BY <1>2 DEF TInv, Shared, Both, Mine
  <2>2. Has(r) => r.a \in Token
    BY <2>1 DEF Owes, TInv, TokensFine
  <2>3. QED
    BY <2>1, <2>2
<1>3. ASSUME NEW v \in Worker \ {w} PROVE Linked(task[v])' /\ \A r : In(r, task'[v]) => Owes(r)'
  <2>1. PICK s : s = task[v]
    OBVIOUS
  <2>2. Linked(s) /\ \A r : In(r, s) => Owes(r) /\ (Has(r) => Untouched(r.a))
    BY <1>2, <2>1 DEF TInv
  <2>3. Linked(s)' /\ \A r : In(r, s) => Owes(r)'
    BY <2>2, LinkedStays, OwesStays
  <2>4. task'[v] = s
    BY <1>1, <2>1
  <2>5. QED
    BY <2>3, <2>4
<1>4. ASSUME NEW u \in Worker, NEW v \in Worker, NEW r, NEW q,
             In(r, task'[u]), In(q, task'[v]), Both(r, q)
      PROVE  u = v
  <2>1. ASSUME NEW x, In(x, n), NEW y, NEW z \in Worker \ {w}, In(y, task[z]), Both(x, y) PROVE FALSE
    <3>1. Mine(w, x.a) \/ x.a \notin drawn
      BY <2>1 DEF Both
    <3>2. ~Mine(w, y.a) /\ y.a \in drawn
      BY <1>2, <2>1 DEF Both, Owes
    <3>3. QED
      BY <2>1, <3>1, <3>2 DEF Both
  <2>2. Both(q, r)
    BY <1>4 DEF Both
  <2>3. CASE u = w
    BY <1>1, <1>4, <2>1, <2>3
  <2>4. CASE v = w
    BY <1>1, <1>4, <2>1, <2>2, <2>4
  <2>5. CASE u # w /\ v # w
    BY <1>1, <1>4, <2>5 DEF TInv, Shared
  <2>6. QED
    BY <2>3, <2>4, <2>5
<1>5. (\A u, v \in Worker : Shared(u, v) => u = v)'
  BY <1>4 DEF Shared
<1>6. \A v \in Worker : Linked(task[v])' /\ \A r : In(r, task'[v]) => Owes(r)'
  <2>1. Linked(task[w])'
    BY <1>1
  <2>2. QED
    BY <1>1, <1>3, <2>1
<1>7. QED
  BY <1>5, <1>6 DEF TInv

(* What nothing is done of stays as it is.                                 *)
LEMMA FineStays ==
  ASSUME TInv, Lasts, load' = load, given' = given, finished' = finished, drawn' \subseteq Token,
         DOMAIN index' = Token, \A a \in given : index'[a] = index[a],
         DOMAIN kept' = Session, \A s \in Session : DOMAIN kept'[s] = {"held", "awaiting"}
  PROVE  TokensFine'
<1>1. ASSUME NEW a \in given' PROVE index'[a] \in Session /\ Kept(a, index[a])'
  <2>1. PICK s : s = index[a]
    OBVIOUS
  <2>2. s \in Session /\ Kept(a, s) /\ index'[a] = s
    BY <2>1 DEF TInv, TokensFine
  <2>3. Kept(a, s)'
    BY <2>2 DEF Lasts
  <2>4. QED
    BY <2>2, <2>3
<1>2. ClosedKeepsNone'
  BY DEF TInv, TokensFine, Lasts, ClosedKeepsNone
<1>3. QED
  BY <1>1, <1>2 DEF TInv, TokensFine, Lasts

SameTokens == UNCHANGED <<load, kept, index, denied, drawn, given, finished>> /\ entering' \subseteq entering

LEMMA TokensSame ==
  ASSUME TInv, SameTokens, \A s \in finished : s \notin entering'
  PROVE  Lasts /\ TokensFine' /\ \A a \in Token : Untouched(a)
<1>1. Lasts /\ \A a \in Token : Untouched(a)
  BY DEF SameTokens, Lasts, Kept, Untouched
<1>2. TokensFine'
  BY <1>1, FineStays DEF SameTokens, TInv, TokensFine
<1>3. QED
  BY <1>1, <1>2

LEMMA LinkedParts ==
  ASSUME NEW s, IsStack(s), s # <<>>, Linked(s), NEW a, IsStack(a),
         \A i \in 2 .. Len(a) : a[i].pc \notin Recs
  PROVE  LET n == a \o Tail(s) IN
           /\ \A i \in 2 .. Len(n) : n[i].pc \notin Recs
           /\ Len(a) > 0 => n[1] = a[1]
           /\ \A r : In(r, n) /\ Len(a) = 0 => n[1].pc \notin Recs
           /\ \A r : In(r, n) => In(r, a) \/ (In(r, s) /\ r.pc \notin Recs)
<1> DEFINE n == a \o Tail(s)
           k == Len(a)
           l == Len(s)
<1>1. l \in Nat \ {0} /\ k \in Nat
  BY IsStackParts
<1>2. Len(n) = k + l - 1 /\ \A i \in 1 .. Len(n) : n[i] = IF i <= k THEN a[i] ELSE s[i - k + 1]
  BY Made
<1>3. \A r : In(r, n) => Len(n) >= 1
  BY <1>1, <1>2 DEF In
<1>4. \A i \in 2 .. l : s[i].pc \notin Recs
  BY DEF Linked
<1>5. \A i \in 2 .. k : a[i].pc \notin Recs
  OBVIOUS
<1> HIDE DEF n, k, l
<1>6. ASSUME NEW i \in 2 .. Len(n) PROVE n[i].pc \notin Recs
  <2>1. CASE i <= k
    <3>1. n[i] = a[i] /\ i \in 2 .. k
      BY <1>1, <1>2, <2>1
    <3>2. QED
      BY <1>5, <3>1
  <2>2. CASE i > k
    <3>1. n[i] = s[i - k + 1] /\ i - k + 1 \in 2 .. l
      BY <1>1, <1>2, <2>2
    <3>2. QED
      BY <1>4, <3>1
  <2>3. QED
    BY <1>1, <1>2, <2>1, <2>2
<1>7. ASSUME k > 0 PROVE n[1] = a[1]
  BY <1>1, <1>2, <1>7
<1>8. ASSUME Len(n) >= 1, k = 0 PROVE n[1].pc \notin Recs
  <2>1. n[1] = s[2] /\ 2 \in 2 .. l
    BY <1>1, <1>2, <1>8
  <2>2. QED
    BY <1>4, <2>1
<1>9. ASSUME NEW r, In(r, n) PROVE In(r, a) \/ (In(r, s) /\ r.pc \notin Recs)
  <2>1. PICK i \in 1 .. Len(n) : r = n[i]
    BY <1>9 DEF In
  <2>2. CASE i <= k
    BY <1>1, <1>2, <2>1, <2>2 DEF In, k
  <2>3. CASE i > k
    <3>1. PICK j : j = i - k + 1
      OBVIOUS
    <3>2. r = s[j] /\ j \in 2 .. l /\ j \in 1 .. l
      BY <1>1, <1>2, <2>1, <2>3, <3>1
    <3>3. QED
      BY <1>4, <3>2 DEF In, l
  <2>4. QED
    BY <1>1, <1>2, <2>2, <2>3
<1>10. QED
  BY <1>3, <1>6, <1>7, <1>8, <1>9 DEF n, k

(* What the top of w is, and what is known of it.                          *)
LEMMA TokenTops ==
  ASSUME TInv, NEW w \in Worker, task[w] # <<>>
  PROVE  /\ In(Top(w), task[w]) /\ Knows(Top(w)) /\ Owes(Top(w)) /\ Top(w) = task[w][1]
         /\ IsStack(task[w]) /\ Linked(task[w])
         /\ ~Plain(Top(w)) => Len(task[w]) = 1
         /\ Has(Top(w)) => Mine(w, Top(w).a)
<1>1. IInv
  BY DEF TInv
<1>2. In(Top(w), task[w]) /\ Knows(Top(w)) /\ Top(w) = task[w][1] /\ IsStack(task[w])
      /\ (~Plain(Top(w)) => Len(task[w]) = 1)
  BY <1>1, Tops
<1>3. QED
  BY <1>2 DEF TInv, Mine


(* What goes on above others records nothing: the top may have recorded    *)
(* what was made below.                                                    *)
LEMMA Above ==
  ASSUME TInv, IInv', TokensFine', Lasts, NEW w \in Worker, task[w] # <<>>, Plain(Top(w)),
         NEW a, IsStack(a), Become(w, a), \A r : In(r, a) => ~Has(r) /\ Owes(r)',
         \A i \in 1 .. Len(a) : a[i].pc \notin Recs, \A b \in Token : Untouched(b),
         \A b, c : Top(w).pc \in Recs /\ b = Top(w).a /\ c = Top(w).s => Recorded(b, c)'
  PROVE  TInv'
<1>0. PICK s, t, n : s = task[w] /\ t = Top(w) /\ n = a \o Tail(s)
  OBVIOUS
<1>1. /\ IsStack(s) /\ Linked(s) /\ s # <<>> /\ t = s[1]
      /\ \A r : In(r, s) => Owes(r) /\ (Has(r) => Untouched(r.a))
  BY <1>0, TokenTops DEF TInv, Owes, TokensFine
<1>2. task' = [task EXCEPT ![w] = n]
  BY <1>0 DEF Become
<1>3. \A i \in 2 .. Len(a) : a[i].pc \notin Recs
  OBVIOUS
<1>4. /\ \A i \in 2 .. Len(n) : n[i].pc \notin Recs
      /\ Len(a) > 0 => n[1] = a[1]
      /\ \A r : In(r, n) /\ Len(a) = 0 => n[1].pc \notin Recs
      /\ \A r : In(r, n) => In(r, a) \/ (In(r, s) /\ r.pc \notin Recs)
  BY <1>0, <1>1, <1>3, LinkedParts
<1>5. Len(a) \in Nat
  BY IsStackParts
<1>6. ASSUME NEW r, In(r, n) PROVE n[1].pc \notin Recs
  <2>1. CASE Len(a) = 0
    BY <1>4, <1>6, <2>1
  <2>2. CASE Len(a) # 0
    <3>1. PICK k : k = Len(a) /\ k \in Nat /\ k # 0
      BY <1>5, <2>2
    <3>2. k > 0 /\ 1 \in 1 .. k
      BY <3>1
    <3>3. QED
      BY <1>4, <3>1, <3>2
  <2>3. QED
    BY <2>1, <2>2
<1>7. ASSUME NEW r, In(r, s), r.pc = "issue.told" PROVE Recorded(r.a, r.s)'
  <2>1. r.pc \in Holds /\ Owes(r) /\ r.s \in Session /\ Untouched(r.a)
    BY <1>1, <1>7 DEF Holds, Owes, Has
  <2>2. CASE t.pc \in Recs
    BY <1>0, <1>1, <1>7, <2>1, <2>2 DEF Linked
  <2>3. CASE t.pc \notin Recs
    BY <1>1, <1>7, <2>1, <2>3, RecordedStays DEF Linked
  <2>4. QED
    BY <2>2, <2>3
<1>8. ASSUME NEW r, In(r, n), r.pc \in Holds
      PROVE  r.pc = "issue.told" => Recorded(r.a, r.s)'
  BY <1>4, <1>7, <1>8 DEF Has
<1>9. Linked(n)'
  BY <1>4, <1>6, <1>8 DEF Linked
<1>10. ASSUME NEW r, In(r, n) PROVE Owes(r)' /\ (Has(r) => Mine(w, r.a))
  <2>1. CASE In(r, a)
    BY <2>1
  <2>2. CASE In(r, s)
    <3>1. Owes(r)'
      BY <1>1, <2>2, OwesStays
    <3>2. QED
      BY <1>0, <2>2, <3>1 DEF Mine
  <2>3. QED
    BY <1>4, <1>10, <2>1, <2>2
<1>11. QED
  BY <1>2, <1>9, <1>10, TokenStep

(* One that records goes on.                                               *)
LEMMA RecordsOn ==
  ASSUME TInv, IInv', TokensFine', Lasts, NEW w \in Worker, task[w] # <<>>, Top(w).pc \in Recs,
         NEW x, Become(w, <<x>>), x.pc \in Recs, x.a = Top(w).a, x.s = Top(w).s, Owes(x)',
         given' = given, \A b \in Token : Untouched(b) \/ Top(w).a = b
  PROVE  TInv'
<1>0. PICK s, t, a, n : s = task[w] /\ t = Top(w) /\ a = <<x>> /\ n = a \o Tail(s)
  OBVIOUS
<1>1. /\ IsStack(s) /\ Linked(s) /\ s # <<>> /\ t = s[1] /\ Mine(w, t.a)
      /\ \A r : In(r, s) => Owes(r)
  BY <1>0, TokenTops DEF TInv, Has
<1>2. task' = [task EXCEPT ![w] = n]
  BY <1>0 DEF Become
<1>3. IsStack(a) /\ Len(a) = 1 /\ a[1] = x /\ \A r : In(r, a) => r = x
  BY <1>0, Tuples, InTuples
<1>4. \A i \in 2 .. Len(a) : a[i].pc \notin Recs
  BY <1>3
<1>5. /\ \A i \in 2 .. Len(n) : n[i].pc \notin Recs
      /\ Len(a) > 0 => n[1] = a[1]
      /\ \A r : In(r, n) => In(r, a) \/ (In(r, s) /\ r.pc \notin Recs)
  BY <1>0, <1>1, <1>3, <1>4, LinkedParts
<1>6. n[1] = x
  BY <1>3, <1>5
<1>7. Recs \cap Holds = {}
  BY DEF Recs, Holds
<1>8. ASSUME NEW r, In(r, n), r.pc \in Holds
      PROVE  r.pc = "issue.told" /\ r.a = x.a /\ r.s = x.s
  <2>1. In(r, s)
    BY <1>3, <1>5, <1>7, <1>8
  <2>2. QED
    BY <1>0, <1>1, <1>8, <2>1 DEF Linked
<1>9. Linked(n)'
  BY <1>5, <1>6, <1>8 DEF Linked
<1>10. ASSUME NEW r, In(r, n) PROVE Owes(r)' /\ (Has(r) => Mine(w, r.a))
  <2>1. CASE In(r, a)
    BY <1>0, <1>1, <1>3, <2>1
  <2>2. CASE In(r, s) /\ r.pc \notin Recs /\ Has(r)
    <3>1. r.pc = "issue.told" /\ Owes(r)
      BY <1>0, <1>1, <2>2 DEF Linked, Has
    <3>2. Owes(r)'
      BY <3>1 DEF Owes, Lasts, Has, Recs, Closes4
    <3>3. QED
      BY <1>0, <2>2, <3>2 DEF Mine
  <2>3. CASE In(r, s) /\ ~Has(r)
    BY <1>1, <2>3, OwesStays
  <2>4. QED
    BY <1>5, <1>10, <2>1, <2>2, <2>3
<1>11. \A b \in Token : Untouched(b) \/ Mine(w, b)
  BY <1>0, <1>1
<1>12. QED
  BY <1>2, <1>9, <1>10, <1>11, TokenStep

(* The one frame a worker is about goes on.                                *)
LEMMA Bottom ==
  ASSUME TInv, IInv', TokensFine', Lasts, NEW w \in Worker, task[w] # <<>>, ~Plain(Top(w)),
         NEW a, IsStack(a), Become(w, a), Linked(a)', \A r : In(r, a) => Owes(r)',
         \A r : In(r, a) /\ Has(r) => (Has(Top(w)) /\ r.a = Top(w).a) \/ r.a \notin drawn,
         \A b \in Token : Untouched(b) \/ (Has(Top(w)) /\ Top(w).a = b)
  PROVE  TInv'
<1>1. IInv /\ (Has(Top(w)) => Mine(w, Top(w).a))
  BY TokenTops DEF TInv
<1>2. task' = [task EXCEPT ![w] = a]
  BY <1>1, Alone
<1>3. \A r : In(r, a) /\ Has(r) => Mine(w, r.a) \/ r.a \notin drawn
  BY <1>1
<1>4. \A b \in Token : Untouched(b) \/ Mine(w, b)
  BY <1>1
<1>5. QED
  BY <1>2, <1>3, <1>4, TokenStep

LEMMA LinkedNone ==
  ASSUME NEW s, IsStack(s), \A i \in 1 .. Len(s) : s[i].pc \notin Recs \cup {"issue.told"}
  PROVE  Linked(s)'
<1>1. Len(s) \in Nat
  BY IsStackParts
<1>2. \A i \in 2 .. Len(s) : i \in 1 .. Len(s)
  BY <1>1
<1>3. ASSUME NEW r, In(r, s), r.pc \in Holds PROVE s[1].pc \notin Recs /\ r.pc # "issue.told"
  <2>1. PICK l : l = Len(s)
    OBVIOUS
  <2>2. PICK i \in 1 .. l : r = s[i]
    BY <1>3, <2>1 DEF In
  <2>3. 1 \in 1 .. l
    BY <1>1, <2>1, <2>2
  <2>4. QED
    BY <2>1, <2>2, <2>3
<1>4. QED
  BY <1>2, <1>3 DEF Linked

----------------------------------------------------------------------------
(* Steps that do nothing of tokens.                                        *)
Bare(r) == r.pc \notin {"issue.make", "settle.take"} \cup Closes4 /\ ~Has(r)

LEMMA BareOwes ==
  ASSUME NEW r, Bare(r)
  PROVE  Owes(r)'
BY DEF Bare, Owes, Has, Recs, Holds, Closes4

LEMMA AboveReturn ==
  ASSUME TInv, IInv', TokensFine', Lasts, NEW w \in Worker, task[w] # <<>>, Plain(Top(w)),
         Return(w), \A b \in Token : Untouched(b),
         \A b, c : Top(w).pc \in Recs /\ b = Top(w).a /\ c = Top(w).s => Recorded(b, c)'
  PROVE  TInv'
<1>1. PICK a : a = <<>>
  OBVIOUS
<1>2. IsStack(a) /\ Become(w, a) /\ Len(a) = 0 /\ \A r : ~In(r, a)
  BY <1>1, Tuples, InTuples DEF Return
<1>3. \A i \in 1 .. Len(a) : FALSE
  BY <1>2
<1>4. QED
  BY <1>2, <1>3, Above

LEMMA AboveOne ==
  ASSUME TInv, IInv', TokensFine', Lasts, NEW w \in Worker, task[w] # <<>>, Plain(Top(w)),
         NEW x, Become(w, <<x>>), ~Has(x), Owes(x)', \A b \in Token : Untouched(b),
         \A b, c : Top(w).pc \in Recs /\ b = Top(w).a /\ c = Top(w).s => Recorded(b, c)'
  PROVE  TInv'
<1>1. PICK a : a = <<x>>
  OBVIOUS
<1>2. IsStack(a) /\ Become(w, a) /\ Len(a) = 1 /\ a[1] = x /\ \A r : In(r, a) => r = x
  BY <1>1, Tuples, InTuples
<1>3. ASSUME NEW i \in 1 .. Len(a) PROVE a[i] = x
  BY <1>2
<1>4. \A i \in 1 .. Len(a) : a[i].pc \notin Recs
  BY <1>3 DEF Has
<1>5. \A r : In(r, a) => ~Has(r) /\ Owes(r)'
  BY <1>2
<1>6. QED
  BY <1>2, <1>4, <1>5, Above

LEMMA AboveTwo ==
  ASSUME TInv, IInv', TokensFine', Lasts, NEW w \in Worker, task[w] # <<>>, Plain(Top(w)), Top(w).pc \notin Recs,
         NEW x, NEW y, Become(w, <<x, y>>), ~Has(x), Owes(x)', ~Has(y), Owes(y)', \A b \in Token : Untouched(b)
  PROVE  TInv'
<1>1. PICK a : a = <<x, y>>
  OBVIOUS
<1>2. IsStack(a) /\ Become(w, a) /\ Len(a) = 2 /\ a[1] = x /\ a[2] = y /\ \A r : In(r, a) => r \in {x, y}
  BY <1>1, Tuples, InTuples
<1>3. ASSUME NEW i \in 1 .. Len(a) PROVE a[i] \in {x, y}
  BY <1>2
<1>4. \A i \in 1 .. Len(a) : a[i].pc \notin Recs
  BY <1>3 DEF Has
<1>5. \A r : In(r, a) => ~Has(r) /\ Owes(r)'
  BY <1>2
<1>6. QED
  BY <1>2, <1>4, <1>5, Above

LEMMA BottomReturn ==
  ASSUME TInv, IInv', TokensFine', Lasts, NEW w \in Worker, task[w] # <<>>, ~Plain(Top(w)), Return(w),
         \A b \in Token : Untouched(b) \/ (Has(Top(w)) /\ Top(w).a = b)
  PROVE  TInv'
<1>1. PICK a : a = <<>>
  OBVIOUS
<1>2. IsStack(a) /\ Become(w, a) /\ Len(a) = 0 /\ \A r : ~In(r, a)
  BY <1>1, Tuples, InTuples DEF Return
<1>3. \A i \in 1 .. Len(a) : FALSE
  BY <1>2
<1>4. Linked(a)'
  BY <1>2, <1>3, LinkedNone
<1>5. QED
  BY <1>2, <1>4, Bottom

LEMMA BottomOne ==
  ASSUME TInv, IInv', TokensFine', Lasts, NEW w \in Worker, task[w] # <<>>, ~Plain(Top(w)),
         NEW x, Become(w, <<x>>), x.pc \notin Recs \cup {"issue.told"}, Owes(x)',
         Has(x) => Has(Top(w)) /\ x.a = Top(w).a, \A b \in Token : Untouched(b)
  PROVE  TInv'
<1>1. PICK a : a = <<x>>
  OBVIOUS
<1>2. IsStack(a) /\ Become(w, a) /\ Len(a) = 1 /\ a[1] = x /\ \A r : In(r, a) => r = x
  BY <1>1, Tuples, InTuples
<1>3. ASSUME NEW i \in 1 .. Len(a) PROVE a[i] = x
  BY <1>2
<1>4. Linked(a)'
  BY <1>2, <1>3, LinkedNone
<1>5. \A r : In(r, a) => Owes(r)' /\ (Has(r) => Has(Top(w)) /\ r.a = Top(w).a)
  BY <1>2
<1>6. QED
  BY <1>2, <1>4, <1>5, Bottom

Still == UNCHANGED <<load, kept, index, denied, drawn, given, finished, entering>>

LEMMA StillSame ==
  ASSUME TInv, Still
  PROVE  Lasts /\ TokensFine' /\ \A a \in Token : Untouched(a)
BY TokensSame DEF Still, SameTokens, TInv, TokensFine

(* Of what is still: frames that owe nothing but what they did.            *)
LEMMA StillTo ==
  ASSUME TInv, IInv', Still, NEW w \in Worker, task[w] # <<>>, NEW pc, To(w, pc),
         pc \notin {"issue.make", "settle.take"} \cup Closes4 \cup Recs \cup Holds,
         Top(w).pc \notin Recs
  PROVE  TInv'
<1>1. PICK t, x : t = Top(w) /\ x = [t EXCEPT !.pc = pc]
  OBVIOUS
<1>2. Become(w, <<x>>) /\ Knows(t)
  BY <1>1, TokenTops DEF To
<1>3. x.pc = pc
  BY <1>1, <1>2, Moved
<1>4. ~Has(x) /\ Owes(x)' /\ x.pc \notin Recs \cup {"issue.told"}
  BY <1>3, BareOwes DEF Bare, Has, Holds
<1>5. Lasts /\ TokensFine' /\ \A a \in Token : Untouched(a)
  BY StillSame
<1>6. CASE Plain(t)
  BY <1>1, <1>2, <1>4, <1>5, <1>6, AboveOne
<1>7. CASE ~Plain(t)
  BY <1>1, <1>2, <1>4, <1>5, <1>7, BottomOne
<1>8. QED
  BY <1>6, <1>7

LEMMA StillReturn ==
  ASSUME TInv, IInv', Still, NEW w \in Worker, task[w] # <<>>, Return(w), Top(w).pc \notin Recs
  PROVE  TInv'
<1>1. Lasts /\ TokensFine' /\ \A a \in Token : Untouched(a)
  BY StillSame
<1>2. CASE Plain(Top(w))
  BY <1>1, <1>2, AboveReturn
<1>3. CASE ~Plain(Top(w))
  BY <1>1, <1>3, BottomReturn
<1>4. QED
  BY <1>2, <1>3

(* A token is denied.                                                      *)
LEMMA Denies ==
  ASSUME TInv, NEW b, denied' = denied \cup {b}, UNCHANGED <<load, kept, index, drawn, given, finished, entering>>
  PROVE  Lasts /\ TokensFine' /\ \A a \in Token : Untouched(a)
<1>1. Lasts /\ \A a \in Token : Untouched(a)
  BY DEF Lasts, Kept, Untouched
<1>2. TokensFine'
  BY <1>1, FineStays DEF TInv, TokensFine
<1>3. QED
  BY <1>1, <1>2

(* A session's set changes: what it held it holds, or awaits; what awaits  *)
(* awaits, or is denied.                                                   *)
LEMMA SetChanges ==
  ASSUME TInv, NEW c, NEW m, kept' = [kept EXCEPT ![c] = m],
         UNCHANGED <<load, index, denied, drawn, given, finished, entering>>,
         c \in Session => /\ DOMAIN m = {"held", "awaiting"}
                          /\ kept[c].held \subseteq m.held \cup m.awaiting
                          /\ kept[c].awaiting \subseteq m.awaiting \cup denied
  PROVE  Lasts /\ TokensFine' /\ \A a \in Token : Untouched(a)
<1>1. /\ DOMAIN kept' = Session
      /\ \A s \in Session : kept'[s] = IF s = c THEN m ELSE kept[s]
  BY DEF TInv, TokensFine
<1>2. ASSUME NEW s \in Session
      PROVE  /\ \A a : Kept(a, s) => Kept(a, s)'
             /\ \A a \in kept[s].awaiting : a \in kept'[s].awaiting \cup denied'
             /\ DOMAIN kept'[s] = {"held", "awaiting"}
  BY <1>1 DEF Kept, TInv, TokensFine
<1>3. Lasts /\ \A a \in Token : Untouched(a)
  BY <1>2 DEF Lasts, Untouched
<1>4. TokensFine'
  BY <1>1, <1>2, <1>3, FineStays DEF TInv, TokensFine
<1>5. QED
  BY <1>3, <1>4

LEMMA TokenSettles ==
  ASSUME TInv, IInv', load' = load, NEW w \in Worker, SettleStep(w)
  PROVE  TInv'
<1>1. PICK t : t = Top(w)
  OBVIOUS
<1>2. task[w] # <<>> /\ Plain(t) /\ t.pc \notin Recs
  BY <1>1 DEF SettleStep, SettleRead, SettleDeny, SettleTake, SettleCheck, SettleDone, SettleAgain, SettleAdd,
              Doing, Idle, Plain, Recs
<1>3. "pc" \in DOMAIN t /\ Owes(t)
  BY <1>1, <1>2, TokenTops DEF Knows
<1>4. ASSUME NEW pc \in {"settle.deny", "settle.check", "settle.done", "settle.again", "settle.add"}
      PROVE  pc \notin {"issue.make", "settle.take"} \cup Closes4 \cup Recs \cup Holds
  BY DEF Closes4, Recs, Holds
<1>5. CASE SettleRead(w)
  <2>1. PICK x : x = [t EXCEPT !.pc = "settle.deny", !.todo = kept[t.s].awaiting] /\ Become(w, <<x>>)
    BY <1>1, <1>5 DEF SettleRead
  <2>2. x.pc = "settle.deny"
    BY <1>3, <2>1
  <2>3. ~Has(x) /\ Owes(x)'
    BY <1>4, <2>2, BareOwes DEF Bare, Has
  <2>4. Still
    BY <1>5 DEF SettleRead, setVars, outsideVars, Still
  <2>5. QED
    BY <1>1, <1>2, <2>1, <2>3, <2>4, StillSame, AboveOne
<1>6. CASE SettleDeny(w)
  <2>1. ASSUME NEW a, Become(w, <<[pc |-> "settle.take", s |-> t.s, a |-> a], [t EXCEPT !.todo = @ \ {a}]>>),
               Deny(a)
        PROVE  TInv'
    <3>1. PICK x, y : /\ x = [pc |-> "settle.take", s |-> t.s, a |-> a]
                      /\ y = [t EXCEPT !.todo = @ \ {a}] /\ Become(w, <<x, y>>)
      BY <2>1
    <3>2. y.pc = "settle.deny"
      BY <1>1, <1>3, <1>6, <3>1 DEF SettleDeny, Doing
    <3>3. x.pc = "settle.take" /\ x.a = a
      BY <3>1
    <3>4. denied' = denied \cup {a} /\ UNCHANGED <<load, kept, index, drawn, given, finished, entering>>
      BY <1>6, <2>1 DEF SettleDeny, Deny, setVars
    <3>5. ~Has(y) /\ Owes(y)'
      BY <1>4, <3>2, BareOwes DEF Bare, Has
    <3>6. ~Has(x) /\ Owes(x)'
      BY <3>3, <3>4 DEF Owes, Has, Recs, Holds, Closes4
    <3>7. Lasts /\ TokensFine' /\ \A b \in Token : Untouched(b)
      BY <3>4, Denies
    <3>8. QED
      BY <1>1, <1>2, <3>1, <3>5, <3>6, <3>7, AboveTwo
  <2>2. ASSUME To(w, "settle.check"), UNCHANGED outsideVars PROVE TInv'
    <3>1. Still
      BY <1>6, <2>2 DEF SettleDeny, setVars, outsideVars, Still
    <3>2. QED
      BY <1>1, <1>2, <1>4, <2>2, <3>1, StillTo
  <2>3. QED
    BY <1>1, <1>6, <2>1, <2>2 DEF SettleDeny
<1>7. CASE SettleTake(w)
  <2>1. PICK c, m : c = t.s /\ m = Settled(kept[c], t.a)
    OBVIOUS
  <2>2. /\ kept' = [kept EXCEPT ![c] = m] /\ Return(w)
        /\ UNCHANGED <<load, index, denied, drawn, given, finished, entering>>
    BY <1>1, <1>7, <2>1 DEF SettleTake, outsideVars
  <2>3. t.a \in denied
    BY <1>1, <1>3, <1>7 DEF SettleTake, Doing, Owes
  <2>4. ASSUME c \in Session
        PROVE  DOMAIN m = {"held", "awaiting"} /\ m.held = kept[c].held /\ m.awaiting = kept[c].awaiting \ {t.a}
    <3>1. DOMAIN kept[c] = {"held", "awaiting"}
      BY <2>4 DEF TInv, TokensFine
    <3>2. QED
      BY <2>1, <3>1 DEF Settled
  <2>5. Lasts /\ TokensFine' /\ \A b \in Token : Untouched(b)
    BY <2>2, <2>3, <2>4, SetChanges
  <2>6. QED
    BY <1>1, <1>2, <2>2, <2>5, AboveReturn
<1>8. ASSUME Still, Return(w) \/ \E pc \in {"settle.done", "settle.again", "settle.add"} : To(w, pc) PROVE TInv'
  BY <1>1, <1>2, <1>4, <1>8, StillReturn, StillTo
<1>9. CASE SettleCheck(w)
  BY <1>8, <1>9 DEF SettleCheck, setVars, outsideVars, Still
<1>10. CASE SettleDone(w)
  BY <1>8, <1>10 DEF SettleDone, setVars, outsideVars, Still
<1>11. CASE SettleAgain(w)
  BY <1>8, <1>11 DEF SettleAgain, setVars, outsideVars, Still
<1>12. CASE SettleAdd(w)
  BY <1>8, <1>12 DEF SettleAdd, setVars, outsideVars, Still
<1>13. QED
  BY <1>5, <1>6, <1>7, <1>9, <1>10, <1>11, <1>12 DEF SettleStep

LEMMA RecordGoes ==
  ASSUME TInv, IInv', TokensFine', Lasts, NEW w \in Worker, task[w] # <<>>, Top(w).pc \in Recs,
         NEW pc \in {"record.near", "record.list", "record.add"}, To(w, pc),
         \A a : a = Top(w).a => index'[a] = Top(w).s, given' = given,
         \A a \in Token : Untouched(a) \/ Top(w).a = a
  PROVE  TInv'
<1>1. PICK t, x : t = Top(w) /\ x = [t EXCEPT !.pc = pc]
  OBVIOUS
<1>2. Become(w, <<x>>) /\ Knows(t) /\ Owes(t) /\ t.pc \in Recs /\ Has(t)
  BY <1>1, TokenTops DEF To, Has
<1>3. {"a", "s"} \subseteq DOMAIN t /\ t.a \in drawn \ given /\ t.s \in Session
  BY <1>2 DEF Owes
<1>4. x.pc = pc /\ x.a = t.a /\ x.s = t.s /\ DOMAIN x = DOMAIN t
  BY <1>1, <1>2, <1>3, Moved
<1>5. x.pc \in Recs \ {"record.index"} /\ x.pc \notin Holds \cup Closes4 \cup {"settle.take", "issue.make"}
  BY <1>4 DEF Recs, Holds, Closes4
<1>6. index'[x.a] = x.s /\ x.a \in drawn' \ given'
  BY <1>1, <1>3, <1>4 DEF Lasts
<1>7. Owes(x)'
  BY <1>3, <1>4, <1>5, <1>6 DEF Owes, Holds, Closes4
<1>8. QED
  BY <1>1, <1>2, <1>4, <1>5, <1>7, RecordsOn


LEMMA TokenRecords ==
  ASSUME TInv, IInv', load' = load, NEW w \in Worker, RecordStep(w)
  PROVE  TInv'
<1>1. PICK t : t = Top(w)
  OBVIOUS
<1>2. task[w] # <<>> /\ Plain(t) /\ t.pc \in Recs \cup {"record.relist"}
  BY <1>1 DEF RecordStep, RecordIndex, RecordNear, RecordList, RecordAdd, RecordRelist, Doing, Idle, Plain, Recs
<1>3. "pc" \in DOMAIN t /\ Owes(t)
  BY <1>1, <1>2, TokenTops DEF Knows
<1>4. t.pc \in Recs => t.a \in Token /\ t.a \notin given /\ t.s \in Session
  BY <1>3 DEF Owes, Has, TInv, TokensFine
<1>5. CASE RecordIndex(w)
  <2>1. /\ index' = [index EXCEPT ![t.a] = t.s] /\ To(w, "record.near") /\ t.pc = "record.index"
        /\ UNCHANGED <<load, kept, denied, drawn, given, finished, entering>>
    BY <1>1, <1>5 DEF RecordIndex, Doing, outsideVars
  <2>2. t.a \in Token /\ t.a \notin given /\ t.pc \in Recs
    BY <1>4, <2>1 DEF Recs
  <2>3. DOMAIN index' = Token /\ index'[t.a] = t.s /\ \A a \in Token \ {t.a} : index'[a] = index[a]
    <3>1. DOMAIN index = Token
      BY DEF TInv, TokensFine
    <3>2. QED
      BY <2>1, <2>2, <3>1
  <2>4. given \subseteq Token \ {t.a}
    BY <2>2 DEF TInv, TokensFine
  <2>5. Lasts /\ \A a \in Token : Untouched(a) \/ t.a = a
    BY <2>1, <2>3, <2>4 DEF Lasts, Kept, Untouched
  <2>6. TokensFine'
    BY <2>1, <2>3, <2>4, <2>5, FineStays DEF TInv, TokensFine
  <2>7. QED
    BY <1>1, <1>2, <2>1, <2>2, <2>3, <2>5, <2>6, RecordGoes
<1>6. ASSUME Still, t.pc \in {"record.near", "record.list"}, NEW pc \in {"record.list", "record.add"}, To(w, pc)
      PROVE  TInv'
  <2>1. t.pc \in Recs /\ index[t.a] = t.s
    BY <1>3, <1>6 DEF Owes, Recs
  <2>2. Lasts /\ TokensFine' /\ \A a \in Token : Untouched(a)
    BY <1>6, StillSame
  <2>3. index' = index /\ given' = given
    BY <1>6 DEF Still
  <2>4. QED
    BY <1>1, <1>2, <1>6, <2>1, <2>2, <2>3, RecordGoes
<1>7. CASE RecordNear(w)
  <2>1. Still /\ t.pc = "record.near" /\ (To(w, "record.list") \/ To(w, "record.add"))
    BY <1>1, <1>7 DEF RecordNear, Doing, setVars, outsideVars, Still
  <2>2. QED
    BY <1>6, <2>1
<1>8. CASE RecordList(w)
  <2>1. Still /\ t.pc = "record.list" /\ To(w, "record.add")
    BY <1>1, <1>8 DEF RecordList, Doing, outsideVars, Still
  <2>2. QED
    BY <1>6, <2>1
<1>9. CASE RecordAdd(w)
  <2>1. PICK c, out, m : /\ c = t.s /\ out \in OverCap(kept[c].held, t.a, load.cap)
                         /\ m = Added(kept[c], t.a, out) /\ kept' = [kept EXCEPT ![c] = m]
                         /\ Return(w) \/ To(w, "record.relist")
    BY <1>1, <1>9 DEF RecordAdd
  <2>2. t.pc = "record.add" /\ UNCHANGED <<load, index, denied, drawn, given, finished, entering>>
    BY <1>1, <1>9 DEF RecordAdd, Doing, outsideVars
  <2>3. t.pc \in Recs /\ index[t.a] = c /\ c \in Session
    BY <1>3, <1>4, <2>1, <2>2 DEF Owes, Recs
  <2>4. out \subseteq kept[c].held \ {t.a}
    BY <2>1 DEF OverCap
  <2>5. /\ DOMAIN m = {"held", "awaiting"}
        /\ m.held = (kept[c].held \cup {t.a}) \ out /\ m.awaiting = kept[c].awaiting \cup out
    BY <2>1 DEF Added
  <2>6. kept[c].held \subseteq m.held \cup m.awaiting /\ kept[c].awaiting \subseteq m.awaiting \cup denied
        /\ t.a \in m.held
    BY <2>4, <2>5
  <2>7. Lasts /\ TokensFine' /\ \A b \in Token : Untouched(b)
    BY <2>1, <2>2, <2>5, <2>6, SetChanges
  <2>8. kept'[c] = m
    BY <2>1, <2>3 DEF TInv, TokensFine
  <2>9. \A b, d : b = t.a /\ d = t.s => Recorded(b, d)'
    BY <2>1, <2>2, <2>3, <2>6, <2>8 DEF Recorded, Kept
  <2>10. CASE Return(w)
    BY <1>1, <1>2, <2>7, <2>9, <2>10, AboveReturn
  <2>11. CASE To(w, "record.relist")
    <3>1. PICK x : x = [t EXCEPT !.pc = "record.relist"] /\ Become(w, <<x>>)
      BY <1>1, <2>11 DEF To
    <3>2. x.pc = "record.relist"
      BY <1>3, <3>1
    <3>3. ~Has(x) /\ Owes(x)'
      BY <3>2, BareOwes DEF Bare, Has, Recs, Holds, Closes4
    <3>4. QED
      BY <1>1, <1>2, <2>7, <2>9, <3>1, <3>3, AboveOne
  <2>12. QED
    BY <2>1, <2>10, <2>11
<1>10. CASE RecordRelist(w)
  <2>1. PICK x : x = Settle(t.s) /\ Become(w, <<x>>)
    BY <1>1, <1>10 DEF RecordRelist
  <2>2. t.pc = "record.relist" /\ Still
    BY <1>1, <1>10 DEF RecordRelist, Doing, outsideVars, Still
  <2>3. x.pc = "settle.read"
    BY <2>1 DEF Settle
  <2>4. ~Has(x) /\ Owes(x)' /\ t.pc \notin Recs
    BY <2>2, <2>3, BareOwes DEF Bare, Has, Recs, Holds, Closes4
  <2>5. QED
    BY <1>1, <1>2, <2>1, <2>2, <2>4, StillSame, AboveOne
<1>11. QED
  BY <1>5, <1>7, <1>8, <1>9, <1>10 DEF RecordStep

LEMMA TokenCloses ==
  ASSUME TInv, IInv', load' = load, NEW w \in Worker, CloseStep(w)
  PROVE  TInv'
<1>1. PICK t, c : t = Top(w) /\ c = t.s
  OBVIOUS
<1>2. task[w] # <<>> /\ Plain(t) /\ t.pc \in Closes4
  BY <1>1 DEF CloseStep, CloseHeld, CloseDeny, CloseAwaiting, CloseRest, Doing, Idle, Plain, Closes4
<1>3. {"pc", "s", "todo"} \subseteq DOMAIN t /\ Owes(t) /\ c \in Session \ entering
  BY <1>1, <1>2, TokenTops DEF Knows, Owes
<1>4. t.pc \notin Recs /\ (Closes4 \cap (Recs \cup Holds \cup {"issue.make", "settle.take"}) = {})
  BY <1>2 DEF Recs, Holds, Closes4
<1>5. ASSUME NEW x, x.pc \in Closes4, x.s = c, DOMAIN x = DOMAIN t, entering' = entering,
             x.pc = "close.deny" => GivenOf(c)' \subseteq x.todo \cup denied' \cup kept'[c].awaiting,
             x.pc = "close.awaiting" => GivenOf(c)' \subseteq denied' \cup kept'[c].awaiting,
             x.pc = "close.rest" => GivenOf(c)' \subseteq x.todo \cup denied'
      PROVE  ~Has(x) /\ Owes(x)'
  <2>1. ~Has(x) /\ x.pc \notin Recs \cup Holds \cup {"issue.make", "settle.take"}
    BY <1>4, <1>5 DEF Has
  <2>2. GivenOf(x.s)' = GivenOf(c)' /\ kept'[x.s] = kept'[c] /\ x.s \in Session \ entering'
    BY <1>3, <1>5 DEF GivenOf
  <2>3. {"s", "todo"} \subseteq DOMAIN x
    BY <1>3, <1>5
  <2>4. QED
    BY <1>5, <2>1, <2>2, <2>3 DEF Owes, Holds
<1>6. ASSUME NEW x, Still, Become(w, <<x>>), ~Has(x), Owes(x)' PROVE TInv'
  BY <1>1, <1>2, <1>4, <1>6, StillSame, AboveOne
<1>7. Still => GivenOf(c)' = GivenOf(c) /\ denied' = denied /\ kept' = kept /\ entering' = entering
  BY DEF Still, GivenOf
<1>8. ASSUME NEW a, Deny(a), UNCHANGED setVars
      PROVE  /\ Lasts /\ TokensFine' /\ \A b \in Token : Untouched(b)
             /\ GivenOf(c)' = GivenOf(c) /\ denied' = denied \cup {a} /\ kept' = kept /\ entering' = entering
  <2>1. denied' = denied \cup {a} /\ UNCHANGED <<load, kept, index, drawn, given, finished, entering>>
    BY <1>8 DEF Deny, setVars
  <2>2. QED
    BY <2>1, Denies DEF GivenOf
<1>9. CASE CloseHeld(w)
  <2>1. PICK x : x = [t EXCEPT !.pc = "close.deny", !.todo = kept[c].held] /\ Become(w, <<x>>)
    BY <1>1, <1>9 DEF CloseHeld
  <2>2. x.pc = "close.deny" /\ x.s = c /\ DOMAIN x = DOMAIN t /\ x.todo = kept[c].held
    BY <1>1, <1>3, <2>1
  <2>3. Still
    BY <1>9 DEF CloseHeld, setVars, outsideVars, Still
  <2>4. GivenOf(c) \subseteq kept[c].held \cup denied \cup kept[c].awaiting
    BY DEF GivenOf, TInv, TokensFine, Kept
  <2>5. ~Has(x) /\ Owes(x)'
    BY <1>5, <1>7, <2>2, <2>3, <2>4 DEF Closes4
  <2>6. QED
    BY <1>6, <2>1, <2>3, <2>5
<1>10. CASE CloseDeny(w)
  <2>1. t.pc = "close.deny" /\ GivenOf(c) \subseteq t.todo \cup denied \cup kept[c].awaiting
    BY <1>1, <1>3, <1>10 DEF CloseDeny, Doing, Owes
  <2>2. ASSUME NEW a, Become(w, <<[t EXCEPT !.todo = @ \ {a}]>>), Deny(a) PROVE TInv'
    <3>1. PICK x : x = [t EXCEPT !.todo = @ \ {a}] /\ Become(w, <<x>>)
      BY <2>2
    <3>2. x.pc = "close.deny" /\ x.s = c /\ DOMAIN x = DOMAIN t /\ x.todo = t.todo \ {a}
      BY <1>1, <1>3, <2>1, <3>1
    <3>3. /\ Lasts /\ TokensFine' /\ \A b \in Token : Untouched(b)
          /\ GivenOf(c)' = GivenOf(c) /\ denied' = denied \cup {a} /\ kept' = kept /\ entering' = entering
      BY <1>8, <1>10, <2>2 DEF CloseDeny
    <3>4. ~Has(x) /\ Owes(x)'
      BY <1>5, <2>1, <3>2, <3>3 DEF Closes4
    <3>5. QED
      BY <1>1, <1>2, <1>4, <3>1, <3>3, <3>4, AboveOne
  <2>3. ASSUME t.todo = {}, To(w, "close.awaiting"), UNCHANGED outsideVars PROVE TInv'
    <3>1. PICK x : x = [t EXCEPT !.pc = "close.awaiting"] /\ Become(w, <<x>>)
      BY <1>1, <2>3 DEF To
    <3>2. x.pc = "close.awaiting" /\ x.s = c /\ DOMAIN x = DOMAIN t
      BY <1>1, <1>3, <3>1
    <3>3. Still
      BY <1>10, <2>3 DEF CloseDeny, setVars, outsideVars, Still
    <3>4. ~Has(x) /\ Owes(x)'
      BY <1>5, <1>7, <2>1, <2>3, <3>2, <3>3 DEF Closes4
    <3>5. QED
      BY <1>6, <3>1, <3>3, <3>4
  <2>4. QED
    BY <1>1, <1>10, <2>2, <2>3 DEF CloseDeny
<1>11. CASE CloseAwaiting(w)
  <2>1. PICK x : x = [t EXCEPT !.pc = "close.rest", !.todo = kept[c].awaiting] /\ Become(w, <<x>>)
    BY <1>1, <1>11 DEF CloseAwaiting
  <2>2. x.pc = "close.rest" /\ x.s = c /\ DOMAIN x = DOMAIN t /\ x.todo = kept[c].awaiting
    BY <1>1, <1>3, <2>1
  <2>3. Still /\ GivenOf(c) \subseteq denied \cup kept[c].awaiting
    BY <1>1, <1>3, <1>11 DEF CloseAwaiting, Doing, Owes, setVars, outsideVars, Still
  <2>4. ~Has(x) /\ Owes(x)'
    BY <1>5, <1>7, <2>2, <2>3 DEF Closes4
  <2>5. QED
    BY <1>6, <2>1, <2>3, <2>4
<1>12. CASE CloseRest(w)
  <2>1. t.pc = "close.rest" /\ GivenOf(c) \subseteq t.todo \cup denied
    BY <1>1, <1>3, <1>12 DEF CloseRest, Doing, Owes
  <2>2. ASSUME NEW a, Become(w, <<[pc |-> "settle.take", s |-> c, a |-> a], [t EXCEPT !.todo = @ \ {a}]>>),
               Deny(a)
        PROVE  TInv'
    <3>1. PICK x, y : /\ x = [pc |-> "settle.take", s |-> c, a |-> a]
                      /\ y = [t EXCEPT !.todo = @ \ {a}] /\ Become(w, <<x, y>>)
      BY <2>2
    <3>2. y.pc = "close.rest" /\ y.s = c /\ DOMAIN y = DOMAIN t /\ y.todo = t.todo \ {a}
      BY <1>1, <1>3, <2>1, <3>1
    <3>3. /\ Lasts /\ TokensFine' /\ \A b \in Token : Untouched(b)
          /\ GivenOf(c)' = GivenOf(c) /\ denied' = denied \cup {a} /\ kept' = kept /\ entering' = entering
      BY <1>8, <1>12, <2>2 DEF CloseRest
    <3>4. ~Has(y) /\ Owes(y)'
      BY <1>5, <2>1, <3>2, <3>3 DEF Closes4
    <3>5. x.pc = "settle.take" /\ x.a = a
      BY <3>1
    <3>6. ~Has(x) /\ Owes(x)'
      BY <3>3, <3>5 DEF Owes, Has, Recs, Holds, Closes4
    <3>7. QED
      BY <1>1, <1>2, <1>4, <3>1, <3>3, <3>4, <3>6, AboveTwo
  <2>3. ASSUME t.todo = {}, Return(w), finished' = finished \cup {c}, UNCHANGED <<denied, entering, drawn, given, faults>>
        PROVE  TInv'
    <3>1. UNCHANGED <<load, kept, index, denied, drawn, given, entering>>
      BY <1>12, <2>3 DEF CloseRest, setVars
    <3>2. Lasts /\ \A b \in Token : Untouched(b)
      BY <3>1 DEF Lasts, Kept, Untouched
    <3>3. ClosedKeepsNone'
      BY <2>1, <2>3, <3>1 DEF TInv, TokensFine, ClosedKeepsNone, GivenOf
    <3>4. TokensFine'
      BY <1>3, <2>3, <3>1, <3>3 DEF TInv, TokensFine, Kept
    <3>5. QED
      BY <1>1, <1>2, <1>4, <2>3, <3>2, <3>4, AboveReturn
  <2>4. QED
    BY <1>1, <1>12, <2>2, <2>3 DEF CloseRest
<1>13. QED
  BY <1>9, <1>10, <1>11, <1>12 DEF CloseStep

LEMMA TokenSweeps ==
  ASSUME TInv, IInv', load' = load, NEW w \in Worker, SweepNext(w)
  PROVE  TInv'
<1>1. PICK t : t = Top(w)
  OBVIOUS
<1>2. task[w] # <<>> /\ t.pc = "sweep" /\ Still
  BY <1>1 DEF SweepNext, Doing, Idle, setVars, outsideVars, Still
<1>3. "pc" \in DOMAIN t
  BY <1>1, <1>2, TokenTops DEF Knows
<1>4. t.pc \notin Recs /\ ~Plain(t)
  BY <1>2 DEF Recs, Plain
<1>5. ASSUME NEW s, Become(w, <<Settle(s), [t EXCEPT !.todo = @ \ {s}]>>) PROVE TInv'
  <2>1. PICK x, y, a : x = Settle(s) /\ y = [t EXCEPT !.todo = @ \ {s}] /\ a = <<x, y>> /\ Become(w, a)
    BY <1>5
  <2>2. y.pc = "sweep" /\ x.pc = "settle.read"
    BY <1>2, <1>3, <2>1 DEF Settle
  <2>3. \A r \in {x, y} : ~Has(r) /\ Owes(r)' /\ r.pc \notin Recs \cup {"issue.told"}
    BY <2>2, BareOwes DEF Bare, Has, Recs, Holds, Closes4
  <2>4. IsStack(a) /\ Len(a) = 2 /\ a[1] = x /\ a[2] = y /\ \A r : In(r, a) => r \in {x, y}
    BY <2>1, Tuples, InTuples
  <2>5. \A i \in 1 .. Len(a) : a[i] \in {x, y}
    BY <2>4
  <2>6. \A i \in 1 .. Len(a) : a[i].pc \notin Recs \cup {"issue.told"}
    BY <2>3, <2>5
  <2>7. Linked(a)'
    BY <2>4, <2>6, LinkedNone
  <2>8. \A r : In(r, a) => Owes(r)' /\ ~Has(r)
    BY <2>3, <2>4
  <2>9. QED
    BY <1>1, <1>2, <1>4, <2>1, <2>4, <2>7, <2>8, StillSame, Bottom
<1>6. QED
  BY <1>1, <1>2, <1>4, <1>5, StillReturn DEF SweepNext

(* A token is given, its session being open.                               *)
LEMMA Gives ==
  ASSUME TInv, NEW a \in Token, a \in drawn, index[a] \in entering, Kept(a, index[a]), given' = given \cup {a},
         UNCHANGED <<load, kept, index, denied, drawn, finished, entering>>
  PROVE  Lasts /\ TokensFine' /\ \A b \in Token : Untouched(b) \/ a = b
<1>1. Lasts /\ \A b \in Token : Untouched(b) \/ a = b
  BY DEF Lasts, Kept, Untouched
<1>2. index[a] \in Session \ finished
  BY DEF TInv, TokensFine
<1>3. \A b \in given' : index'[b] \in Session /\ Kept(b, index[b])'
  BY <1>2 DEF TInv, TokensFine, Kept
<1>4. ClosedKeepsNone'
  BY <1>2 DEF TInv, TokensFine, ClosedKeepsNone
<1>5. TokensFine'
  BY <1>3, <1>4 DEF TInv, TokensFine
<1>6. QED
  BY <1>1, <1>5

(* A token is made, and recorded first.                                    *)
LEMMA TokenMade ==
  ASSUME TInv, IInv', load' = load, NEW w \in Worker, NEW t, t = Top(w), task[w] # <<>>, t.pc = "issue.make",
         NEW a \in load.tokens \ drawn, drawn' = drawn \cup {a},
         Become(w, <<Record(t.s, a), [pc |-> "issue.told", s |-> t.s, then |-> t.then, d |-> t.d, a |-> a]>>),
         UNCHANGED <<setVars, denied, entering, given, finished, faults>>
  PROVE  TInv'
<1>1. Owes(t) /\ ~Plain(t)
  BY TokenTops DEF Plain
<1>2. t.s \in Session
  BY <1>1 DEF Owes
<1>3. a \in Token /\ a \notin given
  BY SessionTokensAssumption DEF TInv, TokensFine
<1>4. Lasts /\ \A b \in Token : Untouched(b)
  BY DEF Lasts, Kept, Untouched, setVars
<1>5. TokensFine'
  BY <1>3, <1>4, FineStays DEF TInv, TokensFine, setVars
<1>6. PICK x, y, n : /\ x = Record(t.s, a) /\ n = <<x, y>> /\ Become(w, n)
                     /\ y = [pc |-> "issue.told", s |-> t.s, then |-> t.then, d |-> t.d, a |-> a]
  OBVIOUS
<1>7. /\ x.pc = "record.index" /\ x.a = a /\ x.s = t.s /\ {"a", "s"} \subseteq DOMAIN x
      /\ y.pc = "issue.told" /\ y.a = a /\ y.s = t.s /\ {"a", "s"} \subseteq DOMAIN y
  BY <1>6 DEF Record
<1>8. IsStack(n) /\ Len(n) = 2 /\ n[1] = x /\ n[2] = y /\ \A r : In(r, n) => r \in {x, y}
  <2>1. n = <<x, y>>
    BY <1>6
  <2>2. QED
    BY <2>1, Tuples, InTuples
<1>9. Linked(n)'
  <2>1. \A i \in 2 .. Len(n) : n[i] = y
    BY <1>8
  <2>2. x.pc \in Recs /\ x.pc \notin Holds /\ y.pc \notin Recs
    BY <1>7 DEF Recs, Holds
  <2>3. \A r : In(r, n) /\ r.pc \in Holds => r.pc = "issue.told" /\ r.a = n[1].a /\ r.s = n[1].s
    BY <1>7, <1>8, <2>2
  <2>4. QED
    BY <1>8, <2>1, <2>2, <2>3 DEF Linked
<1>10. a \in drawn' \ given'
  BY <1>3
<1>11. Owes(x)' /\ Owes(y)'
  BY <1>2, <1>7, <1>10 DEF Owes, Has, Recs, Holds, Closes4
<1>12. \A r : In(r, n) => Owes(r)' /\ r.a \notin drawn
  BY <1>7, <1>8, <1>11
<1>13. QED
  BY <1>1, <1>4, <1>5, <1>6, <1>8, <1>9, <1>12, Bottom

(* A frame of a token's maker goes on.                                     *)
LEMMA HolderGoes ==
  ASSUME TInv, IInv', Still, NEW w \in Worker, task[w] # <<>>, Top(w).pc \in Holds,
         NEW pc \in {"session.keep", "session.undo", "poll.answer"}, To(w, pc),
         pc # "session.undo" => Top(w).pc = "issue.told"
  PROVE  TInv'
<1>1. PICK t, x : t = Top(w) /\ x = [t EXCEPT !.pc = pc] /\ Become(w, <<x>>)
  BY DEF To
<1>2. Knows(t) /\ Owes(t) /\ ~Plain(t) /\ Has(t) /\ t = task[w][1] /\ In(t, task[w]) /\ Linked(task[w])
  BY <1>1, TokenTops DEF Holds, Plain, Has
<1>3. {"a", "s"} \subseteq DOMAIN t /\ t.a \in drawn \ given /\ t.s \in Session
  BY <1>2 DEF Owes
<1>4. x.pc = pc /\ x.a = t.a /\ x.s = t.s /\ DOMAIN x = DOMAIN t
  BY <1>1, <1>2, <1>3, Moved
<1>5. t.pc = "issue.told" => Recorded(t.a, t.s)
  BY <1>1, <1>2 DEF Linked, Recs, Holds
<1>6. Lasts /\ TokensFine' /\ \A a \in Token : Untouched(a)
  BY StillSame
<1>7. x.pc \in Holds \ {"issue.told"} /\ x.pc \notin Recs
  BY <1>4 DEF Holds, Recs
<1>8. x.pc # "session.undo" => Recorded(x.a, x.s)
  BY <1>1, <1>4, <1>5
<1>9. Owes(x)
  BY <1>3, <1>4, <1>7, <1>8 DEF Owes, Has, Recs, Closes4
<1>10. x.a \in Token
  BY <1>3, <1>4 DEF TInv, TokensFine
<1>11. Owes(x)'
  BY <1>6, <1>9, <1>10, OwesStays
<1>12. QED
  BY <1>1, <1>2, <1>4, <1>6, <1>7, <1>11, BottomOne

LEMMA TokenThrown ==
  ASSUME TInv, IInv', TokensFine', Lasts, NEW w \in Worker, \A a \in Token : Untouched(a),
         NEW n, task' = [task EXCEPT ![w] = n], n = Unwound(task[w]) \/ n = <<>>
  PROVE  TInv'
<1>1. Shape(task[w])
  BY DEF TInv, IInv
<1>2. CASE n = <<>>
  <2>1. IsStack(n) /\ Len(n) = 0 /\ \A r : ~In(r, n)
    BY <1>2, Tuples, InTuples
  <2>2. \A i \in 1 .. Len(n) : FALSE
    BY <2>1
  <2>3. Linked(n)'
    BY <2>1, <2>2, LinkedNone
  <2>4. QED
    BY <2>1, <2>3, TokenStep
<1>3. CASE n # <<>>
  <2>1. PICK x, q : /\ n = <<x>> /\ In(q, task[w]) /\ q.pc \in DOMAIN Handlers
                    /\ x = [q EXCEPT !.pc = Handlers[@]]
    BY <1>1, <1>3, Unwinds
  <2>2. PICK pc : pc = Handlers[q.pc]
    OBVIOUS
  <2>3. x = [q EXCEPT !.pc = pc] /\ Knows(q) /\ Owes(q)
    BY <2>1, <2>2 DEF TInv, IInv
  <2>4. DOMAIN x = DOMAIN q /\ x.pc = pc /\ \A f \in DOMAIN q \ {"pc"} : x[f] = q[f]
    BY <2>3, Moved
  <2>5. x.pc \notin Recs \cup {"issue.told"} /\ Owes(x)' /\ (Has(x) => Has(q) /\ x.a = q.a)
    <3>1. CASE q.pc = "sweep"
      <4>1. x.pc = "sweep"
        BY <2>2, <2>4, <3>1 DEF Handlers
      <4>2. QED
        BY <4>1, BareOwes DEF Bare, Has, Recs, Holds, Closes4
    <3>2. CASE q.pc \in {"issue.told", "session.keep"}
      <4>1. x.pc \in {"issue.undo", "session.undo"} /\ Has(q)
        BY <2>2, <2>4, <3>2 DEF Handlers, Has, Holds
      <4>2. {"a", "s"} \subseteq DOMAIN q /\ q.a \in drawn \ given /\ q.s \in Session /\ q.a \in Token
        BY <2>3, <4>1 DEF Owes, TInv, TokensFine
      <4>3. x.a = q.a /\ x.s = q.s
        BY <2>4, <4>2
      <4>4. q.a \in drawn' \ given'
        BY <4>2 DEF Lasts, Untouched
      <4>5. QED
        BY <2>4, <4>1, <4>2, <4>3, <4>4 DEF Owes, Has, Recs, Holds, Closes4
    <3>3. QED
      BY <2>1, <3>1, <3>2 DEF Handlers
  <2>6. IsStack(n) /\ Len(n) = 1 /\ n[1] = x /\ \A r : In(r, n) => r = x
    BY <2>1, Tuples, InTuples
  <2>7. \A i \in 1 .. Len(n) : n[i] = x
    BY <2>6
  <2>8. Linked(n)'
    BY <2>5, <2>6, <2>7, LinkedNone
  <2>9. \A r : In(r, n) => Owes(r)' /\ (Has(r) => Mine(w, r.a))
    BY <2>1, <2>5, <2>6 DEF Mine
  <2>10. QED
    BY <2>8, <2>9, TokenStep
<1>4. QED
  BY <1>2, <1>3

LEMMA TokenIssues ==
  ASSUME TInv, IInv', load' = load, NEW w \in Worker, IssueStep(w)
  PROVE  TInv'
<1>1. PICK t : t = Top(w)
  OBVIOUS
<1>2. task[w] # <<>> /\ t.pc \in {"issue.make", "issue.told", "issue.undo"}
  BY <1>1 DEF IssueStep, IssueMake, IssueTold, IssueUndo, Doing, Idle
<1>3. CASE IssueMake(w)
  <2>1. t.pc = "issue.make"
    BY <1>1, <1>3 DEF IssueMake, Doing
  <2>2. t.pc \notin Recs
    BY <2>1 DEF Recs
  <2>3. ASSUME Return(w), UNCHANGED drawn PROVE TInv'
    BY <1>1, <1>2, <1>3, <2>2, <2>3, StillReturn DEF IssueMake, setVars, Still
  <2>4. ASSUME ~(Return(w) /\ UNCHANGED drawn) PROVE TInv'
    <3>1. PICK a \in load.tokens \ drawn :
            /\ drawn' = drawn \cup {a}
            /\ Become(w, <<Record(t.s, a),
                           [pc |-> "issue.told", s |-> t.s, then |-> t.then, d |-> t.d, a |-> a]>>)
      BY <1>1, <1>3, <2>4 DEF IssueMake
    <3>2. UNCHANGED <<setVars, denied, entering, given, finished, faults>>
      BY <1>3 DEF IssueMake
    <3>3. QED
      BY <1>1, <1>2, <2>1, <3>1, <3>2, TokenMade
  <2>5. QED
    BY <2>3, <2>4
<1>4. CASE IssueTold(w)
  <2>1. t.pc = "issue.told" /\ Still /\ To(w, t.then)
    BY <1>1, <1>4 DEF IssueTold, Doing, setVars, outsideVars, Still
  <2>2. t.then \in {"session.keep", "poll.answer"} /\ t.pc \in Holds
    BY <1>1, <1>2, <2>1, TokenTops DEF Knows, Issues, Holds
  <2>3. QED
    BY <1>1, <1>2, <2>1, <2>2, HolderGoes
<1>5. CASE IssueUndo(w)
  <2>1. denied' = denied \cup {t.a} /\ UNCHANGED <<load, kept, index, drawn, given, finished, entering>>
    BY <1>1, <1>5 DEF IssueUndo, Deny, setVars
  <2>2. Lasts /\ TokensFine' /\ \A a \in Token : Untouched(a)
    BY <2>1, Denies
  <2>3. PICK n : n = Unwound(task[w]) /\ task' = [task EXCEPT ![w] = n]
    BY <1>5 DEF IssueUndo, Throw
  <2>4. QED
    BY <2>2, <2>3, TokenThrown
<1>6. QED
  BY <1>3, <1>4, <1>5 DEF IssueStep

LEMMA TokenSessions ==
  ASSUME TInv, IInv', load' = load, NEW w \in Worker, SessionStep(w)
  PROVE  TInv'
<1>1. PICK t : t = Top(w)
  OBVIOUS
<1>2. task[w] # <<>> /\ t.pc \in {"session.enter", "session.keep", "session.undo"}
  BY <1>1 DEF SessionStep, SessionEnter, SessionKeep, SessionUndo, Doing, Idle
<1>3. Owes(t) /\ t.pc \notin Recs /\ ~Plain(t)
  BY <1>1, <1>2, TokenTops DEF Recs, Plain
<1>4. CASE SessionEnter(w)
  <2>1. Still
    BY <1>4 DEF SessionEnter, setVars, outsideVars, Still
  <2>2. ASSUME NEW x, x = Issue(t.s, "session.keep", "none"), Become(w, <<x>>), t.s \in entering PROVE TInv'
    <3>1. x.pc = "issue.make" /\ x.s = t.s /\ "s" \in DOMAIN x
      BY <2>2 DEF Issue
    <3>2. t.s \in Session
      BY <2>2 DEF TInv, TokensFine
    <3>3. Owes(x)' /\ ~Has(x) /\ x.pc \notin Recs \cup {"issue.told"}
      BY <3>1, <3>2 DEF Owes, Has, Recs, Holds, Closes4
    <3>4. QED
      BY <1>1, <1>2, <1>3, <2>1, <2>2, <3>3, StillSame, BottomOne
  <2>3. QED
    BY <1>1, <1>2, <1>3, <1>4, <2>1, <2>2, StillReturn DEF SessionEnter, Return
<1>5. CASE SessionKeep(w)
  <2>1. t.pc = "session.keep" /\ t.pc \in Holds /\ Has(t)
    BY <1>1, <1>5 DEF SessionKeep, Doing, Has, Holds
  <2>2. t.a \in Token /\ t.a \in drawn /\ Recorded(t.a, t.s)
    BY <1>3, <2>1 DEF Owes, TInv, TokensFine
  <2>3. CASE t.s \in entering
    <3>1. /\ Return(w) /\ given' = given \cup {t.a}
          /\ UNCHANGED <<load, kept, index, denied, drawn, finished, entering>>
      BY <1>1, <1>5, <2>3 DEF SessionKeep, setVars
    <3>2. index[t.a] \in entering /\ Kept(t.a, index[t.a])
      BY <2>2, <2>3 DEF Recorded
    <3>3. Lasts /\ TokensFine' /\ \A b \in Token : Untouched(b) \/ t.a = b
      BY <2>2, <3>1, <3>2, Gives
    <3>4. QED
      BY <1>1, <1>2, <1>3, <2>1, <3>1, <3>3, BottomReturn
  <2>4. CASE t.s \notin entering
    <3>1. To(w, "session.undo") /\ Still
      BY <1>1, <1>5, <2>4 DEF SessionKeep, setVars, Still
    <3>2. QED
      BY <1>1, <1>2, <2>1, <3>1, HolderGoes
  <2>5. QED
    BY <2>3, <2>4
<1>6. CASE SessionUndo(w)
  <2>1. /\ denied' = denied \cup {t.a} /\ Return(w)
        /\ UNCHANGED <<load, kept, index, drawn, given, finished, entering>>
    BY <1>1, <1>6 DEF SessionUndo, Deny, setVars
  <2>2. Lasts /\ TokensFine' /\ \A a \in Token : Untouched(a)
    BY <2>1, Denies
  <2>3. QED
    BY <1>1, <1>2, <1>3, <2>1, <2>2, BottomReturn
<1>7. QED
  BY <1>4, <1>5, <1>6 DEF SessionStep

LEMMA TokenDevices ==
  ASSUME TInv, IInv', load' = load, NEW w \in Worker, DeviceWork(w)
  PROVE  TInv'
<1>1. PICK t : t = Top(w)
  OBVIOUS
<1>2. task[w] # <<>> /\ t.pc \in Devices
  BY <1>1 DEF DeviceWork, AuthorizeSave, AuthorizeCode, VerifyEnter, VerifyFind, VerifyAdmit, VerifyDecide,
              VerifyTell, PollRead, PollOpen, PollAdmit, PollTake, PollRevoked, PollEntry, PollAnswer,
              Doing, Idle, Devices, Verifies, Polls
<1>3. Owes(t) /\ t.pc \notin Recs /\ ~Plain(t) /\ "pc" \in DOMAIN t
  BY <1>1, <1>2, TokenTops DEF Recs, Plain, Devices, Verifies, Polls, Knows
<1>4. CASE ~PollAnswer(w)
  <2>1. Still
    BY <1>4 DEF DeviceWork, AuthorizeSave, AuthorizeCode, VerifyEnter, VerifyFind, VerifyAdmit, VerifyDecide,
                VerifyTell, PollRead, PollOpen, PollAdmit, PollTake, PollRevoked, PollEntry,
                setVars, outsideVars, Still
  <2>2. Lasts /\ TokensFine' /\ \A a \in Token : Untouched(a)
    BY <2>1, StillSame
  <2>3. \A pc \in Devices \ {"poll.answer"} :
          pc \notin {"issue.make", "settle.take"} \cup Closes4 \cup Recs \cup Holds
    BY DEF Devices, Verifies, Polls, Closes4, Recs, Holds
  <2>4. ASSUME Return(w) \/ \E pc \in Devices \ {"poll.answer"} : To(w, pc) PROVE TInv'
    BY <1>1, <1>2, <1>3, <2>1, <2>3, <2>4, StillReturn, StillTo
  <2>5. ASSUME NEW pc \in {"poll.open", "poll.revoked"}, NEW s, Become(w, <<[t EXCEPT !.pc = pc, !.s = s]>>)
        PROVE  TInv'
    <3>1. PICK x : x = [t EXCEPT !.pc = pc, !.s = s] /\ Become(w, <<x>>)
      BY <2>5
    <3>2. x.pc = pc
      BY <1>3, <3>1
    <3>3. ~Has(x) /\ Owes(x)' /\ x.pc \notin Recs \cup {"issue.told"}
      BY <3>2, BareOwes DEF Bare, Has, Recs, Holds, Closes4
    <3>4. QED
      BY <1>1, <1>2, <1>3, <2>2, <3>1, <3>3, BottomOne
  <2>6. ASSUME t.s \in entering, Become(w, <<Issue(t.s, "poll.answer", t.d)>>) PROVE TInv'
    <3>1. PICK x : x = Issue(t.s, "poll.answer", t.d) /\ Become(w, <<x>>)
      BY <2>6
    <3>2. x.pc = "issue.make" /\ x.s = t.s /\ "s" \in DOMAIN x
      BY <3>1 DEF Issue
    <3>3. t.s \in Session
      BY <2>6 DEF TInv, TokensFine
    <3>4. Owes(x)' /\ ~Has(x) /\ x.pc \notin Recs \cup {"issue.told"}
      BY <3>2, <3>3 DEF Owes, Has, Recs, Holds, Closes4
    <3>5. QED
      BY <1>1, <1>2, <1>3, <2>2, <3>1, <3>4, BottomOne
  <2>7. CASE AuthorizeSave(w) \/ AuthorizeCode(w) \/ VerifyEnter(w) \/ VerifyAdmit(w) \/ VerifyTell(w)
    BY <2>4, <2>7 DEF AuthorizeSave, AuthorizeCode, VerifyEnter, VerifyAdmit, VerifyTell, Devices, Verifies
  <2>8. CASE VerifyFind(w) \/ VerifyDecide(w)
    <3>1. Return(w) \/ To(w, "verify.admit") \/ To(w, "verify.decide") \/ To(w, "verify.tell")
      BY <2>8 DEF VerifyFind, VerifyDecide
    <3>2. QED
      BY <2>4, <3>1 DEF Devices, Verifies
  <2>9. CASE PollOpen(w) \/ PollAdmit(w) \/ PollRevoked(w)
    <3>1. Return(w) \/ To(w, "poll.admit") \/ To(w, "poll.take") \/ To(w, "poll.entry")
      BY <2>9 DEF PollOpen, PollAdmit, PollRevoked
    <3>2. QED
      BY <2>4, <3>1 DEF Devices, Polls
  <2>10. CASE PollRead(w)
    <3>1. To(w, "poll.take") \/ Become(w, <<[t EXCEPT !.pc = "poll.open", !.s = device[t.d].session]>>)
      BY <1>1, <2>10 DEF PollRead
    <3>2. QED
      BY <2>4, <2>5, <3>1 DEF Devices, Polls
  <2>11. CASE PollTake(w)
    <3>1. Return(w) \/ Become(w, <<[t EXCEPT !.pc = "poll.revoked", !.s = device[t.d].session]>>)
      BY <1>1, <2>11 DEF PollTake
    <3>2. QED
      BY <2>4, <2>5, <3>1
  <2>12. CASE PollEntry(w)
    BY <1>1, <2>4, <2>6, <2>12 DEF PollEntry, Return
  <2>13. QED
    BY <1>4, <2>7, <2>8, <2>9, <2>10, <2>11, <2>12 DEF DeviceWork
<1>5. CASE PollAnswer(w)
  <2>1. t.pc = "poll.answer" /\ Has(t) /\ Return(w)
    BY <1>1, <1>5 DEF PollAnswer, Doing, Has, Holds
  <2>2. t.a \in Token /\ t.a \in drawn /\ Recorded(t.a, t.s)
    BY <1>3, <2>1 DEF Owes, TInv, TokensFine
  <2>3. CASE t.s \in entering
    <3>1. given' = given \cup {t.a} /\ UNCHANGED <<load, kept, index, denied, drawn, finished, entering>>
      BY <1>1, <1>5, <2>3 DEF PollAnswer, setVars
    <3>2. index[t.a] \in entering /\ Kept(t.a, index[t.a])
      BY <2>2, <2>3 DEF Recorded
    <3>3. Lasts /\ TokensFine' /\ \A b \in Token : Untouched(b) \/ t.a = b
      BY <2>2, <3>1, <3>2, Gives
    <3>4. QED
      BY <1>1, <1>2, <1>3, <2>1, <3>3, BottomReturn
  <2>4. CASE t.s \notin entering
    <3>1. Still
      BY <1>1, <1>5, <2>4 DEF PollAnswer, setVars, Still
    <3>2. QED
      BY <1>1, <1>2, <1>3, <2>1, <3>1, StillReturn
  <2>5. QED
    BY <2>3, <2>4
<1>6. QED
  BY <1>4, <1>5


----------------------------------------------------------------------------
(* A worker takes something up, of no token yet.                           *)
LEMMA TokenStarts ==
  ASSUME TInv, IInv', SameTokens, \A s \in finished : s \notin entering', NEW w \in Worker,
         NEW x, Start(w, <<x>>), Bare(x) \/ (Owes(x)' /\ x.pc = "close.held")
  PROVE  TInv'
<1>1. PICK n : n = <<x>>
  OBVIOUS
<1>2. IsStack(n) /\ Len(n) = 1 /\ n[1] = x /\ \A r : In(r, n) => r = x
  BY <1>1, Tuples, InTuples
<1>3. Lasts /\ TokensFine' /\ \A a \in Token : Untouched(a)
  BY TokensSame
<1>4. ~Has(x) /\ Owes(x)'
  BY BareOwes DEF Bare, Has, Recs, Holds
<1>5. \A i \in 1 .. Len(n) : n[i] = x
  BY <1>2
<1>6. \A i \in 1 .. Len(n) : n[i].pc \notin Recs \cup {"issue.told"}
  BY <1>4, <1>5 DEF Has, Holds
<1>7. Linked(n)'
  BY <1>2, <1>6, LinkedNone
<1>8. task' = [task EXCEPT ![w] = n]
  BY <1>1 DEF Start
<1>9. \A r : In(r, n) => Owes(r)' /\ ~Has(r)
  BY <1>2, <1>4
<1>10. QED
  BY <1>3, <1>7, <1>8, <1>9, TokenStep

LEMMA TokenBegins ==
  ASSUME TInv, IInv', load' = load, NEW w \in Worker,
         BeginDevice(w) \/ BeginVerify(w) \/ BeginPoll(w) \/ BeginSession(w) \/ BeginClose(w) \/ BeginSweep(w)
  PROVE  TInv'
<1>1. ASSUME Still, NEW x, Start(w, <<x>>),
             x.pc \in {"authorize.save", "verify.enter", "poll.read", "session.enter", "sweep"}
      PROVE  TInv'
  <2>1. Bare(x)
    BY <1>1 DEF Bare, Has, Recs, Holds, Closes4
  <2>2. SameTokens /\ \A s \in finished : s \notin entering'
    BY <1>1 DEF Still, SameTokens, TInv, TokensFine
  <2>3. QED
    BY <1>1, <2>1, <2>2, TokenStarts
<1>2. CASE ~BeginClose(w)
  <2>1. Still
    BY <1>2 DEF BeginDevice, BeginVerify, BeginPoll, BeginSession, BeginSweep, setVars, outsideVars, Still
  <2>2. PICK x : /\ Start(w, <<x>>)
                 /\ x.pc \in {"authorize.save", "verify.enter", "poll.read", "session.enter", "sweep"}
    <3>1. CASE BeginDevice(w)
      BY <3>1 DEF BeginDevice, Begin
    <3>2. CASE BeginVerify(w)
      BY <3>2 DEF BeginVerify, Begin
    <3>3. CASE BeginPoll(w)
      BY <3>3 DEF BeginPoll, Begin
    <3>4. CASE BeginSession(w)
      BY <3>4 DEF BeginSession, Begin
    <3>5. CASE BeginSweep(w)
      BY <3>5 DEF BeginSweep, Begin
    <3>6. QED
      BY <1>2, <3>1, <3>2, <3>3, <3>4, <3>5
  <2>3. QED
    BY <1>1, <2>1, <2>2
<1>3. CASE BeginClose(w)
  <2>1. PICK s, x : /\ s \in Session /\ entering' = entering \ {s} /\ Start(w, <<x>>)
                    /\ x = [pc |-> "close.held", s |-> s, todo |-> {}]
    BY <1>3 DEF BeginClose, Begin
  <2>2. x.pc = "close.held" /\ x.s = s /\ {"s", "todo"} \subseteq DOMAIN x
    BY <2>1
  <2>3. Owes(x)'
    BY <2>1, <2>2 DEF Owes, Has, Recs, Holds, Closes4
  <2>4. SameTokens /\ \A c \in finished : c \notin entering'
    BY <1>3, <2>1 DEF BeginClose, SameTokens, setVars, TInv, TokensFine
  <2>5. QED
    BY <2>1, <2>2, <2>3, <2>4, TokenStarts
<1>4. QED
  BY <1>2, <1>3

LEMMA TokenStutters ==
  ASSUME TInv, IInv', Still, UNCHANGED task
  PROVE  TInv'
<1>1. Lasts /\ TokensFine' /\ \A a \in Token : Untouched(a)
  BY StillSame
<1>2. ASSUME NEW w \in Worker PROVE Linked(task[w])' /\ \A r : In(r, task'[w]) => Owes(r)'
  <2>1. PICK s : s = task[w] /\ s = task'[w]
    OBVIOUS
  <2>2. Linked(s) /\ \A r : In(r, s) => Owes(r)
    BY <2>1 DEF TInv
  <2>3. \A r : In(r, s) /\ Has(r) => Untouched(r.a)
    BY <1>1, <2>2 DEF Owes, TInv, TokensFine
  <2>4. Linked(s)' /\ \A r : In(r, s) => Owes(r)'
    BY <1>1, <2>2, <2>3, LinkedStays, OwesStays
  <2>5. QED
    BY <2>1, <2>4
<1>3. (\A v, w \in Worker : Shared(v, w) => v = w)'
  BY DEF TInv, Shared
<1>4. QED
  BY <1>1, <1>2, <1>3 DEF TInv

LEMMA TokensStart == Init => TInv
<1> SUFFICES ASSUME Init PROVE TInv
  OBVIOUS
<1>1. /\ \A w \in Worker : task[w] = <<>>
      /\ kept = [s \in Session |-> NoMembers] /\ index = [t \in Token |-> "none"]
      /\ load \in Loads /\ denied = {} /\ entering = Session /\ drawn = {} /\ given = {} /\ finished = {}
  BY DEF Init, SessionTokensInit
<1>2. IsStack(<<>>) /\ Len(<<>>) = 0 /\ \A r : ~In(r, <<>>)
  BY Tuples, InTuples
<1>3. \A i \in 2 .. Len(<<>>) : FALSE
  BY <1>2
<1>4. Linked(<<>>)
  BY <1>2, <1>3 DEF Linked
<1>5. TokensFine
  BY <1>1 DEF TokensFine, ClosedKeepsNone, NoMembers
<1>6. \A v, w \in Worker : ~Shared(v, w)
  BY <1>1, <1>2 DEF Shared
<1>7. QED
  BY <1>1, <1>2, <1>4, <1>5, <1>6, Starts DEF TInv

LEMMA TokensStep == TInv /\ [Next]_allVars => TInv'
<1> SUFFICES ASSUME TInv, [Next]_allVars PROVE TInv'
  OBVIOUS
<1>1. IInv'
  BY Steps DEF TInv
<1>2. CASE UNCHANGED allVars
  BY <1>1, <1>2, TokenStutters DEF allVars, vars, setVars, outsideVars, Still
<1>3. load' = load
  BY DEF Next, allVars, vars
<1>4. CASE SessionTokensNext
  <2>1. ASSUME NEW w \in Worker, Fails(w) \/ Crash(w) PROVE TInv'
    <3>1. PICK n : task' = [task EXCEPT ![w] = n] /\ (n = Unwound(task[w]) \/ n = <<>>)
      BY <2>1 DEF Fails, Crash, Throw, Drop
    <3>2. Lasts /\ TokensFine' /\ \A a \in Token : Untouched(a)
      BY <1>3, <2>1, StillSame DEF Fails, Crash, setVars, Still
    <3>3. QED
      BY <1>1, <3>1, <3>2, TokenThrown
  <2>2. QED
    BY <1>1, <1>3, <1>4, <2>1, TokenSettles, TokenRecords, TokenCloses, TokenSweeps, TokenIssues,
       TokenSessions, TokenBegins
    DEF SessionTokensNext, Work
<1>5. ASSUME NEW w \in Worker, DeviceWork(w) \/ BeginDevice(w) \/ BeginVerify(w) \/ BeginPoll(w)
      PROVE  TInv'
  BY <1>1, <1>3, <1>5, TokenDevices, TokenBegins
<1>6. ASSUME NEW d \in Device, DeviceEnds(d) PROVE TInv'
  BY <1>1, <1>3, <1>6, TokenStutters DEF DeviceEnds, setVars, outsideVars, Still
<1>7. QED
  BY <1>2, <1>4, <1>5, <1>6 DEF Next

(* Once a session's tokens were closed, every token a client got from it   *)
(* is revoked, by however many grants, closings and sweeps at once, however*)
(* many an add pushes out, and whatever fails or stops: none is recorded   *)
(* behind what the closing read and still answered (module.ts closing,     *)
(* recorder, settler; session-grant grant.ts keep; device-grant grant.ts   *)
(* stillOpen).                                                             *)
THEOREM NoneAfterClose == Spec => []ClosedKeepsNone
<1>1. TInv => ClosedKeepsNone
  BY DEF TInv, TokensFine
<1>2. QED
  BY <1>1, TokensStart, TokensStep, PTL DEF Spec

----------------------------------------------------------------------------
(***************************************************************************)
(* Types, and how deep a stack grows: a frame that is called is of a lower *)
(* rank than the one that called it.                                       *)
(***************************************************************************)
Inner ==
  {"settle.read", "settle.deny", "settle.check", "settle.done", "settle.again", "settle.add",
   "record.index", "record.near", "record.list", "record.add", "record.relist"}
OfSession ==
  Inner \cup Closes4 \cup Verifies \cup
  {"settle.take", "issue.make", "issue.told", "issue.undo", "session.enter", "session.keep", "session.undo",
   "poll.revoked", "poll.entry", "poll.answer"}
OfToken == {"settle.take"} \cup Recs \cup Holds
Walking == {"settle.read", "settle.deny", "sweep"} \cup Closes4

Rank(r) == IF r.pc = "settle.take" THEN 0 ELSE IF r.pc \in Inner THEN 1 ELSE 2

Ranked(s) == \A i \in 1 .. Len(s) : i < Len(s) => Rank(s[i]) < Rank(s[i + 1])

Typed(r) ==
  /\ "pc" \in DOMAIN r /\ r.pc \in TokenPcs \cup DevicePcs
  /\ r.pc \in OfSession => "s" \in DOMAIN r /\ r.s \in Session
  /\ r.pc \in Polls => "s" \in DOMAIN r
  /\ r.pc \in OfToken => "a" \in DOMAIN r /\ r.a \in drawn
  /\ r.pc \in Walking => "todo" \in DOMAIN r
  /\ r.pc \in {"settle.deny", "close.deny", "close.rest"} => r.todo \subseteq drawn
  /\ r.pc = "sweep" => r.todo \subseteq Session
  /\ r.pc \in Verifies => "action" \in DOMAIN r /\ r.action \in {"approve", "deny"}

DeviceType ==
  {NoDevice} \cup {InState(st) : st \in {"pending", "denied", "taken"}}
             \cup [state : {"approved", "taken"}, session : Session]

SetsFine ==
  /\ load \in Loads
  /\ kept \in [Session -> [held : SUBSET drawn, awaiting : SUBSET drawn]]
  /\ index \in [Token -> Session \cup {"none"}]
  /\ pending \subseteq Session /\ entering \subseteq Session /\ finished \subseteq Session
  /\ given \subseteq drawn /\ denied \subseteq drawn /\ drawn \subseteq Token
  /\ faults \in 0 .. load.faults

DevicesFine ==
  /\ device \in [Device -> DeviceType]
  /\ coded \subseteq Device /\ ended \subseteq Device
  /\ told \subseteq Device \X {"approve", "deny"} \X Worker /\ answers \subseteq Device \X Token

YInv ==
  /\ IInv
  /\ SetsFine
  /\ DevicesFine
  /\ \A w \in Worker : Ranked(task[w]) /\ \A r : In(r, task[w]) => Typed(r)

----------------------------------------------------------------------------
LEMMA Ranks ==
  ASSUME NEW r
  PROVE  Rank(r) \in 0 .. 2
BY DEF Rank

LEMMA RankedPushed ==
  ASSUME NEW s, IsStack(s), s # <<>>, Ranked(s), NEW a, IsStack(a), Ranked(a),
         \A i \in 1 .. Len(a) : Rank(a[i]) <= Rank(s[1])
  PROVE  Ranked(a \o Tail(s))
<1> DEFINE n == a \o Tail(s)
           k == Len(a)
           l == Len(s)
<1>1. l \in Nat \ {0} /\ k \in Nat
  BY IsStackParts
<1>2. Len(n) = k + l - 1 /\ \A i \in 1 .. Len(n) : n[i] = IF i <= k THEN a[i] ELSE s[i - k + 1]
  BY Made
<1>3. /\ \A i \in 1 .. l : i < l => Rank(s[i]) < Rank(s[i + 1])
      /\ \A i \in 1 .. k : i < k => Rank(a[i]) < Rank(a[i + 1])
      /\ \A i \in 1 .. k : Rank(a[i]) <= Rank(s[1])
  BY DEF Ranked
<1> HIDE DEF n, k, l
<1>4. ASSUME NEW i \in 1 .. Len(n), i < Len(n) PROVE Rank(n[i]) < Rank(n[i + 1])
  <2>0. i \in Nat /\ i >= 1 /\ i < k + l - 1 /\ i + 1 \in 1 .. Len(n)
    BY <1>1, <1>2, <1>4
  <2>1. CASE i < k
    <3>1. n[i] = a[i] /\ n[i + 1] = a[i + 1]
      BY <1>1, <1>2, <2>0, <2>1
    <3>2. QED
      BY <1>1, <1>3, <2>0, <2>1, <3>1
  <2>2. CASE i = k
    <3>1. n[i] = a[i] /\ n[i + 1] = s[2] /\ 1 \in 1 .. l /\ 1 < l
      BY <1>1, <1>2, <2>0, <2>2
    <3>2. Rank(s[1]) < Rank(s[1 + 1]) /\ Rank(a[i]) <= Rank(s[1])
      BY <1>1, <1>3, <2>0, <2>2, <3>1
    <3>3. QED
      BY <3>1, <3>2, Ranks
  <2>3. CASE i > k
    <3>1. PICK j : j = i - k + 1
      OBVIOUS
    <3>2. j \in 1 .. l /\ j < l /\ n[i] = s[j] /\ n[i + 1] = s[j + 1]
      BY <1>1, <1>2, <2>0, <2>3, <3>1
    <3>3. QED
      BY <1>3, <3>2
  <2>4. QED
    BY <1>1, <2>0, <2>1, <2>2, <2>3
<1>5. QED
  BY <1>4 DEF Ranked, n

(* A stack is of three frames at most.                                     *)
LEMMA RankedShort ==
  ASSUME NEW s, IsStack(s), Ranked(s)
  PROVE  Len(s) <= 3
<1>1. PICK l : l = Len(s)
  OBVIOUS
<1>2. l \in Nat
  BY <1>1, IsStackParts
<1>3. SUFFICES ASSUME l > 3 PROVE FALSE
  BY <1>1, <1>2
<1>4. Rank(s[1]) < Rank(s[1 + 1]) /\ Rank(s[2]) < Rank(s[2 + 1]) /\ Rank(s[3]) < Rank(s[3 + 1])
  BY <1>1, <1>2, <1>3 DEF Ranked
<1>5. QED
  BY <1>4, Ranks

LEMMA RankedTuples ==
  ASSUME NEW x, NEW y
  PROVE  Ranked(<<>>) /\ Ranked(<<x>>) /\ (Rank(x) < Rank(y) => Ranked(<<x, y>>))
<1>1. ASSUME NEW s, NEW k \in 0 .. 2, Len(s) = k, k = 2 => Rank(s[1]) < Rank(s[2]) PROVE Ranked(s)
  <2>1. ASSUME NEW i \in 1 .. k, i < k PROVE Rank(s[i]) < Rank(s[i + 1])
    <3>1. i = 1 /\ k = 2
      BY <2>1
    <3>2. QED
      BY <1>1, <3>1
  <2>2. QED
    BY <1>1, <2>1 DEF Ranked
<1>2. Ranked(<<>>)
  BY <1>1, Tuples
<1>3. Ranked(<<x>>)
  BY <1>1, Tuples
<1>4. Rank(x) < Rank(y) => Ranked(<<x, y>>)
  <2>1. PICK s : s = <<x, y>>
    OBVIOUS
  <2>2. Len(s) = 2 /\ s[1] = x /\ s[2] = y
    BY <2>1, Tuples
  <2>3. QED
    BY <1>1, <2>1, <2>2
<1>5. QED
  BY <1>2, <1>3, <1>4

LEMMA TypesCorrect == YInv => TypeOK
<1> SUFFICES ASSUME YInv PROVE TypeOK
  OBVIOUS
<1>1. kept \in [Session -> [held : SUBSET Token, awaiting : SUBSET Token]]
  <2>1. SUBSET drawn \subseteq SUBSET Token
    BY DEF YInv, SetsFine
  <2>2. [held : SUBSET drawn, awaiting : SUBSET drawn] \subseteq [held : SUBSET Token, awaiting : SUBSET Token]
    BY <2>1
  <2>3. QED
    BY <2>2 DEF YInv, SetsFine
<1>2. ASSUME NEW w \in Worker PROVE Len(task[w]) <= 3 /\ \A i \in DOMAIN task[w] : task[w][i].pc \in TokenPcs \cup DevicePcs
  <2>1. PICK s : s = task[w]
    OBVIOUS
  <2>2. IsStack(s) /\ Ranked(s) /\ \A r : In(r, s) => Typed(r)
    BY <2>1 DEF YInv, IInv, Shape
  <2>3. Len(s) \in Nat /\ DOMAIN s = 1 .. Len(s) /\ Len(s) <= 3
    BY <2>2, IsStackParts, RankedShort
  <2>4. ASSUME NEW i \in DOMAIN s PROVE s[i].pc \in TokenPcs \cup DevicePcs
    <3>1. In(s[i], s)
      BY <2>3 DEF In
    <3>2. QED
      BY <2>2, <3>1 DEF Typed
  <2>5. QED
    BY <2>1, <2>3, <2>4
<1>3. SessionTokensTypeOK
  BY <1>1, <1>2 DEF YInv, SetsFine, SessionTokensTypeOK
<1>4. QED
  BY <1>2, <1>3 DEF YInv, DevicesFine, DeviceType, TypeOK

----------------------------------------------------------------------------
LEMMA TypedStays ==
  ASSUME NEW r, Typed(r), drawn \subseteq drawn'
  PROVE  Typed(r)'
BY DEF Typed

(* A step of w, and what it leaves on its stack.                           *)
LEMMA TypedStep ==
  ASSUME YInv, IInv', SetsFine', DevicesFine', drawn \subseteq drawn', NEW w \in Worker,
         NEW n, task' = [task EXCEPT ![w] = n], Ranked(n), \A r : In(r, n) => Typed(r)'
  PROVE  YInv'
<1>1. task'[w] = n /\ \A v \in Worker \ {w} : task'[v] = task[v]
  BY DEF YInv, IInv
<1>2. ASSUME NEW v \in Worker PROVE Ranked(task'[v]) /\ \A r : In(r, task'[v]) => Typed(r)'
  <2>1. CASE v = w
    BY <1>1, <2>1
  <2>2. CASE v # w
    BY <1>1, <2>2, TypedStays DEF YInv
  <2>3. QED
    BY <2>1, <2>2
<1>3. QED
  BY <1>2 DEF YInv

LEMMA TypedTops ==
  ASSUME YInv, NEW w \in Worker, task[w] # <<>>
  PROVE  /\ Typed(Top(w)) /\ Knows(Top(w)) /\ IsStack(task[w]) /\ Ranked(task[w])
         /\ Top(w) = task[w][1] /\ "pc" \in DOMAIN Top(w)
BY Tops DEF YInv, Typed

LEMMA TypedBecome ==
  ASSUME YInv, IInv', SetsFine', DevicesFine', drawn \subseteq drawn', NEW w \in Worker, task[w] # <<>>,
         NEW a, IsStack(a), Become(w, a), Ranked(a), \A i \in 1 .. Len(a) : Rank(a[i]) <= Rank(Top(w)),
         \A r : In(r, a) => Typed(r)'
  PROVE  YInv'
<1>1. PICK s, n : s = task[w] /\ n = a \o Tail(s)
  OBVIOUS
<1>2. IsStack(s) /\ Ranked(s) /\ Top(w) = s[1] /\ s # <<>> /\ \A r : In(r, s) => Typed(r)
  BY <1>1, TypedTops DEF YInv
<1>3. Ranked(n)
  BY <1>1, <1>2, RankedPushed
<1>4. \A r : In(r, n) => Typed(r)'
  BY <1>1, <1>2, InPushed, TypedStays
<1>5. QED
  BY <1>1, <1>3, <1>4, TypedStep DEF Become

LEMMA TypedReturn ==
  ASSUME YInv, IInv', SetsFine', DevicesFine', drawn \subseteq drawn', NEW w \in Worker, task[w] # <<>>,
         Return(w)
  PROVE  YInv'
<1>1. PICK a : a = <<>>
  OBVIOUS
<1>2. IsStack(a) /\ Become(w, a) /\ Len(a) = 0 /\ Ranked(a) /\ \A r : ~In(r, a)
  BY <1>1, Tuples, InTuples, RankedTuples DEF Return
<1>3. \A i \in 1 .. Len(a) : FALSE
  BY <1>2
<1>4. QED
  BY <1>2, <1>3, TypedBecome

LEMMA TypedOne ==
  ASSUME YInv, IInv', SetsFine', DevicesFine', drawn \subseteq drawn', NEW w \in Worker, task[w] # <<>>,
         NEW x, Become(w, <<x>>), Rank(x) <= Rank(Top(w)), Typed(x)'
  PROVE  YInv'
<1>1. PICK a : a = <<x>>
  OBVIOUS
<1>2. IsStack(a) /\ Become(w, a) /\ Len(a) = 1 /\ a[1] = x /\ Ranked(a) /\ \A r : In(r, a) => r = x
  BY <1>1, Tuples, InTuples, RankedTuples
<1>3. \A i \in 1 .. Len(a) : i = 1
  BY <1>2
<1>4. QED
  BY <1>2, <1>3, TypedBecome

LEMMA TypedTwo ==
  ASSUME YInv, IInv', SetsFine', DevicesFine', drawn \subseteq drawn', NEW w \in Worker, task[w] # <<>>,
         NEW x, NEW y, Become(w, <<x, y>>), Rank(x) < Rank(y), Rank(y) <= Rank(Top(w)), Typed(x)', Typed(y)'
  PROVE  YInv'
<1>1. PICK a : a = <<x, y>>
  OBVIOUS
<1>2. /\ IsStack(a) /\ Become(w, a) /\ Len(a) = 2 /\ a[1] = x /\ a[2] = y /\ Ranked(a)
      /\ \A r : In(r, a) => r \in {x, y}
  BY <1>1, Tuples, InTuples, RankedTuples
<1>3. \A i \in 1 .. Len(a) : i = 1 \/ i = 2
  BY <1>2
<1>4. Rank(x) <= Rank(Top(w))
  BY Ranks
<1>5. QED
  BY <1>2, <1>3, <1>4, TypedBecome

----------------------------------------------------------------------------
SameSets == UNCHANGED <<load, kept, index, pending, denied, entering, drawn, given, finished, faults>>

LEMMA SetsSame ==
  ASSUME YInv, SameSets
  PROVE  SetsFine' /\ drawn \subseteq drawn'
BY DEF YInv, SetsFine, SameSets

LEMMA DevicesSame ==
  ASSUME YInv, UNCHANGED deviceVars
  PROVE  DevicesFine'
<1>1. device' = device /\ coded' = coded /\ ended' = ended /\ told' = told /\ answers' = answers
  BY DEF deviceVars
<1>2. QED
  BY <1>1 DEF YInv, DevicesFine

(* A frame that goes on under another pc keeps its fields.                 *)
Follows(pc, old) ==
  /\ pc \in TokenPcs \cup DevicePcs
  /\ pc \in OfSession => old \in OfSession
  /\ pc \in Polls => old \in OfSession \cup Polls
  /\ pc \in OfToken => old \in OfToken
  /\ pc \in Walking => old \in Walking
  /\ pc \notin {"settle.deny", "close.deny", "close.rest"}
  /\ pc = "sweep" => old = "sweep"
  /\ pc \in Verifies => old \in Verifies

LEMMA TypedMoved ==
  ASSUME NEW t, Typed(t), NEW pc, Follows(pc, t.pc), NEW x, x = [t EXCEPT !.pc = pc]
  PROVE  Typed(x) /\ x.pc = pc
<1>1. DOMAIN x = DOMAIN t /\ x.pc = pc /\ \A f \in DOMAIN t \ {"pc"} : x[f] = t[f]
  BY DEF Typed
<1>2. "s" \in DOMAIN t => x.s = t.s
  BY <1>1
<1>3. "a" \in DOMAIN t => x.a = t.a
  BY <1>1
<1>4. "todo" \in DOMAIN t => x.todo = t.todo
  BY <1>1
<1>5. "action" \in DOMAIN t => x.action = t.action
  BY <1>1
<1>6. pc \in Verifies => "action" \in DOMAIN x /\ x.action \in {"approve", "deny"}
  BY <1>1, <1>5 DEF Typed, Follows
<1>7. pc \in OfSession => "s" \in DOMAIN x /\ x.s \in Session
  BY <1>1, <1>2 DEF Typed, Follows
<1>8. pc \in OfToken => "a" \in DOMAIN x /\ x.a \in drawn
  BY <1>1, <1>3 DEF Typed, Follows
<1>9. pc = "sweep" => "todo" \in DOMAIN x /\ x.todo \subseteq Session
  BY <1>1, <1>4 DEF Typed, Follows, Walking
<1>10. pc \in Walking => "todo" \in DOMAIN x
  BY <1>1 DEF Typed, Follows
<1>11. pc \in Polls => "s" \in DOMAIN x
  BY <1>1 DEF Typed, Follows
<1>12. QED
  BY <1>1, <1>6, <1>7, <1>8, <1>9, <1>10, <1>11 DEF Typed, Follows

LEMMA TypedTo ==
  ASSUME YInv, IInv', SetsFine', DevicesFine', drawn \subseteq drawn', NEW w \in Worker, task[w] # <<>>,
         NEW pc, To(w, pc), Follows(pc, Top(w).pc), Rank([pc |-> pc]) <= Rank(Top(w))
  PROVE  YInv'
<1>1. PICK t, x : t = Top(w) /\ x = [t EXCEPT !.pc = pc]
  OBVIOUS
<1>2. Typed(t)
  BY <1>1, TypedTops
<1>3. Typed(x) /\ x.pc = pc
  BY <1>1, <1>2, TypedMoved
<1>4. Rank(x) = Rank([pc |-> pc])
  BY <1>3 DEF Rank
<1>5. Typed(x)'
  BY <1>3, TypedStays
<1>6. Become(w, <<x>>)
  BY <1>1 DEF To
<1>7. QED
  BY <1>1, <1>4, <1>5, <1>6, TypedOne

LEMMA TypedThrown ==
  ASSUME YInv, IInv', SetsFine', DevicesFine', drawn \subseteq drawn', NEW w \in Worker,
         NEW n, task' = [task EXCEPT ![w] = n], n = Unwound(task[w]) \/ n = <<>>
  PROVE  YInv'
<1>1. Shape(task[w])
  BY DEF YInv, IInv
<1>2. CASE n = <<>>
  <2>1. Ranked(n) /\ \A r : ~In(r, n)
    BY <1>2, RankedTuples, InTuples
  <2>2. QED
    BY <2>1, TypedStep
<1>3. CASE n # <<>>
  <2>1. PICK x, q : /\ n = <<x>> /\ In(q, task[w]) /\ q.pc \in DOMAIN Handlers
                    /\ x = [q EXCEPT !.pc = Handlers[@]]
    BY <1>1, <1>3, Unwinds
  <2>2. PICK pc : pc = Handlers[q.pc]
    OBVIOUS
  <2>3. \/ q.pc = "issue.told" /\ pc = "issue.undo"
        \/ q.pc = "session.keep" /\ pc = "session.undo"
        \/ q.pc = "sweep" /\ pc = "sweep"
    BY <2>1, <2>2 DEF Handlers
  <2>4. Follows(pc, q.pc)
    BY <2>3 DEF Follows, OfSession, OfToken, Polls, Walking, Verifies, Closes4, Inner, Recs, Holds, TokenPcs
  <2>5. x = [q EXCEPT !.pc = pc] /\ Typed(q)
    BY <2>1, <2>2 DEF YInv
  <2>6. Typed(x)'
    BY <2>4, <2>5, TypedMoved, TypedStays
  <2>7. Ranked(n) /\ \A r : In(r, n) => r = x
    BY <2>1, RankedTuples, InTuples
  <2>8. QED
    BY <2>6, <2>7, TypedStep
<1>4. QED
  BY <1>2, <1>3

LEMMA TypedBegun ==
  ASSUME YInv, IInv', SetsFine', DevicesFine', drawn \subseteq drawn', NEW w \in Worker,
         NEW x, Start(w, <<x>>), Typed(x)'
  PROVE  YInv'
<1>1. PICK n : n = <<x>>
  OBVIOUS
<1>2. Ranked(n) /\ \A r : In(r, n) => r = x
  BY <1>1, RankedTuples, InTuples
<1>3. QED
  BY <1>1, <1>2, TypedStep DEF Start

----------------------------------------------------------------------------
(* A token revoked is one that was drawn.                                  *)
LEMMA DenyFine ==
  ASSUME YInv, load' = load, UNCHANGED setVars, NEW a \in drawn, Deny(a)
  PROVE  SetsFine' /\ drawn \subseteq drawn'
BY DEF YInv, SetsFine, Deny, setVars

LEMMA YSettles ==
  ASSUME YInv, IInv', load' = load, UNCHANGED deviceVars, NEW w \in Worker, SettleStep(w)
  PROVE  YInv'
<1>1. PICK t : t = Top(w)
  OBVIOUS
<1>2. /\ task[w] # <<>>
      /\ t.pc \in {"settle.read", "settle.deny", "settle.take", "settle.check", "settle.done", "settle.again",
                   "settle.add"}
  BY <1>1 DEF SettleStep, SettleRead, SettleDeny, SettleTake, SettleCheck, SettleDone, SettleAgain, SettleAdd,
              Doing, Idle
<1>3. Typed(t) /\ "pc" \in DOMAIN t
  BY <1>1, <1>2, TypedTops
<1>4. DevicesFine'
  BY DevicesSame
<1>5. t.s \in Session /\ "s" \in DOMAIN t
  BY <1>2, <1>3 DEF Typed, OfSession, Inner
<1>6. ASSUME SetsFine', drawn \subseteq drawn', NEW pc \in {"settle.check", "settle.done", "settle.again", "settle.add"},
             To(w, pc), t.pc # "settle.take"
      PROVE  YInv'
  <2>1. Follows(pc, t.pc)
    BY <1>2, <1>6 DEF Follows, OfSession, OfToken, Polls, Walking, Verifies, Closes4, Inner, Recs, Holds, TokenPcs
  <2>2. Rank([pc |-> pc]) <= Rank(t)
    BY <1>2, <1>6 DEF Rank, Inner
  <2>3. QED
    BY <1>1, <1>2, <1>4, <1>6, <2>1, <2>2, TypedTo
<1>7. CASE SettleRead(w)
  <2>1. PICK x : x = [t EXCEPT !.pc = "settle.deny", !.todo = kept[t.s].awaiting] /\ Become(w, <<x>>)
    BY <1>1, <1>7 DEF SettleRead
  <2>2. t.pc = "settle.read" /\ "todo" \in DOMAIN t
    BY <1>1, <1>3, <1>7 DEF SettleRead, Doing, Typed, Walking
  <2>3. x.pc = "settle.deny" /\ x.todo = kept[t.s].awaiting /\ x.s = t.s /\ DOMAIN x = DOMAIN t
    BY <1>3, <1>5, <2>1, <2>2
  <2>4. kept[t.s].awaiting \subseteq drawn
    BY <1>5 DEF YInv, SetsFine
  <2>5. Typed(x)
    BY <1>3, <1>5, <2>2, <2>3, <2>4 DEF Typed, OfSession, OfToken, Polls, Walking, Verifies, Closes4, Recs, Holds, TokenPcs
  <2>6. Rank(x) <= Rank(t)
    BY <2>2, <2>3 DEF Rank, Inner
  <2>7. SetsFine' /\ drawn \subseteq drawn'
    BY <1>7, SetsSame DEF SettleRead, SameSets, setVars, outsideVars
  <2>8. QED
    BY <1>1, <1>2, <1>4, <2>1, <2>5, <2>6, <2>7, TypedOne, TypedStays
<1>8. CASE SettleDeny(w)
  <2>1. t.pc = "settle.deny" /\ t.todo \subseteq drawn /\ "todo" \in DOMAIN t
    BY <1>1, <1>3, <1>8 DEF SettleDeny, Doing, Typed, Walking
  <2>2. ASSUME NEW a \in t.todo, Deny(a),
               Become(w, <<[pc |-> "settle.take", s |-> t.s, a |-> a], [t EXCEPT !.todo = @ \ {a}]>>)
        PROVE  YInv'
    <3>1. PICK x, y : /\ x = [pc |-> "settle.take", s |-> t.s, a |-> a]
                      /\ y = [t EXCEPT !.todo = @ \ {a}] /\ Become(w, <<x, y>>)
      BY <2>2
    <3>2. y.pc = t.pc /\ y.s = t.s /\ y.todo = t.todo \ {a} /\ DOMAIN y = DOMAIN t
      BY <1>3, <1>5, <2>1, <3>1
    <3>3. x.pc = "settle.take" /\ DOMAIN x = {"pc", "s", "a"} /\ x.s = t.s /\ x.a = a
      BY <3>1
    <3>4. Typed(y)
      BY <1>3, <1>5, <2>1, <3>2 DEF Typed, OfSession, OfToken, Polls, Walking, Verifies, Closes4, Recs, Holds, TokenPcs
    <3>5. Typed(x)
      BY <1>5, <2>1, <3>3 DEF Typed, OfSession, OfToken, Polls, Walking, Verifies, Closes4, Recs, Holds, TokenPcs
    <3>6. Rank(x) < Rank(y) /\ Rank(y) <= Rank(t)
      BY <2>1, <3>2, <3>3 DEF Rank, Inner
    <3>7. SetsFine' /\ drawn \subseteq drawn'
      BY <1>8, <2>1, <2>2, DenyFine DEF SettleDeny
    <3>8. QED
      BY <1>1, <1>2, <1>4, <3>1, <3>4, <3>5, <3>6, <3>7, TypedTwo, TypedStays
  <2>3. ASSUME To(w, "settle.check"), UNCHANGED outsideVars PROVE YInv'
    <3>1. SetsFine' /\ drawn \subseteq drawn'
      BY <1>8, <2>3, SetsSame DEF SettleDeny, SameSets, setVars, outsideVars
    <3>2. QED
      BY <1>6, <2>1, <2>3, <3>1
  <2>4. QED
    BY <1>1, <1>8, <2>2, <2>3 DEF SettleDeny
<1>9. CASE SettleTake(w)
  <2>1. SetsFine' /\ drawn \subseteq drawn'
    <3>1. kept' = [kept EXCEPT ![t.s] = Settled(@, t.a)] /\ UNCHANGED <<index, pending, outsideVars>>
      BY <1>1, <1>9 DEF SettleTake
    <3>2. kept \in [Session -> [held : SUBSET drawn, awaiting : SUBSET drawn]]
      BY DEF YInv, SetsFine
    <3>3. Settled(kept[t.s], t.a) \in [held : SUBSET drawn, awaiting : SUBSET drawn]
      BY <1>5, <3>2 DEF Settled
    <3>4. kept' \in [Session -> [held : SUBSET drawn, awaiting : SUBSET drawn]]
      BY <1>5, <3>1, <3>2, <3>3
    <3>5. QED
      BY <3>1, <3>4 DEF YInv, SetsFine, outsideVars
  <2>2. QED
    BY <1>2, <1>4, <1>9, <2>1, TypedReturn DEF SettleTake
<1>10. CASE SettleCheck(w)
  <2>1. SetsFine' /\ drawn \subseteq drawn' /\ t.pc # "settle.take"
    BY <1>1, <1>10, SetsSame DEF SettleCheck, SameSets, setVars, outsideVars, Doing
  <2>2. QED
    BY <1>2, <1>4, <1>6, <1>10, <2>1, TypedReturn DEF SettleCheck
<1>11. CASE SettleDone(w)
  <2>1. SetsFine' /\ drawn \subseteq drawn' /\ t.pc # "settle.take"
    BY <1>1, <1>11 DEF SettleDone, YInv, SetsFine, outsideVars, Doing
  <2>2. QED
    BY <1>6, <1>11, <2>1 DEF SettleDone
<1>12. CASE SettleAgain(w)
  <2>1. SetsFine' /\ drawn \subseteq drawn' /\ t.pc # "settle.take"
    BY <1>1, <1>12, SetsSame DEF SettleAgain, SameSets, setVars, outsideVars, Doing
  <2>2. QED
    BY <1>2, <1>4, <1>6, <1>12, <2>1, TypedReturn DEF SettleAgain
<1>13. CASE SettleAdd(w)
  <2>1. SetsFine' /\ drawn \subseteq drawn'
    BY <1>1, <1>5, <1>13 DEF SettleAdd, YInv, SetsFine, outsideVars
  <2>2. QED
    BY <1>2, <1>4, <1>13, <2>1, TypedReturn DEF SettleAdd
<1>14. QED
  BY <1>7, <1>8, <1>9, <1>10, <1>11, <1>12, <1>13 DEF SettleStep

LEMMA AddedFine ==
  ASSUME YInv, NEW s \in Session, NEW a \in drawn, NEW out \in OverCap(kept[s].held, a, load.cap)
  PROVE  [kept EXCEPT ![s] = Added(@, a, out)] \in [Session -> [held : SUBSET drawn, awaiting : SUBSET drawn]]
<1>1. kept \in [Session -> [held : SUBSET drawn, awaiting : SUBSET drawn]]
  BY DEF YInv, SetsFine
<1>2. out \subseteq drawn
  BY <1>1 DEF OverCap
<1>3. Added(kept[s], a, out) \in [held : SUBSET drawn, awaiting : SUBSET drawn]
  BY <1>1, <1>2 DEF Added
<1>4. QED
  BY <1>1, <1>3

LEMMA YRecords ==
  ASSUME YInv, IInv', load' = load, UNCHANGED deviceVars, NEW w \in Worker, RecordStep(w)
  PROVE  YInv'
<1>1. PICK t : t = Top(w)
  OBVIOUS
<1>2. task[w] # <<>> /\ t.pc \in {"record.index", "record.near", "record.list", "record.add", "record.relist"}
  BY <1>1 DEF RecordStep, RecordIndex, RecordNear, RecordList, RecordAdd, RecordRelist, Doing, Idle
<1>3. Typed(t) /\ "pc" \in DOMAIN t
  BY <1>1, <1>2, TypedTops
<1>4. DevicesFine'
  BY DevicesSame
<1>5. t.s \in Session /\ (t.pc # "record.relist" => t.a \in drawn)
  BY <1>2, <1>3 DEF Typed, OfSession, Inner, OfToken, Recs
<1>6. ASSUME SetsFine', drawn \subseteq drawn', t.pc # "record.relist",
             NEW pc \in {"record.near", "record.list", "record.add", "record.relist"}, To(w, pc)
      PROVE  YInv'
  <2>1. Follows(pc, t.pc)
    BY <1>2, <1>6
    DEF Follows, OfSession, OfToken, Polls, Walking, Verifies, Closes4, Inner, Recs, Holds, TokenPcs
  <2>2. Rank([pc |-> pc]) <= Rank(t)
    BY <1>2, <1>6 DEF Rank, Inner
  <2>3. QED
    BY <1>1, <1>2, <1>4, <1>6, <2>1, <2>2, TypedTo
<1>7. CASE RecordIndex(w)
  <2>1. t.pc = "record.index" /\ index' = [index EXCEPT ![t.a] = t.s] /\ UNCHANGED <<kept, pending, outsideVars>>
    BY <1>1, <1>7 DEF RecordIndex, Doing
  <2>2. SetsFine' /\ drawn \subseteq drawn'
    BY <1>5, <2>1 DEF YInv, SetsFine, outsideVars
  <2>3. QED
    BY <1>6, <1>7, <2>1, <2>2 DEF RecordIndex
<1>8. CASE RecordNear(w)
  <2>1. SetsFine' /\ drawn \subseteq drawn' /\ t.pc # "record.relist"
    BY <1>1, <1>8, SetsSame DEF RecordNear, SameSets, setVars, outsideVars, Doing
  <2>2. QED
    BY <1>6, <1>8, <2>1 DEF RecordNear
<1>9. CASE RecordList(w)
  <2>1. SetsFine' /\ drawn \subseteq drawn' /\ t.pc # "record.relist"
    BY <1>1, <1>5, <1>9 DEF RecordList, YInv, SetsFine, outsideVars, Doing
  <2>2. QED
    BY <1>6, <1>9, <2>1 DEF RecordList
<1>10. CASE RecordAdd(w)
  <2>1. t.pc = "record.add" /\ UNCHANGED <<index, pending, outsideVars>>
    BY <1>1, <1>10 DEF RecordAdd, Doing
  <2>2. PICK out \in OverCap(kept[t.s].held, t.a, load.cap) : kept' = [kept EXCEPT ![t.s] = Added(@, t.a, out)]
    BY <1>1, <1>10 DEF RecordAdd
  <2>3. kept' \in [Session -> [held : SUBSET drawn, awaiting : SUBSET drawn]]
    BY <1>5, <2>1, <2>2, AddedFine
  <2>4. SetsFine' /\ drawn \subseteq drawn'
    BY <2>1, <2>3 DEF YInv, SetsFine, outsideVars
  <2>5. Return(w) \/ To(w, "record.relist")
    BY <1>10 DEF RecordAdd
  <2>6. QED
    BY <1>2, <1>4, <1>6, <2>1, <2>4, <2>5, TypedReturn
<1>11. CASE RecordRelist(w)
  <2>1. SetsFine' /\ drawn \subseteq drawn'
    BY <1>1, <1>5, <1>11 DEF RecordRelist, YInv, SetsFine, outsideVars
  <2>2. PICK x : x = Settle(t.s) /\ Become(w, <<x>>)
    BY <1>1, <1>11 DEF RecordRelist
  <2>3. x.pc = "settle.read" /\ x.s = t.s /\ DOMAIN x = {"pc", "s", "todo"}
    BY <2>2 DEF Settle
  <2>4. Typed(x)
    BY <1>5, <2>3
    DEF Typed, OfSession, OfToken, Polls, Walking, Verifies, Closes4, Recs, Holds, TokenPcs
  <2>5. Rank(x) <= Rank(t)
    BY <1>2, <2>3 DEF Rank, Inner
  <2>6. QED
    BY <1>1, <1>2, <1>4, <2>1, <2>2, <2>4, <2>5, TypedOne, TypedStays
<1>12. QED
  BY <1>7, <1>8, <1>9, <1>10, <1>11 DEF RecordStep

LEMMA YCloses ==
  ASSUME YInv, IInv', load' = load, UNCHANGED deviceVars, NEW w \in Worker, CloseStep(w)
  PROVE  YInv'
<1>1. PICK t : t = Top(w)
  OBVIOUS
<1>2. task[w] # <<>> /\ t.pc \in Closes4
  BY <1>1 DEF CloseStep, CloseHeld, CloseDeny, CloseAwaiting, CloseRest, Doing, Idle, Closes4
<1>3. Typed(t) /\ "pc" \in DOMAIN t
  BY <1>1, <1>2, TypedTops
<1>4. DevicesFine'
  BY DevicesSame
<1>5. t.s \in Session /\ {"s", "todo"} \subseteq DOMAIN t
  BY <1>2, <1>3 DEF Typed, OfSession, Walking
<1>6. kept[t.s].held \subseteq drawn /\ kept[t.s].awaiting \subseteq drawn
  BY <1>5 DEF YInv, SetsFine
<1>7. ASSUME NEW x, DOMAIN x = DOMAIN t, x.pc \in Closes4, x.s = t.s, x.todo \subseteq drawn
      PROVE  Typed(x) /\ Rank(x) = 2
  BY <1>3, <1>5, <1>7
  DEF Typed, OfSession, OfToken, Polls, Walking, Verifies, Closes4, Recs, Holds, TokenPcs, Rank, Inner
<1>8. Rank(t) = 2
  BY <1>2 DEF Rank, Inner, Closes4
<1>9. ASSUME SetsFine', drawn \subseteq drawn',
             NEW x, Become(w, <<x>>), DOMAIN x = DOMAIN t, x.pc \in Closes4, x.s = t.s, x.todo \subseteq drawn
      PROVE  YInv'
  <2>1. Typed(x)' /\ Rank(x) <= Rank(t)
    BY <1>7, <1>8, <1>9, TypedStays
  <2>2. QED
    BY <1>1, <1>2, <1>4, <1>9, <2>1, TypedOne
<1>10. CASE CloseHeld(w)
  <2>1. PICK x : x = [t EXCEPT !.pc = "close.deny", !.todo = kept[t.s].held] /\ Become(w, <<x>>)
    BY <1>1, <1>10 DEF CloseHeld
  <2>2. SetsFine' /\ drawn \subseteq drawn'
    BY <1>10, SetsSame DEF CloseHeld, SameSets, setVars, outsideVars
  <2>3. DOMAIN x = DOMAIN t /\ x.pc = "close.deny" /\ x.s = t.s /\ x.todo = kept[t.s].held
    BY <1>3, <1>5, <2>1
  <2>4. QED
    BY <1>6, <1>9, <2>1, <2>2, <2>3 DEF Closes4
<1>11. CASE CloseDeny(w)
  <2>1. t.pc = "close.deny" /\ t.todo \subseteq drawn
    BY <1>1, <1>3, <1>11 DEF CloseDeny, Doing, Typed
  <2>2. ASSUME NEW a \in t.todo, Deny(a), Become(w, <<[t EXCEPT !.todo = @ \ {a}]>>) PROVE YInv'
    <3>1. PICK x : x = [t EXCEPT !.todo = @ \ {a}] /\ Become(w, <<x>>)
      BY <2>2
    <3>2. DOMAIN x = DOMAIN t /\ x.pc = t.pc /\ x.s = t.s /\ x.todo = t.todo \ {a}
      BY <1>3, <1>5, <3>1
    <3>3. SetsFine' /\ drawn \subseteq drawn'
      BY <1>11, <2>1, <2>2, DenyFine DEF CloseDeny
    <3>4. QED
      BY <1>2, <1>9, <2>1, <3>1, <3>2, <3>3
  <2>3. ASSUME To(w, "close.awaiting"), UNCHANGED outsideVars PROVE YInv'
    <3>1. SetsFine' /\ drawn \subseteq drawn'
      BY <1>11, <2>3, SetsSame DEF CloseDeny, SameSets, setVars, outsideVars
    <3>2. Follows("close.awaiting", t.pc)
      BY <2>1
      DEF Follows, OfSession, OfToken, Polls, Walking, Verifies, Closes4, Inner, Recs, Holds, TokenPcs
    <3>3. Rank([pc |-> "close.awaiting"]) <= Rank(t)
      BY <1>8 DEF Rank, Inner
    <3>4. QED
      BY <1>1, <1>2, <1>4, <2>3, <3>1, <3>2, <3>3, TypedTo
  <2>4. QED
    BY <1>1, <1>11, <2>2, <2>3 DEF CloseDeny
<1>12. CASE CloseAwaiting(w)
  <2>1. PICK x : x = [t EXCEPT !.pc = "close.rest", !.todo = kept[t.s].awaiting] /\ Become(w, <<x>>)
    BY <1>1, <1>12 DEF CloseAwaiting
  <2>2. SetsFine' /\ drawn \subseteq drawn'
    BY <1>12, SetsSame DEF CloseAwaiting, SameSets, setVars, outsideVars
  <2>3. DOMAIN x = DOMAIN t /\ x.pc = "close.rest" /\ x.s = t.s /\ x.todo = kept[t.s].awaiting
    BY <1>3, <1>5, <2>1
  <2>4. QED
    BY <1>6, <1>9, <2>1, <2>2, <2>3 DEF Closes4
<1>13. CASE CloseRest(w)
  <2>1. t.pc = "close.rest" /\ t.todo \subseteq drawn
    BY <1>1, <1>3, <1>13 DEF CloseRest, Doing, Typed
  <2>2. ASSUME NEW a \in t.todo, Deny(a),
               Become(w, <<[pc |-> "settle.take", s |-> t.s, a |-> a], [t EXCEPT !.todo = @ \ {a}]>>)
        PROVE  YInv'
    <3>1. PICK x, y : /\ x = [pc |-> "settle.take", s |-> t.s, a |-> a]
                      /\ y = [t EXCEPT !.todo = @ \ {a}] /\ Become(w, <<x, y>>)
      BY <2>2
    <3>2. DOMAIN y = DOMAIN t /\ y.pc = t.pc /\ y.s = t.s /\ y.todo = t.todo \ {a}
      BY <1>3, <1>5, <3>1
    <3>3. x.pc = "settle.take" /\ DOMAIN x = {"pc", "s", "a"} /\ x.s = t.s /\ x.a = a
      BY <3>1
    <3>4. Typed(y) /\ Rank(y) = 2
      BY <1>2, <1>7, <2>1, <3>2
    <3>5. Typed(x)
      BY <1>5, <2>1, <2>2, <3>3
      DEF Typed, OfSession, OfToken, Polls, Walking, Verifies, Closes4, Recs, Holds, TokenPcs
    <3>6. Rank(x) = 0
      BY <3>3 DEF Rank
    <3>7. SetsFine' /\ drawn \subseteq drawn'
      BY <1>13, <2>1, <2>2, DenyFine DEF CloseRest
    <3>8. Typed(x)' /\ Typed(y)' /\ Rank(x) < Rank(y) /\ Rank(y) <= Rank(t)
      BY <1>8, <3>4, <3>5, <3>6, <3>7, TypedStays
    <3>9. QED
      BY <1>1, <1>2, <1>4, <3>1, <3>7, <3>8, TypedTwo
  <2>3. ASSUME Return(w), finished' = finished \cup {t.s}, UNCHANGED <<denied, entering, drawn, given, faults>>
        PROVE  YInv'
    <3>1. SetsFine' /\ drawn \subseteq drawn'
      BY <1>5, <1>13, <2>3 DEF CloseRest, YInv, SetsFine, setVars
    <3>2. QED
      BY <1>2, <1>4, <2>3, <3>1, TypedReturn
  <2>4. QED
    BY <1>1, <1>13, <2>2, <2>3 DEF CloseRest
<1>14. QED
  BY <1>10, <1>11, <1>12, <1>13 DEF CloseStep

LEMMA YSweeps ==
  ASSUME YInv, IInv', load' = load, UNCHANGED deviceVars, NEW w \in Worker, SweepNext(w)
  PROVE  YInv'
<1>1. PICK t : t = Top(w)
  OBVIOUS
<1>2. task[w] # <<>> /\ t.pc = "sweep"
  BY <1>1 DEF SweepNext, Doing, Idle
<1>3. Typed(t) /\ "pc" \in DOMAIN t
  BY <1>1, <1>2, TypedTops
<1>4. DevicesFine'
  BY DevicesSame
<1>5. SetsFine' /\ drawn \subseteq drawn'
  BY SetsSame DEF SweepNext, SameSets, setVars, outsideVars
<1>6. ASSUME NEW s \in t.todo, Become(w, <<Settle(s), [t EXCEPT !.todo = @ \ {s}]>>) PROVE YInv'
  <2>1. PICK x, y : x = Settle(s) /\ y = [t EXCEPT !.todo = @ \ {s}] /\ Become(w, <<x, y>>)
    BY <1>6
  <2>2. s \in Session /\ "todo" \in DOMAIN t /\ t.todo \subseteq Session
    BY <1>2, <1>3, <1>6 DEF Typed, Walking
  <2>3. x.pc = "settle.read" /\ x.s = s /\ DOMAIN x = {"pc", "s", "todo"}
    BY <2>1 DEF Settle
  <2>4. y.pc = t.pc /\ DOMAIN y = DOMAIN t /\ y.todo = t.todo \ {s}
    BY <1>2, <1>3, <2>1, <2>2
  <2>5. Typed(x)
    BY <2>2, <2>3
    DEF Typed, OfSession, OfToken, Polls, Walking, Verifies, Closes4, Recs, Holds, TokenPcs
  <2>6. Typed(y)
    BY <1>2, <1>3, <2>2, <2>4
    DEF Typed, OfSession, OfToken, Polls, Walking, Verifies, Closes4, Inner, Recs, Holds, TokenPcs
  <2>7. Rank(x) < Rank(y) /\ Rank(y) <= Rank(t)
    BY <1>2, <2>3, <2>4 DEF Rank, Inner
  <2>8. QED
    BY <1>1, <1>2, <1>4, <1>5, <2>1, <2>5, <2>6, <2>7, TypedTwo, TypedStays
<1>7. QED
  BY <1>1, <1>2, <1>4, <1>5, <1>6, TypedReturn DEF SweepNext

LEMMA YIssues ==
  ASSUME YInv, IInv', load' = load, UNCHANGED deviceVars, SessionTokensAssumption, NEW w \in Worker, IssueStep(w)
  PROVE  YInv'
<1>1. PICK t : t = Top(w)
  OBVIOUS
<1>2. task[w] # <<>> /\ t.pc \in {"issue.make", "issue.told", "issue.undo"}
  BY <1>1 DEF IssueStep, IssueMake, IssueTold, IssueUndo, Doing, Idle
<1>3. Typed(t) /\ Knows(t) /\ "pc" \in DOMAIN t
  BY <1>1, <1>2, TypedTops
<1>4. DevicesFine'
  BY DevicesSame
<1>5. t.s \in Session /\ "s" \in DOMAIN t /\ Rank(t) = 2
  BY <1>2, <1>3 DEF Typed, OfSession, Rank, Inner
<1>6. CASE IssueMake(w)
  <2>1. UNCHANGED <<setVars, denied, entering, given, finished, faults>>
    BY <1>6 DEF IssueMake
  <2>2. ASSUME NEW a \in load.tokens \ drawn, drawn' = drawn \cup {a},
               Become(w, <<Record(t.s, a), [pc |-> "issue.told", s |-> t.s, then |-> t.then, d |-> t.d, a |-> a]>>)
        PROVE  YInv'
    <3>1. PICK x, y : /\ x = Record(t.s, a)
                      /\ y = [pc |-> "issue.told", s |-> t.s, then |-> t.then, d |-> t.d, a |-> a]
                      /\ Become(w, <<x, y>>)
      BY <2>2
    <3>2. a \in Token /\ drawn \subseteq drawn' /\ a \in drawn'
      BY <2>2 DEF YInv, SetsFine, SessionTokensAssumption
    <3>3. kept' \in [Session -> [held : SUBSET drawn', awaiting : SUBSET drawn']]
      <4>1. SUBSET drawn \subseteq SUBSET drawn'
        BY <3>2
      <4>2. [held : SUBSET drawn, awaiting : SUBSET drawn] \subseteq [held : SUBSET drawn', awaiting : SUBSET drawn']
        BY <4>1
      <4>3. QED
        BY <2>1, <4>2 DEF YInv, SetsFine, setVars
    <3>4. SetsFine'
      BY <2>1, <2>2, <3>2, <3>3 DEF YInv, SetsFine, setVars
    <3>5. x.pc = "record.index" /\ x.s = t.s /\ x.a = a /\ DOMAIN x = {"pc", "s", "a"}
      BY <3>1 DEF Record
    <3>6. y.pc = "issue.told" /\ y.s = t.s /\ y.a = a /\ DOMAIN y = {"pc", "s", "then", "d", "a"}
      BY <3>1
    <3>7. Typed(x)'
      BY <1>5, <3>2, <3>5
      DEF Typed, OfSession, OfToken, Polls, Walking, Verifies, Closes4, Inner, Recs, Holds, TokenPcs
    <3>8. Typed(y)'
      BY <1>5, <3>2, <3>6
      DEF Typed, OfSession, OfToken, Polls, Walking, Verifies, Closes4, Inner, Recs, Holds, TokenPcs
    <3>9. Rank(x) < Rank(y) /\ Rank(y) <= Rank(t)
      BY <1>5, <3>5, <3>6 DEF Rank, Inner
    <3>10. QED
      BY <1>1, <1>2, <1>4, <3>1, <3>2, <3>4, <3>7, <3>8, <3>9, TypedTwo
  <2>3. ASSUME Return(w), UNCHANGED drawn PROVE YInv'
    <3>1. SetsFine' /\ drawn \subseteq drawn'
      BY <2>1, <2>3, SetsSame DEF SameSets, setVars
    <3>2. QED
      BY <1>2, <1>4, <2>3, <3>1, TypedReturn
  <2>4. QED
    BY <1>1, <1>6, <2>2, <2>3 DEF IssueMake
<1>7. CASE IssueTold(w)
  <2>1. t.pc = "issue.told" /\ t.then \in {"session.keep", "poll.answer"} /\ To(w, t.then)
    BY <1>1, <1>3, <1>7 DEF IssueTold, Doing, Knows, Issues
  <2>2. SetsFine' /\ drawn \subseteq drawn'
    BY <1>7, SetsSame DEF IssueTold, SameSets, setVars, outsideVars
  <2>3. Follows(t.then, t.pc)
    BY <2>1
    DEF Follows, OfSession, OfToken, Polls, Walking, Verifies, Closes4, Inner, Recs, Holds, TokenPcs, DevicePcs
  <2>4. Rank([pc |-> t.then]) <= Rank(t)
    BY <1>5, <2>1 DEF Rank, Inner
  <2>5. QED
    BY <1>1, <1>2, <1>4, <2>1, <2>2, <2>3, <2>4, TypedTo
<1>8. CASE IssueUndo(w)
  <2>1. t.a \in drawn /\ Deny(t.a)
    BY <1>1, <1>3, <1>8 DEF IssueUndo, Doing, Typed, OfToken, Holds
  <2>2. SetsFine' /\ drawn \subseteq drawn'
    BY <1>8, <2>1, DenyFine DEF IssueUndo
  <2>3. QED
    BY <1>4, <1>8, <2>2, TypedThrown DEF IssueUndo, Throw
<1>9. QED
  BY <1>6, <1>7, <1>8 DEF IssueStep

LEMMA YSessions ==
  ASSUME YInv, IInv', load' = load, UNCHANGED deviceVars, NEW w \in Worker, SessionStep(w)
  PROVE  YInv'
<1>1. PICK t : t = Top(w)
  OBVIOUS
<1>2. task[w] # <<>> /\ t.pc \in {"session.enter", "session.keep", "session.undo"}
  BY <1>1 DEF SessionStep, SessionEnter, SessionKeep, SessionUndo, Doing, Idle
<1>3. Typed(t) /\ "pc" \in DOMAIN t
  BY <1>1, <1>2, TypedTops
<1>4. DevicesFine'
  BY DevicesSame
<1>5. t.s \in Session /\ "s" \in DOMAIN t /\ Rank(t) = 2
  BY <1>2, <1>3 DEF Typed, OfSession, Rank, Inner
<1>6. CASE SessionEnter(w)
  <2>1. SetsFine' /\ drawn \subseteq drawn'
    BY <1>6, SetsSame DEF SessionEnter, SameSets, setVars, outsideVars
  <2>2. ASSUME NEW x, x = Issue(t.s, "session.keep", "none"), Become(w, <<x>>) PROVE YInv'
    <3>1. x.pc = "issue.make" /\ x.s = t.s /\ DOMAIN x = {"pc", "s", "then", "d"}
      BY <2>2 DEF Issue
    <3>2. Typed(x)
      BY <1>5, <3>1
      DEF Typed, OfSession, OfToken, Polls, Walking, Verifies, Closes4, Inner, Recs, Holds, TokenPcs
    <3>3. Rank(x) <= Rank(t)
      BY <1>5, <3>1 DEF Rank, Inner
    <3>4. QED
      BY <1>1, <1>2, <1>4, <2>1, <2>2, <3>2, <3>3, TypedOne, TypedStays
  <2>3. QED
    BY <1>1, <1>2, <1>4, <1>6, <2>1, <2>2, TypedReturn DEF SessionEnter, Return
<1>7. CASE SessionKeep(w)
  <2>1. t.pc = "session.keep" /\ t.a \in drawn
    BY <1>1, <1>3, <1>7 DEF SessionKeep, Doing, Typed, OfToken, Holds
  <2>2. given' = given \/ given' = given \cup {t.a}
    BY <1>1, <1>7 DEF SessionKeep
  <2>3. SetsFine' /\ drawn \subseteq drawn'
    BY <1>7, <2>1, <2>2 DEF SessionKeep, YInv, SetsFine, setVars
  <2>4. Follows("session.undo", t.pc) /\ Rank([pc |-> "session.undo"]) <= Rank(t)
    BY <1>5, <2>1
    DEF Follows, OfSession, OfToken, Polls, Walking, Verifies, Closes4, Inner, Recs, Holds, TokenPcs, Rank
  <2>5. Return(w) \/ To(w, "session.undo")
    BY <1>7 DEF SessionKeep
  <2>6. QED
    BY <1>1, <1>2, <1>4, <2>3, <2>4, <2>5, TypedReturn, TypedTo
<1>8. CASE SessionUndo(w)
  <2>1. t.a \in drawn /\ Deny(t.a)
    BY <1>1, <1>3, <1>8 DEF SessionUndo, Doing, Typed, OfToken, Holds
  <2>2. SetsFine' /\ drawn \subseteq drawn'
    BY <1>8, <2>1, DenyFine DEF SessionUndo
  <2>3. QED
    BY <1>2, <1>4, <1>8, <2>2, TypedReturn DEF SessionUndo
<1>9. QED
  BY <1>6, <1>7, <1>8 DEF SessionStep

----------------------------------------------------------------------------
LEMMA DeviceParts ==
  ASSUME YInv, NEW d \in Device
  PROVE  /\ device[d].state \in {"none", "pending", "denied", "taken", "approved"}
         /\ device[d].state = "approved" => device[d].session \in Session
         /\ device[d].state \in {"approved", "denied"} => [device[d] EXCEPT !.state = "taken"] \in DeviceType
<1>1. PICK r : r = device[d]
  OBVIOUS
<1>2. r \in DeviceType
  BY <1>1 DEF YInv, DevicesFine
<1>3. CASE r = NoDevice
  BY <1>1, <1>3 DEF NoDevice
<1>4. CASE r \in {InState(st) : st \in {"pending", "denied", "taken"}}
  <2>1. PICK st \in {"pending", "denied", "taken"} : r = [state |-> st]
    BY <1>4 DEF InState
  <2>2. r.state = st /\ [r EXCEPT !.state = "taken"] = [state |-> "taken"]
    BY <2>1
  <2>3. [state |-> "taken"] \in DeviceType
    BY DEF DeviceType, InState
  <2>4. QED
    BY <1>1, <2>2, <2>3
<1>5. CASE r \in [state : {"approved", "taken"}, session : Session]
  <2>1. [r EXCEPT !.state = "taken"] \in [state : {"approved", "taken"}, session : Session]
    BY <1>5
  <2>2. QED
    BY <1>1, <1>5, <2>1 DEF DeviceType
<1>6. QED
  BY <1>2, <1>3, <1>4, <1>5 DEF DeviceType

LEMMA DeviceSet ==
  ASSUME YInv, NEW d, NEW x \in DeviceType, device' = [device EXCEPT ![d] = x],
         UNCHANGED <<coded, ended, told, answers>>
  PROVE  DevicesFine'
<1>1. device' \in [Device -> DeviceType]
  BY DEF YInv, DevicesFine
<1>2. QED
  BY <1>1 DEF YInv, DevicesFine

(* A frame of a device goes on.                                            *)
LEMMA YGoes ==
  ASSUME YInv, IInv', SetsFine', DevicesFine', drawn \subseteq drawn', NEW w \in Worker, task[w] # <<>>,
         NEW pc \in DevicePcs \ {"authorize.save"}, To(w, pc), Top(w).pc \in DevicePcs,
         pc \in Verifies => Top(w).pc \in Verifies,
         pc \in Polls => Top(w).pc \in Polls,
         pc \in {"poll.revoked", "poll.entry", "poll.answer"} => Top(w).pc \in OfSession,
         pc # "poll.answer"
  PROVE  YInv'
<1>1. Follows(pc, Top(w).pc)
  BY DEF Follows, OfSession, OfToken, Polls, Walking, Verifies, Closes4, Inner, Recs, Holds, DevicePcs
<1>2. Rank([pc |-> pc]) <= Rank(Top(w))
  BY DEF Rank, Inner, DevicePcs
<1>3. QED
  BY <1>1, <1>2, TypedTo

LEMMA YAuthorizes ==
  ASSUME YInv, IInv', load' = load, NEW w \in Worker, AuthorizeSave(w) \/ AuthorizeCode(w)
  PROVE  YInv'
<1>1. PICK t : t = Top(w)
  OBVIOUS
<1>2. task[w] # <<>> /\ t.pc \in {"authorize.save", "authorize.code"}
  BY <1>1 DEF AuthorizeSave, AuthorizeCode, Doing, Idle
<1>3. Knows(t) /\ t.d \in Device
  BY <1>1, <1>2, TypedTops DEF Knows, Devices
<1>4. SetsFine' /\ drawn \subseteq drawn'
  BY SetsSame DEF AuthorizeSave, AuthorizeCode, SameSets, setVars, outsideVars
<1>5. CASE AuthorizeSave(w)
  <2>1. InState("pending") \in DeviceType
    BY DEF DeviceType
  <2>2. DevicesFine'
    BY <1>1, <1>5, <2>1, DeviceSet DEF AuthorizeSave
  <2>3. QED
    BY <1>1, <1>2, <1>4, <1>5, <2>2, YGoes DEF AuthorizeSave, DevicePcs, Verifies, Polls
<1>6. CASE AuthorizeCode(w)
  <2>1. DevicesFine'
    BY <1>1, <1>3, <1>6 DEF AuthorizeCode, YInv, DevicesFine
  <2>2. QED
    BY <1>2, <1>4, <1>6, <2>1, TypedReturn DEF AuthorizeCode
<1>7. QED
  BY <1>5, <1>6

LEMMA YVerifies ==
  ASSUME YInv, IInv', load' = load, NEW w \in Worker,
         VerifyEnter(w) \/ VerifyFind(w) \/ VerifyAdmit(w) \/ VerifyDecide(w) \/ VerifyTell(w)
  PROVE  YInv'
<1>1. PICK t : t = Top(w)
  OBVIOUS
<1>2. task[w] # <<>> /\ t.pc \in Verifies
  BY <1>1 DEF VerifyEnter, VerifyFind, VerifyAdmit, VerifyDecide, VerifyTell, Doing, Idle, Verifies
<1>3. Typed(t) /\ Knows(t)
  BY <1>1, <1>2, TypedTops
<1>4. t.d \in Device /\ t.s \in Session /\ t.action \in {"approve", "deny"}
  BY <1>2, <1>3 DEF Typed, Knows, Devices, OfSession
<1>5. SetsFine' /\ drawn \subseteq drawn'
  BY SetsSame
  DEF VerifyEnter, VerifyFind, VerifyAdmit, VerifyDecide, VerifyTell, SameSets, setVars, outsideVars
<1>6. ASSUME DevicesFine',
             Return(w) \/ \E pc \in {"verify.find", "verify.admit", "verify.decide", "verify.tell"} : To(w, pc)
      PROVE  YInv'
  <2>1. CASE Return(w)
    BY <1>2, <1>5, <1>6, <2>1, TypedReturn
  <2>2. ASSUME NEW pc \in {"verify.find", "verify.admit", "verify.decide", "verify.tell"}, To(w, pc) PROVE YInv'
    BY <1>1, <1>2, <1>5, <1>6, <2>2, YGoes DEF DevicePcs, Verifies, Polls
  <2>3. QED
    BY <1>6, <2>1, <2>2
<1>7. CASE VerifyEnter(w) \/ VerifyFind(w) \/ VerifyAdmit(w)
  <2>1. DevicesFine'
    BY <1>7, DevicesSame DEF VerifyEnter, VerifyFind, VerifyAdmit
  <2>2. QED
    BY <1>6, <1>7, <2>1 DEF VerifyEnter, VerifyFind, VerifyAdmit
<1>8. CASE VerifyDecide(w)
  <2>1. Decided(t) \in DeviceType
    BY <1>4 DEF Decided, DeviceType, ApprovedBy
  <2>2. device' = device \/ device' = [device EXCEPT ![t.d] = Decided(t)]
    BY <1>1, <1>8 DEF VerifyDecide
  <2>3. UNCHANGED <<coded, ended, told, answers>>
    BY <1>8 DEF VerifyDecide
  <2>4. DevicesFine'
    BY <2>1, <2>2, <2>3, DevicesSame, DeviceSet DEF deviceVars
  <2>5. QED
    BY <1>6, <1>8, <2>4 DEF VerifyDecide
<1>9. CASE VerifyTell(w)
  <2>1. DevicesFine'
    BY <1>1, <1>4, <1>9 DEF VerifyTell, YInv, DevicesFine
  <2>2. QED
    BY <1>6, <1>9, <2>1 DEF VerifyTell
<1>10. QED
  BY <1>7, <1>8, <1>9

LEMMA YPolls ==
  ASSUME YInv, IInv', load' = load, NEW w \in Worker,
         PollRead(w) \/ PollOpen(w) \/ PollAdmit(w) \/ PollTake(w) \/ PollRevoked(w) \/ PollEntry(w)
  PROVE  YInv'
<1>1. PICK t : t = Top(w)
  OBVIOUS
<1>2. task[w] # <<>> /\ t.pc \in Polls \ {"poll.answer"}
  BY <1>1 DEF PollRead, PollOpen, PollAdmit, PollTake, PollRevoked, PollEntry, Doing, Idle, Polls
<1>3. Typed(t) /\ Knows(t) /\ "pc" \in DOMAIN t
  BY <1>1, <1>2, TypedTops
<1>4. t.d \in Device /\ "s" \in DOMAIN t /\ Rank(t) = 2
  BY <1>2, <1>3 DEF Typed, Knows, Devices, Polls, Rank, Inner
<1>5. SetsFine' /\ drawn \subseteq drawn'
  BY SetsSame
  DEF PollRead, PollOpen, PollAdmit, PollTake, PollRevoked, PollEntry, SameSets, setVars, outsideVars
<1>6. ASSUME NEW pc \in {"poll.open", "poll.revoked"}, NEW s \in Session, NEW x,
             x = [t EXCEPT !.pc = pc, !.s = s], Become(w, <<x>>), DevicesFine'
      PROVE  YInv'
  <2>1. DOMAIN x = DOMAIN t /\ x.pc \in {"poll.open", "poll.revoked"} /\ x.s \in Session
    BY <1>3, <1>4, <1>6
  <2>2. Typed(x) /\ Rank(x) = 2
    BY <1>3, <1>4, <2>1
    DEF Typed, OfSession, OfToken, Polls, Walking, Verifies, Closes4, Inner, Recs, Holds, DevicePcs, Rank
  <2>3. QED
    BY <1>1, <1>2, <1>4, <1>5, <1>6, <2>2, TypedOne, TypedStays
<1>7. ASSUME DevicesFine', Return(w) \/ (\E pc \in {"poll.admit", "poll.take"} : To(w, pc))
                           \/ (t.pc = "poll.revoked" /\ To(w, "poll.entry"))
      PROVE  YInv'
  <2>1. CASE Return(w)
    BY <1>2, <1>5, <1>7, <2>1, TypedReturn
  <2>2. ASSUME NEW pc \in {"poll.admit", "poll.take"}, To(w, pc) PROVE YInv'
    BY <1>1, <1>2, <1>5, <1>7, <2>2, YGoes DEF DevicePcs, Verifies, Polls
  <2>3. CASE t.pc = "poll.revoked" /\ To(w, "poll.entry")
    BY <1>1, <1>2, <1>5, <1>7, <2>3, YGoes DEF DevicePcs, Verifies, Polls, OfSession
  <2>4. QED
    BY <1>7, <2>1, <2>2, <2>3
<1>8. CASE PollRead(w)
  <2>1. DevicesFine'
    BY <1>8, DevicesSame DEF PollRead
  <2>2. ASSUME device[t.d].state = "approved",
               Become(w, <<[t EXCEPT !.pc = "poll.open", !.s = device[t.d].session]>>)
        PROVE  YInv'
    <3>1. PICK s, x : s = device[t.d].session /\ x = [t EXCEPT !.pc = "poll.open", !.s = s] /\ Become(w, <<x>>)
      BY <2>2
    <3>2. s \in Session
      BY <1>4, <2>2, <3>1, DeviceParts
    <3>3. QED
      BY <1>6, <2>1, <3>1, <3>2
  <2>3. QED
    BY <1>1, <1>7, <1>8, <2>1, <2>2 DEF PollRead
<1>9. CASE PollOpen(w) \/ PollAdmit(w) \/ PollRevoked(w)
  <2>1. DevicesFine'
    BY <1>9, DevicesSame DEF PollOpen, PollAdmit, PollRevoked
  <2>2. QED
    BY <1>1, <1>7, <1>9, <2>1 DEF PollOpen, PollAdmit, PollRevoked, Doing
<1>10. CASE PollTake(w)
  <2>1. UNCHANGED <<coded, ended, told, answers>>
    BY <1>10 DEF PollTake
  <2>2. ASSUME device[t.d].state \in {"approved", "denied"}, device' = [device EXCEPT ![t.d].state = "taken"]
        PROVE  DevicesFine'
    <3>1. PICK x : x = [device[t.d] EXCEPT !.state = "taken"]
      OBVIOUS
    <3>2. device' = [device EXCEPT ![t.d] = x] /\ x \in DeviceType
      BY <1>4, <2>2, <3>1, DeviceParts DEF YInv, DevicesFine
    <3>3. QED
      BY <2>1, <3>2, DeviceSet
  <2>3. ASSUME device[t.d].state = "approved", device' = [device EXCEPT ![t.d].state = "taken"],
               Become(w, <<[t EXCEPT !.pc = "poll.revoked", !.s = device[t.d].session]>>)
        PROVE  YInv'
    <3>1. PICK s, x : s = device[t.d].session /\ x = [t EXCEPT !.pc = "poll.revoked", !.s = s] /\ Become(w, <<x>>)
      BY <2>3
    <3>2. s \in Session
      BY <1>4, <2>3, <3>1, DeviceParts
    <3>3. QED
      BY <1>6, <2>2, <2>3, <3>1, <3>2
  <2>4. ASSUME Return(w), UNCHANGED device PROVE YInv'
    BY <1>7, <2>1, <2>4, DevicesSame DEF deviceVars
  <2>5. QED
    BY <1>1, <1>7, <1>10, <2>2, <2>3, <2>4 DEF PollTake
<1>11. CASE PollEntry(w)
  <2>1. DevicesFine'
    BY <1>11, DevicesSame DEF PollEntry
  <2>2. t.pc = "poll.entry" /\ t.s \in Session
    BY <1>1, <1>3, <1>11 DEF PollEntry, Doing, Typed, OfSession
  <2>3. ASSUME NEW x, x = Issue(t.s, "poll.answer", t.d), Become(w, <<x>>) PROVE YInv'
    <3>1. x.pc = "issue.make" /\ x.s = t.s /\ DOMAIN x = {"pc", "s", "then", "d"}
      BY <2>3 DEF Issue
    <3>2. Typed(x) /\ Rank(x) = 2
      BY <2>2, <3>1
      DEF Typed, OfSession, OfToken, Polls, Walking, Verifies, Closes4, Inner, Recs, Holds, TokenPcs, Rank
    <3>3. QED
      BY <1>1, <1>2, <1>4, <1>5, <2>1, <2>3, <3>2, TypedOne, TypedStays
  <2>4. QED
    BY <1>1, <1>7, <1>11, <2>1, <2>3 DEF PollEntry, Return
<1>12. QED
  BY <1>8, <1>9, <1>10, <1>11

LEMMA YAnswers ==
  ASSUME YInv, IInv', load' = load, NEW w \in Worker, PollAnswer(w)
  PROVE  YInv'
<1>1. PICK t : t = Top(w)
  OBVIOUS
<1>2. task[w] # <<>> /\ t.pc = "poll.answer"
  BY <1>1 DEF PollAnswer, Doing, Idle
<1>3. Typed(t) /\ Knows(t)
  BY <1>1, <1>2, TypedTops
<1>4. t.d \in Device /\ t.a \in drawn /\ drawn \subseteq Token
  BY <1>2, <1>3 DEF Typed, Knows, Devices, Polls, OfToken, Holds, YInv, SetsFine
<1>5. \/ answers' = answers \cup {<<t.d, t.a>>} /\ given' = given \cup {t.a}
      \/ answers' = answers /\ given' = given
  BY <1>1 DEF PollAnswer
<1>6. UNCHANGED <<setVars, denied, entering, drawn, finished, faults, device, coded, ended, told>>
  BY DEF PollAnswer
<1>7. SetsFine' /\ drawn \subseteq drawn'
  BY <1>4, <1>5, <1>6 DEF YInv, SetsFine, setVars
<1>8. DevicesFine'
  <2>1. answers' \subseteq Device \X Token
    BY <1>4, <1>5 DEF YInv, DevicesFine
  <2>2. QED
    BY <1>6, <2>1 DEF YInv, DevicesFine
<1>9. QED
  BY <1>2, <1>7, <1>8, TypedReturn DEF PollAnswer

LEMMA YBegins ==
  ASSUME YInv, IInv', load' = load, NEW w \in Worker,
         \/ (BeginSession(w) \/ BeginClose(w) \/ BeginSweep(w)) /\ UNCHANGED deviceVars
         \/ BeginDevice(w) \/ BeginVerify(w) \/ BeginPoll(w)
  PROVE  YInv'
<1>1. DevicesFine'
  BY DevicesSame DEF BeginDevice, BeginVerify, BeginPoll
<1>2. SetsFine' /\ drawn \subseteq drawn'
  <2>1. CASE BeginClose(w)
    BY <2>1 DEF BeginClose, YInv, SetsFine, setVars
  <2>2. CASE BeginSession(w) \/ BeginSweep(w)
    BY <2>2, SetsSame DEF BeginSession, BeginSweep, SameSets, setVars, outsideVars
  <2>3. CASE BeginDevice(w) \/ BeginVerify(w) \/ BeginPoll(w)
    BY <2>3, SetsSame DEF BeginDevice, BeginVerify, BeginPoll, SameSets, setVars, outsideVars
  <2>4. QED
    BY <2>1, <2>2, <2>3
<1>3. ASSUME NEW x, Start(w, <<x>>), Typed(x) PROVE YInv'
  BY <1>1, <1>2, <1>3, TypedBegun, TypedStays
<1>4. CASE BeginSession(w)
  <2>1. PICK s \in Session : Start(w, <<[pc |-> "session.enter", s |-> s]>>)
    BY <1>4 DEF BeginSession, Begin
  <2>2. PICK x : x = [pc |-> "session.enter", s |-> s]
    OBVIOUS
  <2>3. x.pc = "session.enter" /\ x.s = s /\ DOMAIN x = {"pc", "s"}
    BY <2>2
  <2>4. Typed(x)
    BY <2>3
    DEF Typed, OfSession, OfToken, Polls, Walking, Verifies, Closes4, Inner, Recs, Holds, TokenPcs
  <2>5. QED
    BY <1>3, <2>1, <2>2, <2>4
<1>5. CASE BeginClose(w)
  <2>1. PICK s \in Session : Start(w, <<[pc |-> "close.held", s |-> s, todo |-> {}]>>)
    BY <1>5 DEF BeginClose, Begin
  <2>2. PICK x : x = [pc |-> "close.held", s |-> s, todo |-> {}]
    OBVIOUS
  <2>3. x.pc = "close.held" /\ x.s = s /\ DOMAIN x = {"pc", "s", "todo"}
    BY <2>2
  <2>4. Typed(x)
    BY <2>3
    DEF Typed, OfSession, OfToken, Polls, Walking, Verifies, Closes4, Inner, Recs, Holds, TokenPcs
  <2>5. QED
    BY <1>3, <2>1, <2>2, <2>4
<1>6. CASE BeginSweep(w)
  <2>1. Start(w, <<[pc |-> "sweep", s |-> "every", todo |-> pending]>>)
    BY <1>6 DEF BeginSweep, Begin
  <2>2. PICK x : x = [pc |-> "sweep", s |-> "every", todo |-> pending]
    OBVIOUS
  <2>3. x.pc = "sweep" /\ x.todo = pending /\ DOMAIN x = {"pc", "s", "todo"} /\ pending \subseteq Session
    BY <2>2 DEF YInv, SetsFine
  <2>4. Typed(x)
    BY <2>3
    DEF Typed, OfSession, OfToken, Polls, Walking, Verifies, Closes4, Inner, Recs, Holds, TokenPcs
  <2>5. QED
    BY <1>3, <2>1, <2>2, <2>4
<1>7. CASE BeginDevice(w)
  <2>1. PICK d \in Device : Start(w, <<[pc |-> "authorize.save", s |-> "none", d |-> d]>>)
    BY <1>7 DEF BeginDevice, Begin
  <2>2. PICK x : x = [pc |-> "authorize.save", s |-> "none", d |-> d]
    OBVIOUS
  <2>3. x.pc = "authorize.save" /\ DOMAIN x = {"pc", "s", "d"}
    BY <2>2
  <2>4. Typed(x)
    BY <2>3
    DEF Typed, OfSession, OfToken, Polls, Walking, Verifies, Closes4, Inner, Recs, Holds, DevicePcs
  <2>5. QED
    BY <1>3, <2>1, <2>2, <2>4
<1>8. CASE BeginVerify(w)
  <2>1. PICK d \in coded, s \in Session, action \in {"approve", "deny"} :
          Start(w, <<[pc |-> "verify.enter", s |-> s, d |-> d, action |-> action]>>)
    BY <1>8 DEF BeginVerify, Begin
  <2>2. PICK x : x = [pc |-> "verify.enter", s |-> s, d |-> d, action |-> action]
    OBVIOUS
  <2>3. x.pc = "verify.enter" /\ x.s = s /\ x.action = action /\ DOMAIN x = {"pc", "s", "d", "action"}
    BY <2>2
  <2>4. Typed(x)
    BY <2>3
    DEF Typed, OfSession, OfToken, Polls, Walking, Verifies, Closes4, Inner, Recs, Holds, DevicePcs
  <2>5. QED
    BY <1>3, <2>1, <2>2, <2>4
<1>9. CASE BeginPoll(w)
  <2>1. PICK d \in Device : Start(w, <<[pc |-> "poll.read", s |-> "none", d |-> d]>>)
    BY <1>9 DEF BeginPoll, Begin
  <2>2. PICK x : x = [pc |-> "poll.read", s |-> "none", d |-> d]
    OBVIOUS
  <2>3. x.pc = "poll.read" /\ DOMAIN x = {"pc", "s", "d"}
    BY <2>2
  <2>4. Typed(x)
    BY <2>3
    DEF Typed, OfSession, OfToken, Polls, Walking, Verifies, Closes4, Inner, Recs, Holds, DevicePcs
  <2>5. QED
    BY <1>3, <2>1, <2>2, <2>4
<1>10. QED
  BY <1>4, <1>5, <1>6, <1>7, <1>8, <1>9

LEMMA YStutters ==
  ASSUME YInv, IInv', SetsFine', DevicesFine', drawn \subseteq drawn', UNCHANGED task
  PROVE  YInv'
BY TypedStays DEF YInv

LEMMA TypesStart == Init /\ SessionTokensAssumption => YInv
<1> SUFFICES ASSUME Init, SessionTokensAssumption PROVE YInv
  OBVIOUS
<1>1. IInv
  BY Starts
<1>2. kept \in [Session -> [held : SUBSET drawn, awaiting : SUBSET drawn]]
  BY DEF Init, SessionTokensInit, NoMembers
<1>3. SetsFine
  BY <1>2 DEF Init, SessionTokensInit, SetsFine, SessionTokensAssumption
<1>4. DevicesFine
  BY DEF Init, DevicesFine, DeviceType
<1>5. \A w \in Worker : Ranked(task[w]) /\ \A r : ~In(r, task[w])
  BY RankedTuples, InTuples DEF Init, SessionTokensInit
<1>6. QED
  BY <1>1, <1>3, <1>4, <1>5 DEF YInv

LEMMA TypesStep == SessionTokensAssumption /\ YInv /\ [Next]_allVars => YInv'
<1> SUFFICES ASSUME SessionTokensAssumption, YInv, [Next]_allVars PROVE YInv'
  OBVIOUS
<1>1. IInv'
  BY Steps DEF YInv
<1>2. CASE UNCHANGED allVars
  <2>1. SameSets /\ UNCHANGED deviceVars /\ UNCHANGED task
    BY <1>2 DEF allVars, vars, setVars, outsideVars, SameSets
  <2>2. QED
    BY <1>1, <2>1, SetsSame, DevicesSame, YStutters
<1>3. load' = load
  BY DEF Next, allVars, vars
<1>4. CASE SessionTokensNext /\ UNCHANGED deviceVars
  <2>1. ASSUME NEW w \in Worker, Fails(w) \/ Crash(w) PROVE YInv'
    <3>1. PICK n : task' = [task EXCEPT ![w] = n] /\ (n = Unwound(task[w]) \/ n = <<>>)
      BY <2>1 DEF Fails, Crash, Throw, Drop
    <3>2. /\ UNCHANGED <<setVars, denied, entering, drawn, given, finished>>
          /\ faults < load.faults /\ faults' = faults + 1
      BY <2>1 DEF Fails, Crash
    <3>3. load.faults \in Nat
      BY DEF YInv, SetsFine, SessionTokensAssumption
    <3>4. faults' \in 0 .. load'.faults
      BY <1>3, <3>2, <3>3 DEF YInv, SetsFine
    <3>5. SetsFine' /\ drawn \subseteq drawn'
      BY <1>3, <3>2, <3>4 DEF YInv, SetsFine, setVars
    <3>6. QED
      BY <1>1, <1>4, <3>1, <3>5, DevicesSame, TypedThrown
  <2>2. QED
    BY <1>1, <1>3, <1>4, <2>1, YSettles, YRecords, YCloses, YSweeps, YIssues, YSessions, YBegins
    DEF SessionTokensNext, Work
<1>5. ASSUME NEW w \in Worker, DeviceWork(w) PROVE YInv'
  BY <1>1, <1>3, <1>5, YAuthorizes, YVerifies, YPolls, YAnswers DEF DeviceWork
<1>6. ASSUME NEW w \in Worker, BeginDevice(w) \/ BeginVerify(w) \/ BeginPoll(w) PROVE YInv'
  BY <1>1, <1>3, <1>6, YBegins
<1>7. ASSUME NEW d \in Device, DeviceEnds(d) PROVE YInv'
  <2>1. SameSets /\ UNCHANGED task
    BY <1>3, <1>7 DEF DeviceEnds, setVars, outsideVars, SameSets
  <2>2. DevicesFine'
    BY <1>7 DEF DeviceEnds, YInv, DevicesFine
  <2>3. QED
    BY <1>1, <2>1, <2>2, SetsSame, YStutters
<1>8. QED
  BY <1>2, <1>4, <1>5, <1>6, <1>7 DEF Next

(* Every variable of the token sets and of devices keeps its type: a set   *)
(* holds only tokens that were drawn, a device's record is one of those    *)
(* the grant writes, and a worker is three calls deep at most (module.ts   *)
(* settler, recorder; grant.ts; verification.ts).                          *)
THEOREM DevicesTypeCorrect == Spec => []TypeOK
<1>1. SessionTokensAssumption
  BY SessionTokensAssumption
<1>2. QED
  BY <1>1, TypesStart, TypesStep, TypesCorrect, PTL DEF Spec

----------------------------------------------------------------------------
(***************************************************************************)
(* What an add pushed out, where one call fails or one host stops at most, *)
(* and none between an add and its listing.                                *)
(*                                                                         *)
(* Two things keep it followed, and one fault undoes one of them at most:  *)
(* its session is listed, or someone is about to look at it or list it     *)
(* again (Listed); and someone has it in hand, from the add that pushed it *)
(* out to the end of that one's own settling (Handled).                    *)
(***************************************************************************)
Steady == load.faults <= 1 /\ "record.relist" \notin load.fails \cup load.crashes

Lookers == {"record.relist", "settle.again", "settle.add"}
Looks(r, s) == r.pc \in Lookers /\ r.s = s
Looked(s) == \E w \in Worker : task[w] # <<>> /\ Looks(Top(w), s)

InHand(r, a, s) ==
  /\ r.s = s
  /\ \/ r.pc \in {"record.relist", "settle.read"}
     \/ r.pc = "settle.deny" /\ a \in r.todo
     \/ r.pc = "settle.take" /\ r.a = a
Handles(w, a, s) == \E r : In(r, task[w]) /\ InHand(r, a, s)

Listed == \A s \in Session : kept[s].awaiting # {} => s \in pending \/ Looked(s)
Handled == \A s \in Session : \A a \in kept[s].awaiting : \E w \in Worker : Handles(w, a, s)

FInv ==
  /\ YInv
  /\ Steady => (Listed \/ Handled) /\ (faults = 0 => Listed /\ Handled)

LEMMA Follow == FInv => (Steady => AwaitingFollowed)
<1> SUFFICES ASSUME FInv, Steady PROVE AwaitingFollowed
  OBVIOUS
<1> DEFINE Pcs == {"record.relist", "settle.read", "settle.deny", "settle.take", "settle.check",
                   "settle.done", "settle.again", "settle.add"}
<1>1. ASSUME NEW s \in Session, NEW w \in Worker, NEW r, In(r, task[w]), r.pc \in Pcs, r.s = s
      PROVE  Engaged(Pcs, s)
  <2>1. PICK n : n = task[w]
    OBVIOUS
  <2>2. DOMAIN n = 1 .. Len(n)
    BY <2>1, IsStackParts DEF FInv, YInv, IInv, Shape
  <2>3. PICK i \in 1 .. Len(n) : r = n[i]
    BY <1>1, <2>1 DEF In
  <2>4. QED
    BY <1>1, <2>1, <2>2, <2>3 DEF Engaged
<1>2. SUFFICES ASSUME NEW s \in Session, kept[s].awaiting # {} PROVE s \in pending \/ Engaged(Pcs, s)
  BY DEF AwaitingFollowed
<1>3. CASE Listed
  <2>1. SUFFICES ASSUME Looked(s) PROVE Engaged(Pcs, s)
    BY <1>2, <1>3 DEF Listed
  <2>2. PICK w \in Worker : task[w] # <<>> /\ Looks(Top(w), s)
    BY <2>1 DEF Looked
  <2>3. In(Top(w), task[w])
    BY <2>2, Tops DEF FInv, YInv
  <2>4. QED
    BY <1>1, <2>2, <2>3 DEF Looks, Lookers
<1>4. CASE Handled
  <2>1. PICK a \in kept[s].awaiting, w \in Worker : Handles(w, a, s)
    BY <1>2, <1>4 DEF Handled
  <2>2. PICK r : In(r, task[w]) /\ InHand(r, a, s)
    BY <2>1 DEF Handles
  <2>3. r.pc \in Pcs /\ r.s = s
    BY <2>2 DEF InHand
  <2>4. QED
    BY <1>1, <2>2, <2>3
<1>5. QED
  BY <1>3, <1>4 DEF FInv

----------------------------------------------------------------------------
(* A step of w that leaves n: what w looks after it still does, or need    *)
(* not any more; what is new it looks after.                               *)
LEMMA ListedStays ==
  ASSUME YInv, Listed, NEW w \in Worker, NEW n, task' = [task EXCEPT ![w] = n],
         \A s \in Session : kept'[s].awaiting # {} =>
           /\ kept[s].awaiting # {} \/ (n # <<>> /\ Looks(Head(n), s))
           /\ s \in pending => s \in pending' \/ (n # <<>> /\ Looks(Head(n), s))
           /\ task[w] # <<>> /\ Looks(Top(w), s) => s \in pending' \/ (n # <<>> /\ Looks(Head(n), s))
  PROVE  Listed'
<1>1. task'[w] = n /\ \A v \in Worker \ {w} : task'[v] = task[v]
  BY DEF YInv, IInv
<1>2. SUFFICES ASSUME NEW s \in Session, kept'[s].awaiting # {} PROVE s \in pending' \/ Looked(s)'
  BY DEF Listed
<1>3. CASE n # <<>> /\ Looks(Head(n), s)
  <2>1. task'[w] # <<>> /\ Looks(Head(task'[w]), s)
    BY <1>1, <1>3
  <2>2. QED
    BY <2>1 DEF Looked, Top, Looks
<1>4. CASE ~(n # <<>> /\ Looks(Head(n), s))
  <2>1. s \in pending \/ Looked(s)
    BY <1>2, <1>4 DEF Listed
  <2>2. ASSUME NEW v \in Worker, task[v] # <<>>, Looks(Top(v), s) PROVE s \in pending' \/ Looked(s)'
    <3>1. CASE v = w
      BY <1>2, <1>4, <2>2, <3>1
    <3>2. CASE v # w
      <4>1. task'[v] # <<>> /\ Looks(Head(task'[v]), s)
        BY <1>1, <2>2, <3>2 DEF Top
      <4>2. QED
        BY <4>1 DEF Looked, Top, Looks
    <3>3. QED
      BY <3>1, <3>2
  <2>3. QED
    BY <1>2, <1>4, <2>1, <2>2 DEF Looked
<1>5. QED
  BY <1>3, <1>4

LEMMA HandledStays ==
  ASSUME YInv, Handled, NEW w \in Worker, NEW n, task' = [task EXCEPT ![w] = n],
         \A s \in Session : \A a \in kept'[s].awaiting :
           /\ a \in kept[s].awaiting \/ \E q : In(q, n) /\ InHand(q, a, s)
           /\ Handles(w, a, s) => \E q : In(q, n) /\ InHand(q, a, s)
  PROVE  Handled'
<1>1. task'[w] = n /\ \A v \in Worker \ {w} : task'[v] = task[v]
  BY DEF YInv, IInv
<1>2. SUFFICES ASSUME NEW s \in Session, NEW a \in kept'[s].awaiting PROVE \E v \in Worker : Handles(v, a, s)'
  BY DEF Handled
<1>3. CASE \E q : In(q, n) /\ InHand(q, a, s)
  BY <1>1, <1>3 DEF Handles
<1>4. CASE ~\E q : In(q, n) /\ InHand(q, a, s)
  <2>1. a \in kept[s].awaiting /\ ~Handles(w, a, s)
    BY <1>2, <1>4
  <2>2. PICK v \in Worker : Handles(v, a, s)
    BY <2>1 DEF Handled
  <2>3. v # w
    BY <2>1, <2>2
  <2>4. QED
    BY <1>1, <2>2, <2>3 DEF Handles
<1>5. QED
  BY <1>3, <1>4

LEMMA InKept ==
  ASSUME NEW s, IsStack(s), s # <<>>, NEW a, IsStack(a), NEW r, In(r, s)
  PROVE  r = s[1] \/ In(r, a \o Tail(s))
<1> DEFINE n == a \o Tail(s)
           k == Len(a)
           l == Len(s)
<1>1. l \in Nat \ {0} /\ k \in Nat
  BY IsStackParts
<1>2. Len(n) = k + l - 1 /\ \A i \in 1 .. Len(n) : n[i] = IF i <= k THEN a[i] ELSE s[i - k + 1]
  BY Made
<1>3. PICK i \in 1 .. l : r = s[i]
  BY DEF In
<1> HIDE DEF n, k, l
<1>4. CASE i = 1
  BY <1>3, <1>4
<1>5. CASE i > 1
  <2>1. PICK j : j = i + k - 1
    OBVIOUS
  <2>2. j \in 1 .. Len(n) /\ j > k /\ j - k + 1 = i
    BY <1>1, <1>2, <1>5, <2>1
  <2>3. n[j] = s[i]
    BY <1>1, <1>2, <2>2
  <2>4. QED
    BY <1>3, <2>2, <2>3 DEF In, n
<1>6. QED
  BY <1>4, <1>5

LEMMA InHead ==
  ASSUME NEW s, IsStack(s), s # <<>>, NEW x, NEW a, IsStack(a), Len(a) > 0, a[1] = x
  PROVE  LET n == a \o Tail(s) IN n # <<>> /\ Head(n) = x /\ In(x, n)
<1>1. PICK n : n = a \o Tail(s)
  OBVIOUS
<1>2. /\ IsStack(n) /\ Len(n) = Len(a) + Len(s) - 1 /\ Len(s) \in Nat /\ Len(s) > 0 /\ Len(a) \in Nat
      /\ \A i \in 1 .. Len(n) : n[i] = IF i <= Len(a) THEN a[i] ELSE s[i - Len(a) + 1]
  BY <1>1, Made, IsStackParts
<1>3. 1 \in 1 .. Len(n) /\ n[1] = x /\ Len(n) > 0
  BY <1>2
<1>4. n # <<>>
  BY <1>3, Tuples
<1>5. QED
  BY <1>1, <1>2, <1>3, <1>4, IsStackParts DEF In

LEMMA InAdded ==
  ASSUME NEW s, IsStack(s), s # <<>>, NEW a, IsStack(a), NEW r, In(r, a)
  PROVE  In(r, a \o Tail(s))
<1> DEFINE n == a \o Tail(s)
           k == Len(a)
           l == Len(s)
<1>1. l \in Nat \ {0} /\ k \in Nat
  BY IsStackParts
<1>2. Len(n) = k + l - 1 /\ \A i \in 1 .. Len(n) : n[i] = IF i <= k THEN a[i] ELSE s[i - k + 1]
  BY Made
<1>3. PICK i \in 1 .. k : r = a[i]
  BY DEF In
<1> HIDE DEF n, k, l
<1>4. i \in 1 .. Len(n) /\ n[i] = a[i]
  BY <1>1, <1>2
<1>5. QED
  BY <1>3, <1>4 DEF In, n

(* The top of w makes way for these.                                       *)
HeadLooks(a, s) == Len(a) > 0 /\ Looks(a[1], s)
Holding(a, b, s) == \E q : In(q, a) /\ InHand(q, b, s)

StaysListed(w, a) ==
  \A s \in Session : kept'[s].awaiting # {} =>
    /\ kept[s].awaiting # {} \/ HeadLooks(a, s)
    /\ s \in pending => s \in pending' \/ HeadLooks(a, s)
    /\ Looks(Top(w), s) => s \in pending' \/ HeadLooks(a, s)

StaysHandled(w, a) ==
  \A s \in Session : \A b \in kept'[s].awaiting :
    /\ b \in kept[s].awaiting \/ Holding(a, b, s)
    /\ InHand(Top(w), b, s) => Holding(a, b, s)

LEMMA FollowBecome ==
  ASSUME FInv, YInv', load' = load, faults' = faults, NEW w \in Worker, task[w] # <<>>,
         NEW a, IsStack(a), Become(w, a), StaysListed(w, a), StaysHandled(w, a)
  PROVE  FInv'
<1>1. PICK s, t, n : s = task[w] /\ t = Top(w) /\ n = a \o Tail(s)
  OBVIOUS
<1>2. IsStack(s) /\ s # <<>> /\ t = s[1] /\ task' = [task EXCEPT ![w] = n] /\ YInv
  BY <1>1, TypedTops DEF FInv, Become
<1>3. Len(a) > 0 => n # <<>> /\ Head(n) = a[1]
  BY <1>1, <1>2, InHead
<1>4. ASSUME Listed PROVE Listed'
  <2>1. \A q \in Session : HeadLooks(a, q) => n # <<>> /\ Looks(Head(n), q)
    BY <1>3 DEF HeadLooks
  <2>2. \A q \in Session : kept'[q].awaiting # {} =>
           /\ kept[q].awaiting # {} \/ (n # <<>> /\ Looks(Head(n), q))
           /\ q \in pending => q \in pending' \/ (n # <<>> /\ Looks(Head(n), q))
           /\ task[w] # <<>> /\ Looks(Top(w), q) => q \in pending' \/ (n # <<>> /\ Looks(Head(n), q))
    BY <2>1 DEF StaysListed
  <2>3. QED
    BY <1>2, <1>4, <2>2, ListedStays
<1>5. ASSUME Handled PROVE Handled'
  <2>1. ASSUME NEW q \in Session, NEW b, Holding(a, b, q) PROVE \E r : In(r, n) /\ InHand(r, b, q)
    BY <1>1, <1>2, <2>1, InAdded DEF Holding
  <2>2. ASSUME NEW q \in Session, NEW b \in kept'[q].awaiting, Handles(w, b, q)
        PROVE  \E r : In(r, n) /\ InHand(r, b, q)
    <3>1. PICK r : In(r, s) /\ InHand(r, b, q)
      BY <1>1, <2>2 DEF Handles
    <3>2. CASE r = s[1]
      BY <1>1, <1>2, <2>1, <3>1, <3>2 DEF StaysHandled
    <3>3. CASE In(r, n)
      BY <3>1, <3>3
    <3>4. QED
      BY <1>1, <1>2, <3>1, <3>2, <3>3, InKept
  <2>3. \A q \in Session : \A b \in kept'[q].awaiting :
           /\ b \in kept[q].awaiting \/ \E r : In(r, n) /\ InHand(r, b, q)
           /\ Handles(w, b, q) => \E r : In(r, n) /\ InHand(r, b, q)
    BY <2>1, <2>2 DEF StaysHandled
  <2>4. QED
    BY <1>2, <1>5, <2>3, HandledStays
<1>6. Steady' => Steady
  BY DEF Steady
<1>7. QED
  BY <1>4, <1>5, <1>6 DEF FInv

(* One that looks after nothing.                                           *)
Special == Lookers \cup {"settle.read", "settle.deny", "settle.take"}

LEMMA FollowBland ==
  ASSUME FInv, YInv', load' = load, faults' = faults, NEW w \in Worker, task[w] # <<>>,
         NEW a, IsStack(a), Become(w, a), Top(w).pc \notin Special, kept' = kept, pending \subseteq pending'
  PROVE  FInv'
<1>1. \A s, b : ~Looks(Top(w), s) /\ ~InHand(Top(w), b, s)
  BY DEF Looks, InHand, Special, Lookers
<1>2. StaysListed(w, a) /\ StaysHandled(w, a)
  BY <1>1 DEF StaysListed, StaysHandled
<1>3. QED
  BY <1>2, FollowBecome

LEMMA FollowElse ==
  ASSUME FInv, YInv', load' = load, faults' = faults, kept' = kept, pending \subseteq pending',
         NEW w \in Worker, NEW n, task' = [task EXCEPT ![w] = n],
         task[w] # <<>> => Top(w).pc \notin Special /\ Len(task[w]) = 1
  PROVE  FInv'
<1>1. IsStack(task[w]) /\ YInv
  BY DEF FInv, YInv, IInv, Shape
<1>2. ASSUME NEW r, In(r, task[w]) PROVE r.pc \notin Special
  <2>1. PICK s : s = task[w]
    OBVIOUS
  <2>2. PICK i \in 1 .. Len(s) : r = s[i]
    BY <1>2, <2>1 DEF In
  <2>3. s # <<>>
    BY <2>2, Tuples
  <2>4. Len(s) = 1 /\ Top(w) = s[1] /\ Top(w).pc \notin Special
    BY <1>1, <2>1, <2>3, TypedTops
  <2>5. i = 1
    BY <2>2, <2>4
  <2>6. QED
    BY <2>2, <2>4, <2>5
<1>3. \A b, s : ~Handles(w, b, s)
  BY <1>2 DEF Handles, InHand, Special, Lookers
<1>4. \A s : ~(task[w] # <<>> /\ Looks(Top(w), s))
  BY DEF Looks, Special
<1>5. Listed => Listed'
  BY <1>1, <1>4, ListedStays
<1>6. Handled => Handled'
  BY <1>1, <1>3, HandledStays
<1>7. Steady' => Steady
  BY DEF Steady
<1>8. QED
  BY <1>5, <1>6, <1>7 DEF FInv

(* A call that fails, or a host that stops, takes with it what one stack   *)
(* looked after: no frame under one that looks again has anything in hand. *)
LEMMA FollowFault ==
  ASSUME FInv, YInv', load' = load, NEW w \in Worker, task[w] # <<>>, faults < load.faults, faults' = faults + 1,
         kept' = kept, pending' = pending, Steady => Top(w).pc # "record.relist",
         NEW n, task' = [task EXCEPT ![w] = n]
  PROVE  FInv'
<1>1. YInv /\ (Steady' => Steady) /\ faults \in Nat /\ load.faults \in Nat
  <2>1. SessionTokensAssumption
    BY SessionTokensAssumption
  <2>2. QED
    BY <2>1 DEF FInv, YInv, SetsFine, Steady, SessionTokensAssumption
<1>2. SUFFICES ASSUME Steady PROVE Listed' \/ Handled'
  BY <1>1 DEF FInv
<1>3. Listed /\ Handled
  BY <1>1, <1>2 DEF FInv, Steady
<1>4. CASE Top(w).pc \notin Lookers
  <2>1. \A s : ~Looks(Top(w), s)
    BY <1>4 DEF Looks
  <2>2. QED
    BY <1>1, <1>3, <2>1, ListedStays
<1>5. CASE Top(w).pc \in {"settle.again", "settle.add"}
  <2>1. PICK s : s = task[w]
    OBVIOUS
  <2>2. IsStack(s) /\ Ranked(s) /\ Top(w) = s[1] /\ Len(s) \in Nat /\ Len(s) <= 3
    BY <1>1, <2>1, TypedTops, RankedShort, IsStackParts
  <2>3. Rank(s[1]) = 1
    BY <1>5, <2>2 DEF Rank, Inner
  <2>4. ASSUME NEW i \in 1 .. Len(s), i > 1 PROVE Rank(s[i]) > 1
    <3>1. i = 2 \/ i = 3
      BY <2>2, <2>4
    <3>2. Rank(s[1]) < Rank(s[1 + 1]) /\ (i = 3 => Rank(s[2]) < Rank(s[2 + 1]))
      BY <2>2, <2>4, <3>1 DEF Ranked
    <3>3. QED
      BY <2>3, <3>1, <3>2, Ranks
  <2>5. ASSUME NEW i \in 1 .. Len(s) PROVE s[i].pc \notin {"record.relist", "settle.read", "settle.deny", "settle.take"}
    <3>1. CASE i = 1
      BY <1>5, <2>2, <3>1
    <3>2. CASE i > 1
      <4>1. Rank(s[i]) > 1
        BY <2>4, <3>2
      <4>2. QED
        BY <4>1 DEF Rank, Inner
    <3>3. QED
      BY <2>2, <3>1, <3>2
  <2>6. \A a, q : ~Handles(w, a, q)
    BY <2>1, <2>5 DEF Handles, In, InHand
  <2>7. QED
    BY <1>1, <1>3, <2>6, HandledStays
<1>6. QED
  BY <1>2, <1>4, <1>5 DEF Lookers

LEMMA HoldsOne ==
  ASSUME NEW x, NEW y
  PROVE  /\ \A b, s : InHand(x, b, s) => Holding(<<x>>, b, s) /\ Holding(<<x, y>>, b, s)
         /\ \A b, s : InHand(y, b, s) => Holding(<<x, y>>, b, s)
         /\ \A s : HeadLooks(<<x>>, s) <=> Looks(x, s)
<1>1. ASSUME NEW a, NEW i \in 1 .. 2, Len(a) \in 1 .. 2, i <= Len(a) PROVE In(a[i], a)
  BY <1>1 DEF In
<1>2. In(x, <<x>>)
  <2>1. PICK a : a = <<x>>
    OBVIOUS
  <2>2. Len(a) = 1 /\ a[1] = x
    BY <2>1, Tuples
  <2>3. QED
    BY <1>1, <2>1, <2>2
<1>3. In(x, <<x, y>>) /\ In(y, <<x, y>>)
  <2>1. PICK a : a = <<x, y>>
    OBVIOUS
  <2>2. Len(a) = 2 /\ a[1] = x /\ a[2] = y
    BY <2>1, Tuples
  <2>3. QED
    BY <1>1, <2>1, <2>2
<1>4. \A s : HeadLooks(<<x>>, s) <=> Looks(x, s)
  BY Tuples DEF HeadLooks
<1>5. QED
  BY <1>2, <1>3, <1>4 DEF Holding

LEMMA FollowOne ==
  ASSUME FInv, YInv', load' = load, faults' = faults, NEW w \in Worker, task[w] # <<>>,
         NEW x, Become(w, <<x>>),
         \A s \in Session : kept'[s].awaiting # {} =>
           /\ kept[s].awaiting # {} \/ Looks(x, s)
           /\ s \in pending => s \in pending' \/ Looks(x, s)
           /\ Looks(Top(w), s) => s \in pending' \/ Looks(x, s),
         \A s \in Session : \A b \in kept'[s].awaiting :
           /\ b \in kept[s].awaiting \/ InHand(x, b, s)
           /\ InHand(Top(w), b, s) => InHand(x, b, s)
  PROVE  FInv'
<1>1. PICK a : a = <<x>>
  OBVIOUS
<1>2. IsStack(a) /\ Become(w, a)
  BY <1>1, Tuples
<1>3. StaysListed(w, a)
  BY <1>1, HoldsOne DEF StaysListed
<1>4. StaysHandled(w, a)
  BY <1>1, HoldsOne DEF StaysHandled
<1>5. QED
  BY <1>2, <1>3, <1>4, FollowBecome

LEMMA FollowReturn ==
  ASSUME FInv, YInv', load' = load, faults' = faults, NEW w \in Worker, task[w] # <<>>, Return(w),
         pending \subseteq pending',
         \A s \in Session : kept'[s].awaiting \subseteq kept[s].awaiting,
         \A s \in Session : kept'[s].awaiting # {} => (Looks(Top(w), s) => s \in pending'),
         \A s \in Session : \A b \in kept'[s].awaiting : ~InHand(Top(w), b, s)
  PROVE  FInv'
<1>1. PICK a : a = <<>>
  OBVIOUS
<1>2. IsStack(a) /\ Become(w, a)
  BY <1>1, Tuples DEF Return
<1>3. StaysListed(w, a)
  BY DEF StaysListed
<1>4. StaysHandled(w, a)
  BY DEF StaysHandled
<1>5. QED
  BY <1>2, <1>3, <1>4, FollowBecome

LEMMA ToBecomes ==
  ASSUME YInv, NEW w \in Worker, task[w] # <<>>, NEW pc, To(w, pc)
  PROVE  \E x : Become(w, <<x>>) /\ x.pc = pc /\ ("s" \in DOMAIN Top(w) => x.s = Top(w).s)
<1>1. PICK t, x : t = Top(w) /\ x = [t EXCEPT !.pc = pc]
  OBVIOUS
<1>2. "pc" \in DOMAIN t
  BY <1>1, TypedTops DEF Typed
<1>3. x.pc = pc /\ ("s" \in DOMAIN t => x.s = t.s)
  BY <1>1, <1>2
<1>4. Become(w, <<x>>)
  BY <1>1 DEF To
<1>5. QED
  BY <1>1, <1>3, <1>4

LEMMA FollowSettles ==
  ASSUME FInv, YInv', load' = load, NEW w \in Worker, SettleStep(w)
  PROVE  FInv'
<1>1. PICK t : t = Top(w)
  OBVIOUS
<1>2. /\ task[w] # <<>> /\ YInv
      /\ t.pc \in {"settle.read", "settle.deny", "settle.take", "settle.check", "settle.done", "settle.again",
                   "settle.add"}
  BY <1>1 DEF FInv, SettleStep, SettleRead, SettleDeny, SettleTake, SettleCheck, SettleDone, SettleAgain, SettleAdd,
              Doing, Idle
<1>3. Typed(t) /\ "pc" \in DOMAIN t
  BY <1>1, <1>2, TypedTops
<1>4. t.s \in Session /\ "s" \in DOMAIN t
  BY <1>2, <1>3 DEF Typed, OfSession, Inner
<1>5. faults' = faults
  BY DEF SettleStep, SettleRead, SettleDeny, SettleTake, SettleCheck, SettleDone, SettleAgain, SettleAdd,
         outsideVars, Deny
<1>6. CASE SettleRead(w)
  <2>1. PICK x : x = [t EXCEPT !.pc = "settle.deny", !.todo = kept[t.s].awaiting] /\ Become(w, <<x>>)
    BY <1>1, <1>6 DEF SettleRead
  <2>2. t.pc = "settle.read" /\ "todo" \in DOMAIN t /\ kept' = kept /\ pending' = pending
    BY <1>1, <1>3, <1>6 DEF SettleRead, Doing, Typed, Walking, setVars
  <2>3. x.pc = "settle.deny" /\ x.todo = kept[t.s].awaiting /\ x.s = t.s
    BY <1>3, <1>4, <2>1, <2>2
  <2>4. \A s, b : InHand(t, b, s) /\ b \in kept[s].awaiting => InHand(x, b, s)
    BY <2>2, <2>3 DEF InHand
  <2>5. \A s : ~Looks(t, s)
    BY <2>2 DEF Looks, Lookers
  <2>6. QED
    BY <1>1, <1>2, <1>5, <2>1, <2>2, <2>4, <2>5, FollowOne
<1>7. CASE SettleDeny(w)
  <2>1. t.pc = "settle.deny" /\ "todo" \in DOMAIN t /\ kept' = kept /\ pending' = pending
    BY <1>1, <1>3, <1>7 DEF SettleDeny, Doing, Typed, Walking, setVars
  <2>2. \A s : ~Looks(t, s)
    BY <2>1 DEF Looks, Lookers
  <2>3. ASSUME NEW a \in t.todo,
               Become(w, <<[pc |-> "settle.take", s |-> t.s, a |-> a], [t EXCEPT !.todo = @ \ {a}]>>)
        PROVE  FInv'
    <3>1. PICK x, y, n : /\ x = [pc |-> "settle.take", s |-> t.s, a |-> a]
                         /\ y = [t EXCEPT !.todo = @ \ {a}] /\ n = <<x, y>> /\ Become(w, n)
      BY <2>3
    <3>2. y.pc = "settle.deny" /\ y.s = t.s /\ y.todo = t.todo \ {a}
      BY <1>3, <1>4, <2>1, <3>1
    <3>3. x.pc = "settle.take" /\ x.s = t.s /\ x.a = a
      BY <3>1
    <3>4. \A s, b : InHand(t, b, s) => InHand(x, b, s) \/ InHand(y, b, s)
      BY <2>1, <3>2, <3>3 DEF InHand
    <3>5. \A s, b : InHand(t, b, s) => Holding(n, b, s)
      BY <3>1, <3>4, HoldsOne
    <3>6. StaysListed(w, n) /\ StaysHandled(w, n)
      BY <1>1, <2>1, <2>2, <3>5 DEF StaysListed, StaysHandled
    <3>7. IsStack(n)
      BY <3>1, Tuples
    <3>8. QED
      BY <1>2, <1>5, <3>1, <3>6, <3>7, FollowBecome
  <2>4. ASSUME t.todo = {}, To(w, "settle.check") PROVE FInv'
    <3>1. PICK x : Become(w, <<x>>)
      BY <1>2, <2>4, ToBecomes
    <3>2. \A s, b : ~InHand(t, b, s)
      BY <2>1, <2>4 DEF InHand
    <3>3. QED
      BY <1>1, <1>2, <1>5, <2>1, <2>2, <3>1, <3>2, FollowOne
  <2>5. QED
    BY <1>1, <1>7, <2>3, <2>4 DEF SettleDeny
<1>8. CASE SettleTake(w)
  <2>1. /\ t.pc = "settle.take" /\ kept' = [kept EXCEPT ![t.s] = Settled(@, t.a)] /\ pending' = pending
        /\ Return(w)
    BY <1>1, <1>8 DEF SettleTake, Doing
  <2>2. kept \in [Session -> [held : SUBSET drawn, awaiting : SUBSET drawn]]
    BY <1>2 DEF YInv, SetsFine
  <2>3. Settled(kept[t.s], t.a).awaiting = kept[t.s].awaiting \ {t.a}
    BY <1>4, <2>2 DEF Settled
  <2>4. \A s \in Session : kept'[s].awaiting = IF s = t.s THEN kept[s].awaiting \ {t.a} ELSE kept[s].awaiting
    BY <1>4, <2>1, <2>2, <2>3
  <2>5. \A s : ~Looks(t, s)
    BY <2>1 DEF Looks, Lookers
  <2>6. \A s \in Session : \A b \in kept'[s].awaiting : ~InHand(t, b, s)
    <3>1. t.pc = "settle.take"
      BY <2>1
    <3>2. QED
      BY <2>4, <3>1 DEF InHand
  <2>7. \A s \in Session : kept'[s].awaiting \subseteq kept[s].awaiting
    BY <2>4
  <2>8. QED
    BY <1>1, <1>2, <1>5, <2>1, <2>5, <2>6, <2>7, FollowReturn
<1>9. CASE SettleCheck(w)
  <2>1. t.pc = "settle.check" /\ kept' = kept /\ pending' = pending
    BY <1>1, <1>9 DEF SettleCheck, Doing, setVars
  <2>2. \A s, b : ~Looks(t, s) /\ ~InHand(t, b, s)
    BY <2>1 DEF Looks, Lookers, InHand
  <2>3. ASSUME To(w, "settle.done") PROVE FInv'
    <3>1. PICK x : Become(w, <<x>>)
      BY <1>2, <2>3, ToBecomes
    <3>2. QED
      BY <1>1, <1>2, <1>5, <2>1, <2>2, <3>1, FollowOne
  <2>4. ASSUME Return(w) PROVE FInv'
    BY <1>1, <1>2, <1>5, <2>1, <2>2, <2>4, FollowReturn
  <2>5. QED
    BY <1>9, <2>3, <2>4 DEF SettleCheck
<1>10. CASE SettleDone(w)
  <2>1. t.pc = "settle.done" /\ kept' = kept /\ pending' = pending \ {t.s} /\ To(w, "settle.again")
    BY <1>1, <1>10 DEF SettleDone, Doing
  <2>2. \A s, b : ~Looks(t, s) /\ ~InHand(t, b, s)
    BY <2>1 DEF Looks, Lookers, InHand
  <2>3. PICK x : Become(w, <<x>>) /\ x.pc = "settle.again" /\ x.s = t.s
    BY <1>1, <1>2, <1>4, <2>1, ToBecomes
  <2>4. Looks(x, t.s)
    BY <2>3 DEF Looks, Lookers
  <2>5. QED
    BY <1>1, <1>2, <1>5, <2>1, <2>2, <2>3, <2>4, FollowOne
<1>11. CASE SettleAgain(w)
  <2>1. t.pc = "settle.again" /\ kept' = kept /\ pending' = pending
    BY <1>1, <1>11 DEF SettleAgain, Doing, setVars
  <2>2. \A s, b : ~InHand(t, b, s) /\ (Looks(t, s) => s = t.s)
    BY <2>1 DEF Looks, InHand
  <2>3. ASSUME kept[t.s].awaiting = {}, Return(w) PROVE FInv'
    BY <1>1, <1>2, <1>5, <2>1, <2>2, <2>3, FollowReturn
  <2>4. ASSUME To(w, "settle.add") PROVE FInv'
    <3>1. PICK x : Become(w, <<x>>) /\ x.pc = "settle.add" /\ x.s = t.s
      BY <1>1, <1>2, <1>4, <2>4, ToBecomes
    <3>2. Looks(x, t.s)
      BY <3>1 DEF Looks, Lookers
    <3>3. QED
      BY <1>1, <1>2, <1>5, <2>1, <2>2, <3>1, <3>2, FollowOne
  <2>5. QED
    BY <1>1, <1>11, <2>3, <2>4 DEF SettleAgain
<1>12. CASE SettleAdd(w)
  <2>1. t.pc = "settle.add" /\ kept' = kept /\ pending' = pending \cup {t.s} /\ Return(w)
    BY <1>1, <1>12 DEF SettleAdd, Doing
  <2>2. \A s, b : ~InHand(t, b, s) /\ (Looks(t, s) => s = t.s)
    BY <2>1 DEF Looks, InHand
  <2>3. QED
    BY <1>1, <1>2, <1>5, <2>1, <2>2, FollowReturn
<1>13. QED
  BY <1>6, <1>7, <1>8, <1>9, <1>10, <1>11, <1>12 DEF SettleStep

LEMMA FollowRecords ==
  ASSUME FInv, YInv', load' = load, NEW w \in Worker, RecordStep(w)
  PROVE  FInv'
<1>1. PICK t : t = Top(w)
  OBVIOUS
<1>2. /\ task[w] # <<>> /\ YInv
      /\ t.pc \in {"record.index", "record.near", "record.list", "record.add", "record.relist"}
  BY <1>1 DEF FInv, RecordStep, RecordIndex, RecordNear, RecordList, RecordAdd, RecordRelist, Doing, Idle
<1>3. Typed(t) /\ "pc" \in DOMAIN t
  BY <1>1, <1>2, TypedTops
<1>4. t.s \in Session /\ "s" \in DOMAIN t /\ (t.pc = "record.add" => t.a \in drawn)
  BY <1>2, <1>3 DEF Typed, OfSession, Inner, OfToken, Recs
<1>5. faults' = faults
  BY DEF RecordStep, RecordIndex, RecordNear, RecordList, RecordAdd, RecordRelist, outsideVars
<1>6. CASE RecordIndex(w) \/ RecordNear(w) \/ RecordList(w)
  <2>1. /\ t.pc \in {"record.index", "record.near", "record.list"} /\ kept' = kept /\ pending \subseteq pending'
        /\ \E pc \in {"record.near", "record.list", "record.add"} : To(w, pc)
    BY <1>1, <1>6 DEF RecordIndex, RecordNear, RecordList, Doing, setVars
  <2>2. PICK x, a : Become(w, <<x>>) /\ a = <<x>>
    BY <1>2, <2>1, ToBecomes
  <2>3. t.pc \notin Special /\ IsStack(a)
    BY <2>1, <2>2, Tuples DEF Special, Lookers
  <2>4. QED
    BY <1>1, <1>2, <1>5, <2>1, <2>2, <2>3, FollowBland
<1>7. CASE RecordAdd(w)
  <2>1. t.pc = "record.add" /\ pending' = pending
    BY <1>1, <1>7 DEF RecordAdd, Doing
  <2>2. \A s, b : ~Looks(t, s) /\ ~InHand(t, b, s)
    BY <2>1 DEF Looks, Lookers, InHand
  <2>3. PICK out \in OverCap(kept[t.s].held, t.a, load.cap) :
          /\ kept' = [kept EXCEPT ![t.s] = Added(@, t.a, out)]
          /\ IF out = {} THEN Return(w) ELSE To(w, "record.relist")
    BY <1>1, <1>7 DEF RecordAdd
  <2>4. kept \in [Session -> [held : SUBSET drawn, awaiting : SUBSET drawn]]
    BY <1>2 DEF YInv, SetsFine
  <2>5. Added(kept[t.s], t.a, out).awaiting = kept[t.s].awaiting \cup out
    BY DEF Added
  <2>6. \A s \in Session : kept'[s].awaiting = IF s = t.s THEN kept[s].awaiting \cup out ELSE kept[s].awaiting
    BY <1>4, <2>3, <2>4, <2>5
  <2>7. CASE out = {}
    <3>1. Return(w) /\ \A s \in Session : kept'[s].awaiting \subseteq kept[s].awaiting
      BY <2>3, <2>6, <2>7
    <3>2. QED
      BY <1>1, <1>2, <1>5, <2>1, <2>2, <3>1, FollowReturn
  <2>8. CASE out # {}
    <3>1. PICK x : Become(w, <<x>>) /\ x.pc = "record.relist" /\ x.s = t.s
      BY <1>1, <1>2, <1>4, <2>3, <2>8, ToBecomes
    <3>2. Looks(x, t.s) /\ \A b : InHand(x, b, t.s)
      BY <3>1 DEF Looks, Lookers, InHand
    <3>3. \A s \in Session : kept'[s].awaiting # {} => kept[s].awaiting # {} \/ Looks(x, s)
      BY <2>6, <3>2
    <3>4. \A s \in Session : \A b \in kept'[s].awaiting : b \in kept[s].awaiting \/ InHand(x, b, s)
      BY <2>6, <3>2
    <3>5. QED
      BY <1>1, <1>2, <1>5, <2>1, <2>2, <3>1, <3>3, <3>4, FollowOne
  <2>9. QED
    BY <2>7, <2>8
<1>8. CASE RecordRelist(w)
  <2>1. t.pc = "record.relist" /\ kept' = kept /\ pending' = pending \cup {t.s}
    BY <1>1, <1>8 DEF RecordRelist, Doing
  <2>2. PICK x : x = Settle(t.s) /\ Become(w, <<x>>)
    BY <1>1, <1>8 DEF RecordRelist
  <2>3. x.pc = "settle.read" /\ x.s = t.s
    BY <2>2 DEF Settle
  <2>4. \A s, b : (Looks(t, s) => s = t.s) /\ (InHand(t, b, s) => InHand(x, b, s))
    BY <2>1, <2>3 DEF Looks, InHand
  <2>5. QED
    BY <1>1, <1>2, <1>5, <2>1, <2>2, <2>4, FollowOne
<1>9. QED
  BY <1>6, <1>7, <1>8 DEF RecordStep

LEMMA FollowPlainly ==
  ASSUME FInv, YInv', load' = load, faults' = faults, kept' = kept, pending' = pending,
         NEW w \in Worker, task[w] # <<>>, Top(w).pc \notin Special,
         \/ Return(w) \/ (\E pc : To(w, pc)) \/ (\E x : Become(w, <<x>>)) \/ (\E x, y : Become(w, <<x, y>>))
  PROVE  FInv'
<1>1. PICK a : IsStack(a) /\ Become(w, a)
  BY Tuples DEF Return, To
<1>2. QED
  BY <1>1, FollowBland

Rest(w) ==
  \/ IssueMake(w) \/ IssueTold(w) \/ SessionStep(w) \/ CloseStep(w) \/ SweepNext(w) \/ DeviceWork(w)

LEMMA FollowRest ==
  ASSUME FInv, YInv', load' = load, NEW w \in Worker, Rest(w)
  PROVE  FInv'
<1>1. CASE IssueMake(w) \/ IssueTold(w) \/ SweepNext(w)
  <2>1. task[w] # <<>> /\ Top(w).pc \notin Special
    BY <1>1 DEF IssueMake, IssueTold, SweepNext, Doing, Idle, Special, Lookers
  <2>2. faults' = faults /\ kept' = kept /\ pending' = pending
    BY <1>1 DEF IssueMake, IssueTold, SweepNext, outsideVars, setVars
  <2>3. Return(w) \/ (\E pc : To(w, pc)) \/ (\E x, y : Become(w, <<x, y>>))
    BY <1>1 DEF IssueMake, IssueTold, SweepNext
  <2>4. QED
    BY <2>1, <2>2, <2>3, FollowPlainly
<1>2. CASE SessionStep(w)
  <2>1. task[w] # <<>> /\ Top(w).pc \notin Special
    BY <1>2 DEF SessionStep, SessionEnter, SessionKeep, SessionUndo, Doing, Idle, Special, Lookers
  <2>2. faults' = faults /\ kept' = kept /\ pending' = pending
    BY <1>2 DEF SessionStep, SessionEnter, SessionKeep, SessionUndo, Deny, outsideVars, setVars
  <2>3. Return(w) \/ (\E pc : To(w, pc)) \/ (\E x : Become(w, <<x>>))
    BY <1>2 DEF SessionStep, SessionEnter, SessionKeep, SessionUndo, Return
  <2>4. QED
    BY <2>1, <2>2, <2>3, FollowPlainly
<1>3. CASE CloseStep(w)
  <2>1. task[w] # <<>> /\ Top(w).pc \notin Special
    BY <1>3 DEF CloseStep, CloseHeld, CloseDeny, CloseAwaiting, CloseRest, Doing, Idle, Special, Lookers
  <2>2. faults' = faults /\ kept' = kept /\ pending' = pending
    BY <1>3 DEF CloseStep, CloseHeld, CloseDeny, CloseAwaiting, CloseRest, Deny, outsideVars, setVars
  <2>3. Return(w) \/ (\E pc : To(w, pc)) \/ (\E x : Become(w, <<x>>)) \/ (\E x, y : Become(w, <<x, y>>))
    BY <1>3 DEF CloseStep, CloseHeld, CloseDeny, CloseAwaiting, CloseRest
  <2>4. QED
    BY <2>1, <2>2, <2>3, FollowPlainly
<1>4. CASE DeviceWork(w)
  <2>1. task[w] # <<>> /\ Top(w).pc \notin Special
    BY <1>4 DEF DeviceWork, AuthorizeSave, AuthorizeCode, VerifyEnter, VerifyFind, VerifyAdmit, VerifyDecide,
                VerifyTell, PollRead, PollOpen, PollAdmit, PollTake, PollRevoked, PollEntry, PollAnswer,
                Doing, Idle, Special, Lookers
  <2>2. faults' = faults /\ kept' = kept /\ pending' = pending
    BY <1>4 DEF DeviceWork, AuthorizeSave, AuthorizeCode, VerifyEnter, VerifyFind, VerifyAdmit, VerifyDecide,
                VerifyTell, PollRead, PollOpen, PollAdmit, PollTake, PollRevoked, PollEntry, PollAnswer,
                outsideVars, setVars
  <2>3. Return(w) \/ (\E pc : To(w, pc)) \/ (\E x : Become(w, <<x>>))
    BY <1>4 DEF DeviceWork, AuthorizeSave, AuthorizeCode, VerifyEnter, VerifyFind, VerifyAdmit, VerifyDecide,
                VerifyTell, PollRead, PollOpen, PollAdmit, PollTake, PollRevoked, PollEntry, PollAnswer, Return
  <2>4. QED
    BY <2>1, <2>2, <2>3, FollowPlainly
<1>5. QED
  BY <1>1, <1>2, <1>3, <1>4 DEF Rest

LEMMA FollowUndo ==
  ASSUME FInv, YInv', load' = load, NEW w \in Worker, IssueUndo(w)
  PROVE  FInv'
<1>1. /\ task[w] # <<>> /\ Top(w).pc = "issue.undo" /\ faults' = faults /\ kept' = kept /\ pending' = pending
      /\ task' = [task EXCEPT ![w] = Unwound(task[w])]
  BY DEF IssueUndo, Doing, Idle, Deny, Throw, setVars
<1>2. Top(w).pc \notin Special /\ ~Plain(Top(w))
  BY <1>1 DEF Special, Lookers, Plain
<1>3. Len(task[w]) = 1
  BY <1>1, <1>2, Tops DEF FInv, YInv
<1>4. QED
  BY <1>1, <1>2, <1>3, FollowElse

LEMMA FollowBegins ==
  ASSUME FInv, YInv', load' = load, NEW w \in Worker,
         BeginSession(w) \/ BeginClose(w) \/ BeginSweep(w) \/ BeginDevice(w) \/ BeginVerify(w) \/ BeginPoll(w)
  PROVE  FInv'
<1>1. faults' = faults /\ kept' = kept /\ pending' = pending
  BY DEF BeginSession, BeginClose, BeginSweep, BeginDevice, BeginVerify, BeginPoll, setVars, outsideVars
<1>2. task[w] = <<>> /\ \E n : task' = [task EXCEPT ![w] = n]
  BY DEF BeginSession, BeginClose, BeginSweep, BeginDevice, BeginVerify, BeginPoll, Begin, Start, Idle
<1>3. QED
  BY <1>1, <1>2, FollowElse

LEMMA FollowStart == Init /\ SessionTokensAssumption => FInv
<1> SUFFICES ASSUME Init, SessionTokensAssumption PROVE FInv
  OBVIOUS
<1>1. YInv
  BY TypesStart
<1>2. \A s \in Session : kept[s].awaiting = {}
  BY DEF Init, SessionTokensInit, NoMembers
<1>3. Listed /\ Handled
  BY <1>2 DEF Listed, Handled
<1>4. QED
  BY <1>1, <1>3 DEF FInv

LEMMA FollowStep == SessionTokensAssumption /\ FInv /\ [Next]_allVars => FInv'
<1> SUFFICES ASSUME SessionTokensAssumption, FInv, [Next]_allVars PROVE FInv'
  OBVIOUS
<1>1. YInv'
  BY TypesStep DEF FInv
<1>2. ASSUME UNCHANGED <<load, faults, kept, pending, task>> PROVE FInv'
  <2>1. (Steady' <=> Steady) /\ (Listed' <=> Listed) /\ (Handled' <=> Handled)
    BY <1>2 DEF Steady, Listed, Handled, Looked, Top, Handles
  <2>2. QED
    BY <1>1, <1>2, <2>1 DEF FInv
<1>3. CASE UNCHANGED allVars
  BY <1>2, <1>3 DEF allVars, vars, setVars, outsideVars
<1>4. load' = load
  BY DEF Next, allVars, vars
<1>5. CASE SessionTokensNext
  <2>1. ASSUME NEW w \in Worker, Fails(w) \/ Crash(w) PROVE FInv'
    <3>1. PICK n : task' = [task EXCEPT ![w] = n]
      BY <2>1 DEF Fails, Crash, Throw, Drop
    <3>2. /\ kept' = kept /\ pending' = pending /\ task[w] # <<>>
          /\ faults < load.faults /\ faults' = faults + 1
      BY <2>1 DEF Fails, Crash, setVars, Idle
    <3>3. Steady => Top(w).pc # "record.relist"
      BY <2>1 DEF Fails, Crash, Steady
    <3>4. QED
      BY <1>1, <1>4, <3>1, <3>2, <3>3, FollowFault
  <2>2. QED
    BY <1>1, <1>4, <1>5, <2>1, FollowSettles, FollowRecords, FollowRest, FollowUndo, FollowBegins
    DEF SessionTokensNext, Work, IssueStep, Rest
<1>6. ASSUME NEW w \in Worker, DeviceWork(w) \/ BeginDevice(w) \/ BeginVerify(w) \/ BeginPoll(w) PROVE FInv'
  BY <1>1, <1>4, <1>6, FollowRest, FollowBegins DEF Rest
<1>7. ASSUME NEW d \in Device, DeviceEnds(d) PROVE FInv'
  BY <1>2, <1>4, <1>7 DEF DeviceEnds, setVars, outsideVars
<1>8. QED
  BY <1>3, <1>5, <1>6, <1>7 DEF Next

(* What an add pushed out is never forgotten, by however many adds, sweeps *)
(* and closings at once, though one call fails or one host stops anywhere  *)
(* but between an add and its listing (module.ts settler, recorder).       *)
THEOREM AwaitingAlwaysFollowed == Spec => [](Steady => AwaitingFollowed)
<1>1. SessionTokensAssumption
  BY SessionTokensAssumption
<1>2. QED
  BY <1>1, FollowStart, FollowStep, Follow, PTL DEF Spec
=============================================================================
