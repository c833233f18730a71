---------------------------- MODULE CodesProofs -----------------------------
(***************************************************************************)
(* What the runs of MCCodeGrant show of families on small instances, for   *)
(* any number of workers, families, sessions, codes and tokens, whatever   *)
(* fails or stops: a secret rotates its family once, a session closed      *)
(* keeps no family, neither does a redemption taken back, a code is        *)
(* answered once, a revocation done with missed no token held, and records *)
(* and stacks stay of their kinds.                                         *)
(*                                                                         *)
(* A worker is a stack of calls, so the invariant says of a stack what     *)
(* each frame knows (Fine), what the call on top of it may take for done   *)
(* (Ready), and what a frame may count on from the one called (Over).  All *)
(* of it is of facts that last (Grows), so that no other worker undoes it. *)
(***************************************************************************)
EXTENDS CodeGrant, TLAPS

Marked == {"revoke.members", "revoke.awaiting", "revoke.deny", "revoke.settle", "revoke.done"}
Revoking == Marked \cup {"revoke.add", "revoke.mark", "revoke.save"}
Taking == {"take.mark", "take.read", "take.done"}
Closing == {"close.members", "close.each", "close.rest"}
Starts == {"start.name", "start.list", "start.enter", "found.save"}
Uses == {"use.read", "use.valid", "use.select", "use.enter", "use.rotate"}
Settles == {"settle.add", "settle.mark", "settle.deny", "settle.done"}
Redeems ==
  {"redeem.enter", "redeem.pin", "redeem.issue", "redeem.note", "redeem.session",
   "redeem.check", "redeem.add", "redeem.hooks", "redeem.void"}

(* A code's own frames; and those that no other calls, which are all that  *)
(* catch.                                                                  *)
Coded == Redeems \cup {"redeem.use", "code.save"}
Bases == Coded \cup {"sweep", "voids"}

(* Where a frame waits for the one it called.                              *)
Waits ==
  {"record.push", "found.confirm", "throw", "start.drop", "session.settled", "take.done", "give",
   "use.select", "close.each", "close.rest", "sweep", "adopt.check", "settle.done", "voids",
   "redeem.hooks"}

(* Facts that last.                                                        *)
Dead(f) == family[f] = Revoked
TakenDown(r) == begun[r] \in Family => Dead(begun[r])
Queued(f, s) == f \in bySession[s].awaiting \/ Dead(f)
Listed(f, s) == f \in bySession[s].held \/ Queued(f, s)

(* A family of a session that lives, or is let through to.                 *)
Let(r, f, s) == r.pc = "found.save" /\ r.f = f /\ r.s = s
Passing(f, s) ==
  \/ Alive(f) /\ family[f].session = s
  \/ \E v \in Worker : task[v] # <<>> /\ Let(Top(v), f, s)

(* What a close is done with, but for these.                               *)
Covered(q, but) ==
  \A f \in Family : Passing(f, q.s) =>
    f \in q.todo \cup but \/ Dead(f) \/ (q.pc = "close.each" /\ Queued(f, q.s))

Fine(r) ==
  /\ "pc" \in DOMAIN r
  /\ r.pc \in Revoking => "f" \in DOMAIN r
  /\ r.pc \in Marked /\ r.f \in Family => Dead(r.f)
  /\ r.pc \in Starts => {"f", "s"} \subseteq DOMAIN r
  /\ r.pc \in {"start.enter", "found.save"} /\ r.f \in Family /\ r.s \in Session => Listed(r.f, r.s)
  /\ r.pc \in Taking => "r" \in DOMAIN r /\ r.r \in Redemption
  /\ r.pc \in {"take.read", "take.done"} => begun[r.r] # "none"
  /\ r.pc \in Closing => {"s", "todo"} \subseteq DOMAIN r /\ r.s \in Session \ entering
  /\ r.pc \in Uses => "f" \in DOMAIN r /\ r.f \in Family
  /\ r.pc \in Redeems \cup {"give"} => "tokens" \in DOMAIN r /\ \A x \in r.tokens : x[1] \in Family
  /\ r.pc \in Settles \cup Coded => "c" \in DOMAIN r /\ r.c \in Redemption
  /\ r.pc = "voids" => "todo" \in DOMAIN r /\ r.todo \subseteq Redemption

Ready(q) ==
  /\ q.pc = "take.done" => TakenDown(q.r)
  /\ q.pc = "session.settled" /\ q.f \in Family => Dead(q.f)
  /\ q.pc \in {"close.each", "close.rest"} => Covered(q, {})
  /\ q.pc = "settle.done" => q.c \in takenBack

Over(r, q) ==
  /\ r.pc \notin Bases /\ q.pc \in Waits
  /\ q.pc = "take.done" => r.pc \in Revoking /\ r.f = begun[q.r]
  /\ q.pc = "session.settled" => r.pc \in Revoking /\ r.f = q.f
  /\ q.pc = "close.each" => r.pc \in Revoking /\ Covered(q, {r.f})
  /\ q.pc = "close.rest" => r.pc = "session.settled" /\ Covered(q, {r.f})
  /\ q.pc = "settle.done" => r.pc \in Taking /\ r.r = q.c

IsStack(s) == \E S : s \in Seq(S)

Good(s) ==
  /\ IsStack(s)
  /\ \A i \in 1 .. Len(s) : Fine(s[i])
  /\ s # <<>> => Ready(s[1])
  /\ \A i \in 1 .. Len(s) : i < Len(s) => Over(s[i], s[i + 1])

(* Facts that last do last.                                                *)
Grows ==
  /\ \A f \in Family : Dead(f) => Dead(f)'
  /\ \A r \in Redemption : begun[r] # "none" => begun'[r] = begun[r]
  /\ takenBack \subseteq takenBack' /\ entering' \subseteq entering
  /\ \A f \in Family, s \in Session :
       (Queued(f, s) => Queued(f, s)') /\ (Listed(f, s) => Listed(f, s)')
  /\ \A f \in Family, s \in Session \ entering' : Passing(f, s)' => Passing(f, s)

(* The frame x goes on for t.                                              *)
Heir(t, x) ==
  /\ t.pc \notin Bases => x.pc \notin Bases
  /\ t.pc \in Revoking => x.pc \in Revoking /\ x.f = t.f
  /\ t.pc = "session.settled" => x.pc = "session.settled" /\ x.f = t.f
  /\ t.pc \in Taking => x.pc \in Taking /\ x.r = t.r

----------------------------------------------------------------------------
LEMMA FineStays ==
  ASSUME Grows, NEW r, Fine(r)
  PROVE  Fine(r)'
BY DEF Grows, Fine, Taking

LEMMA CoveredStays ==
  ASSUME Grows, NEW q, NEW but, q.s \in Session \ entering, Covered(q, but)
  PROVE  Covered(q, but)'
BY DEF Grows, Covered

LEMMA ReadyStays ==
  ASSUME Grows, NEW q, Fine(q), Ready(q)
  PROVE  Ready(q)'
<1>1. q.pc = "take.done" => TakenDown(q.r)'
  BY DEF Grows, Fine, Ready, TakenDown, Taking
<1>2. q.pc \in {"close.each", "close.rest"} => Covered(q, {})'
  BY CoveredStays DEF Fine, Ready, Closing
<1>3. QED
  BY <1>1, <1>2 DEF Grows, Ready

LEMMA OverStays ==
  ASSUME Grows, NEW t, NEW x, NEW q, Fine(q), Over(t, q), Heir(t, x)
  PROVE  Over(x, q)'
<1>1. q.pc \in {"close.each", "close.rest"} => Covered(q, {t.f})'
  BY CoveredStays DEF Fine, Over, Closing
<1>2. q.pc = "take.done" => begun'[q.r] = begun[q.r]
  BY DEF Grows, Fine, Taking
<1>3. QED
  BY <1>1, <1>2 DEF Over, Heir
LEMMA IsStackParts ==
  ASSUME NEW s, IsStack(s)
  PROVE  /\ Len(s) \in Nat /\ DOMAIN s = 1 .. Len(s)
         /\ s # <<>> => Len(s) > 0 /\ Head(s) = s[1]
BY DEF IsStack

LEMMA GoodStays ==
  ASSUME Grows, NEW s, Good(s)
  PROVE  Good(s)'
<1>1. IsStack(s)
  BY DEF Good
<1>2. ASSUME NEW i \in 1 .. Len(s) PROVE Fine(s[i])'
  BY FineStays DEF Good
<1>3. ASSUME s # <<>> PROVE Ready(s[1])'
  BY <1>1, <1>3, IsStackParts, ReadyStays DEF Good
<1>4. ASSUME NEW i \in 1 .. Len(s), i < Len(s) PROVE Over(s[i], s[i + 1])'
  <2>1. i + 1 \in 1 .. Len(s)
    BY <1>1, <1>4, IsStackParts
  <2>2. Over(s[i], s[i + 1]) /\ Fine(s[i + 1])
    BY <1>4, <2>1 DEF Good
  <2>3. Heir(s[i], s[i])
    BY <2>2 DEF Over, Heir
  <2>4. QED
    BY <2>2, <2>3, OverStays
<1>5. QED
  BY <1>1, <1>2, <1>3, <1>4 DEF Good

(* What stacks are made of when the top frame makes way.                   *)
LEMMA Made ==
  ASSUME NEW s, IsStack(s), s # <<>>, NEW a, IsStack(a)
  PROVE  LET n == a \o Tail(s) IN
           /\ IsStack(n) /\ Len(n) = Len(a) + Len(s) - 1
           /\ \A i \in 1 .. Len(n) : n[i] = IF i <= Len(a) THEN a[i] ELSE s[i - Len(a) + 1]
<1>1. PICK S, T : s \in Seq(S) /\ a \in Seq(T)
  BY DEF IsStack
<1> DEFINE U == S \cup T
<1>2. s \in Seq(U) /\ a \in Seq(U)
  BY <1>1
<1> HIDE DEF U
<1>3. Tail(s) \in Seq(U) /\ Len(Tail(s)) = Len(s) - 1 /\ Len(s) \in Nat \ {0}
  BY <1>2
<1>4. \A i \in 1 .. Len(s) - 1 : Tail(s)[i] = s[i + 1]
  BY <1>2
<1>5. QED
  BY <1>2, <1>3, <1>4 DEF IsStack

(* A call returns: what waited for it goes on.                             *)
LEMMA GoodReturn ==
  ASSUME Grows, NEW s, Good(s), s # <<>>,
         \A q : Fine(q) /\ Over(s[1], q) => Ready(q)'
  PROVE  Good(<<>> \o Tail(s))'
<1> DEFINE n == <<>> \o Tail(s)
<1>1. IsStack(s) /\ Len(s) \in Nat \ {0}
  BY IsStackParts DEF Good
<1>2. IsStack(n) /\ Len(n) = Len(s) - 1 /\ \A i \in 1 .. Len(n) : n[i] = s[i + 1]
  BY <1>1, Made, IsStack(<<>>), Len(<<>>) = 0 DEF IsStack
<1> HIDE DEF n
<1>3. ASSUME NEW i \in 1 .. Len(n) PROVE Fine(n[i])'
  <2>1. i + 1 \in 1 .. Len(s) /\ n[i] = s[i + 1]
    BY <1>1, <1>2
  <2>2. QED
    BY <2>1, FineStays DEF Good
<1>4. ASSUME n # <<>> PROVE Ready(n[1])'
  <2>1. 1 \in 1 .. Len(n) /\ n[1] = s[2] /\ 1 < Len(s) /\ 2 \in 1 .. Len(s)
    BY <1>1, <1>2, <1>4, IsStackParts
  <2>2. Fine(s[2]) /\ Over(s[1], s[1 + 1])
    BY <2>1 DEF Good
  <2>3. QED
    BY <2>1, <2>2
<1>5. ASSUME NEW i \in 1 .. Len(n), i < Len(n) PROVE Over(n[i], n[i + 1])'
  <2>1. n[i] = s[i + 1] /\ n[i + 1] = s[(i + 1) + 1] /\ i + 1 \in 1 .. Len(s) /\ i + 1 < Len(s)
        /\ (i + 1) + 1 \in 1 .. Len(s)
    BY <1>1, <1>2, <1>5
  <2>2. Over(n[i], n[i + 1]) /\ Fine(n[i + 1])
    BY <2>1 DEF Good
  <2>3. Heir(n[i], n[i])
    BY <2>2 DEF Over, Heir
  <2>4. QED
    BY <2>2, <2>3, OverStays
<1>6. QED
  BY <1>2, <1>3, <1>4, <1>5 DEF Good, n

(* The top frame makes way for a stack that goes on for it.                *)
LEMMA GoodPush ==
  ASSUME Grows, NEW s, Good(s), s # <<>>, NEW a, Good(a)', a # <<>>, Heir(s[1], a[Len(a)])
  PROVE  Good(a \o Tail(s))'
<1> DEFINE n == a \o Tail(s)
           k == Len(a)
<1>1. IsStack(s) /\ Len(s) \in Nat \ {0} /\ IsStack(a) /\ k \in Nat \ {0}
  BY IsStackParts DEF Good
<1>2. /\ IsStack(n) /\ Len(n) = k + Len(s) - 1
      /\ \A i \in 1 .. Len(n) : n[i] = IF i <= k THEN a[i] ELSE s[i - k + 1]
  BY <1>1, Made
<1>3. /\ \A i \in 1 .. k : Fine(a[i])'
      /\ Ready(a[1])'
      /\ \A i \in 1 .. k : i < k => Over(a[i], a[i + 1])'
  BY DEF Good
<1>4. Heir(s[1], a[k])
  OBVIOUS
<1> HIDE DEF n, k
<1>5. ASSUME NEW i \in 1 .. Len(n) PROVE Fine(n[i])'
  <2>1. CASE i <= k
    BY <1>1, <1>2, <1>3, <2>1
  <2>2. CASE i > k
    <3>1. n[i] = s[i - k + 1] /\ i - k + 1 \in 1 .. Len(s)
      BY <1>1, <1>2, <2>2
    <3>2. QED
      BY <3>1, FineStays DEF Good
  <2>3. QED
    BY <1>1, <1>2, <2>1, <2>2
<1>6. Ready(n[1])'
  BY <1>1, <1>2, <1>3
<1>7. ASSUME NEW i \in 1 .. Len(n), i < Len(n) PROVE Over(n[i], n[i + 1])'
  <2>1. CASE i < k
    BY <1>1, <1>2, <1>3, <2>1
  <2>2. CASE i >= k
    <3> DEFINE j == i - k + 1
    <3>1. j \in 1 .. Len(s) /\ j < Len(s) /\ j + 1 \in 1 .. Len(s)
      BY <1>1, <1>2, <1>7, <2>2
    <3>2. n[i + 1] = s[j + 1] /\ n[i] = IF i = k THEN a[k] ELSE s[j]
      BY <1>1, <1>2, <1>7, <2>2
    <3>3. i = k => j = 1
      BY <1>1
    <3> HIDE DEF j
    <3>4. Over(s[j], s[j + 1]) /\ Fine(s[j + 1])
      BY <3>1 DEF Good
    <3>5. Heir(s[j], n[i])
      BY <1>4, <3>2, <3>3, <3>4 DEF Over, Heir
    <3>6. QED
      BY <3>2, <3>4, <3>5, OverStays
  <2>3. QED
    BY <1>1, <1>2, <2>1, <2>2
<1>8. QED
  BY <1>2, <1>5, <1>6, <1>7 DEF Good, n

LEMMA Tuples ==
  ASSUME NEW x, NEW y, NEW z
  PROVE  /\ IsStack(<<>>) /\ Len(<<>>) = 0
         /\ IsStack(<<x>>) /\ Len(<<x>>) = 1 /\ <<x>>[1] = x
         /\ IsStack(<<x, y>>) /\ Len(<<x, y>>) = 2 /\ <<x, y>>[1] = x /\ <<x, y>>[2] = y
         /\ IsStack(<<x, y, z>>) /\ Len(<<x, y, z>>) = 3
         /\ <<x, y, z>>[1] = x /\ <<x, y, z>>[2] = y /\ <<x, y, z>>[3] = z
<1>1. <<>> \in Seq({}) /\ <<x>> \in Seq({x}) /\ <<x, y>> \in Seq({x, y}) /\ <<x, y, z>> \in Seq({x, y, z})
  OBVIOUS
<1>2. QED
  BY <1>1 DEF IsStack

LEMMA GoodNone == Good(<<>>)'
<1>1. IsStack(<<>>) /\ Len(<<>>) = 0
  BY <<>> \in Seq({}) DEF IsStack
<1>2. QED
  BY <1>1 DEF Good

LEMMA GoodOne ==
  ASSUME NEW x, Fine(x)', Ready(x)'
  PROVE  Good(<<x>>)'
<1> DEFINE n == <<x>>
<1>1. IsStack(n) /\ Len(n) = 1 /\ n[1] = x
  BY Tuples
<1> HIDE DEF n
<1>2. QED
  BY <1>1 DEF Good, n

LEMMA GoodTwo ==
  ASSUME NEW x, NEW y, Fine(x)', Fine(y)', Ready(x)', Over(x, y)'
  PROVE  Good(<<x, y>>)'
<1> DEFINE n == <<x, y>>
<1>1. IsStack(n) /\ Len(n) = 2 /\ n[1] = x /\ n[2] = y
  BY Tuples
<1> HIDE DEF n
<1>2. \A i \in 1 .. 2 : Fine(n[i])' /\ (i < 2 => Over(n[i], n[i + 1])')
  BY <1>1
<1>3. QED
  BY <1>1, <1>2 DEF Good, n

LEMMA GoodThree ==
  ASSUME NEW x, NEW y, NEW z, Fine(x)', Fine(y)', Fine(z)', Ready(x)', Over(x, y)', Over(y, z)'
  PROVE  Good(<<x, y, z>>)'
<1> DEFINE n == <<x, y, z>>
<1>1. IsStack(n) /\ Len(n) = 3 /\ n[1] = x /\ n[2] = y /\ n[3] = z
  BY Tuples
<1> HIDE DEF n
<1>2. \A i \in 1 .. 3 : Fine(n[i])' /\ (i < 3 => Over(n[i], n[i + 1])')
  BY <1>1
<1>3. QED
  BY <1>1, <1>2 DEF Good, n

(* A throw leaves the frame that catches it, if any.                       *)
LEMMA Unwinds ==
  ASSUME NEW s, Good(s)
  PROVE  \/ Unwound(s) = <<>>
         \/ /\ s # <<>> /\ Len(s) \in 1 .. Len(s) /\ Unwound(s) = <<Resumed(s[Len(s)])>>
            /\ s[Len(s)].pc \in VoidIfFails \cup {"sweep", "voids"}
<1>1. IsStack(s)
  BY DEF Good
<1>2. Len(s) \in Nat /\ DOMAIN s = 1 .. Len(s) /\ (s # <<>> => Len(s) > 0)
  BY <1>1, IsStackParts
<1>3. CASE Catching(s) = {}
  BY <1>3 DEF Unwound
<1>4. CASE Catching(s) # {}
  <2>1. ASSUME NEW i \in Catching(s) PROVE i = Len(s) /\ s[i].pc \in VoidIfFails \cup {"sweep", "voids"}
    <3>1. i \in 1 .. Len(s) /\ s[i].pc \in VoidIfFails \cup {"sweep", "voids"}
      BY <1>2, <2>1 DEF Catching
    <3>2. s[i].pc \in Bases
      BY <3>1 DEF VoidIfFails, Bases, Coded, Redeems
    <3>3. ~(i < Len(s))
      BY <3>1, <3>2 DEF Good, Over
    <3> DEFINE l == Len(s)
    <3>4. l \in Nat /\ i \in 1 .. l /\ ~(i < l)
      BY <1>2, <3>1, <3>3
    <3> HIDE DEF l
    <3>5. i = l
      BY <3>4
    <3>6. QED
      BY <3>1, <3>5 DEF l
  <2>2. Len(s) \in Catching(s) /\ Catching(s) = {Len(s)}
    BY <1>4, <2>1
  <2>3. Unwound(s) = <<Resumed(s[Len(s)])>> \o SubSeq(s, Len(s) + 1, Len(s))
    <3> DEFINE i == CHOOSE i \in Catching(s) : \A j \in Catching(s) : i <= j
    <3>1. i = Len(s)
      BY <1>2, <2>2
    <3>2. Unwound(s) = <<Resumed(s[i])>> \o SubSeq(s, i + 1, Len(s))
      BY <1>4 DEF Unwound
    <3> HIDE DEF i
    <3>3. QED
      BY <3>1, <3>2
  <2>4. SubSeq(s, Len(s) + 1, Len(s)) = <<>>
    <3>1. PICK S : s \in Seq(S)
      BY <1>1 DEF IsStack
    <3>2. QED
      BY <3>1
  <2>5. \A x : <<x>> \o <<>> = <<x>>
    OBVIOUS
  <2>6. Len(s) \in 1 .. Len(s) /\ s # <<>>
    BY <1>2, <2>2 DEF Catching
  <2>7. QED
    BY <2>1, <2>2, <2>3, <2>4, <2>5, <2>6
<1>5. QED
  BY <1>3, <1>4

LEMMA GoodThrown ==
  ASSUME Grows, NEW s, Good(s)
  PROVE  Good(Unwound(s))'
<1> DEFINE t == s[Len(s)]
           x == Resumed(t)
<1>1. CASE Unwound(s) = <<>>
  BY <1>1, GoodNone
<1>2. CASE Unwound(s) = <<x>> /\ Len(s) \in 1 .. Len(s) /\ t.pc \in VoidIfFails \cup {"sweep", "voids"}
  <2>1. Fine(t) /\ Fine(t)'
    BY <1>2, FineStays DEF Good
  <2>2. Fine(x)' /\ Ready(x)'
    <3>1. CASE t.pc \in VoidIfFails
      <4>1. x = [t EXCEPT !.pc = "redeem.void"] /\ t.pc \in Redeems
        BY <3>1 DEF Resumed, VoidIfFails, Redeems
      <4> HIDE DEF t
      <4>2. x.pc = "redeem.void" /\ DOMAIN x = DOMAIN t /\ \A f \in DOMAIN x \ {"pc"} : x[f] = t[f]
        BY <4>1, <2>1 DEF Fine
      <4>3. {"tokens", "c", "pc"} \subseteq DOMAIN t
        BY <4>1, <2>1 DEF Fine, Coded
      <4>4. x.tokens = t.tokens /\ x.c = t.c
        BY <4>2, <4>3
      <4> HIDE DEF x
      <4>5. QED
        BY <2>1, <4>1, <4>2, <4>3, <4>4
        DEF Fine, Ready, Revoking, Marked, Starts, Taking, Closing, Uses, Redeems, Settles, Coded
    <3>2. CASE t.pc \in {"sweep", "voids"}
      <4>1. x = t
        BY <3>2 DEF Resumed, VoidIfFails
      <4>2. QED
        BY <3>2, <4>1, <2>1 DEF Ready
    <3>3. QED
      BY <1>2, <3>1, <3>2
  <2> HIDE DEF t, x
  <2>3. QED
    BY <1>2, <2>2, GoodOne
<1>3. QED
  BY <1>1, <1>2, Unwinds

----------------------------------------------------------------------------
(* The invariant.                                                          *)
TakenFine(r) == r \in Redemption /\ begun[r] # "none" /\ TakenDown(r)

FamilyFine(f) ==
  \/ family[f] = NoFamily
  \/ Dead(f)
  \/ Alive(f) /\ {"state", "current", "session"} \subseteq DOMAIN family[f]

Shapes ==
  /\ load \in Loads /\ DOMAIN task = Worker
  /\ DOMAIN family = Family /\ DOMAIN secrets = Family
  /\ DOMAIN begun = Redemption /\ DOMAIN bySession = Session
  /\ \A s \in Session : {"held", "awaiting"} \subseteq DOMAIN bySession[s]
  /\ \A f \in Family : FamilyFine(f)

(* A living family's secret came after each it was rotated from.           *)
SpentFine ==
  /\ SpentOnce
  /\ \A e \in spent : e.family \in Family /\ family[e.family] # NoFamily
  /\ \A f \in Family : Alive(f) =>
       /\ family[f].current = secrets[f] /\ secrets[f] \in Nat
       /\ \A e \in spent : e.family = f => e.from \in Nat /\ e.from < secrets[f]

(* A session closed: nothing of it lives, or ever will.                    *)
Done(s) == s \in Session \ entering /\ \A f \in Family : Passing(f, s) => Dead(f)

FamilyInv ==
  /\ Shapes
  /\ \A w \in Worker : Good(task[w])
  /\ \A f \in Family : Alive(f) /\ family[f].session \in Session => Listed(f, family[f].session)
  /\ SpentFine
  /\ \A x \in given : x[1] \in Family
  /\ \A r \in takenBack : TakenFine(r)
  /\ \A s \in finished : Done(s)
  /\ voids \subseteq Redemption

(* A step that brings no family to life, undoes no fact; and one of w that *)
(* lets no family through.                                                 *)
Still ==
  /\ \A f \in Family : family'[f] = family[f] \/ Dead(f)'
  /\ \A r \in Redemption : begun[r] # "none" => begun'[r] = begun[r]
  /\ takenBack \subseteq takenBack' /\ entering' \subseteq entering
  /\ \A f \in Family, s \in Session :
       (Queued(f, s) => Queued(f, s)') /\ (Listed(f, s) => Listed(f, s)')

(* Lets no family of a session that closes through.                        *)
Bars(x) == x.pc = "found.save" => x.s \notin Session \ entering

Quiet(w, n) ==
  /\ task' = [task EXCEPT ![w] = n]
  /\ n # <<>> => Bars(Head(n))'
  /\ Still

LEMMA States ==
  /\ NoFamily # Revoked
  /\ \A f : Alive(f) => ~Dead(f) /\ family[f] # NoFamily
  /\ \A n, s : LiveFamily(n, s).state = "live"
BY DEF NoFamily, Revoked, Alive, Dead, LiveFamily

LEMMA StatesNext ==
  \A f : Alive(f)' => ~Dead(f)' /\ family'[f] # NoFamily
BY DEF NoFamily, Revoked, Alive, Dead

LEMMA QuietGrows ==
  ASSUME FamilyInv, NEW w \in Worker, NEW n, Quiet(w, n)
  PROVE  Grows
<1>1. \A f \in Family : Dead(f) => Dead(f)'
  BY DEF Quiet, Still, Dead
<1>2. ASSUME NEW f \in Family, NEW s \in Session \ entering', Passing(f, s)' PROVE Passing(f, s)
  <2>1. CASE Alive(f)' /\ (family[f].session = s)'
    <3>1. family'[f] = family[f]
      BY <2>1, StatesNext DEF Quiet, Still
    <3>2. QED
      BY <2>1, <3>1 DEF Passing, Alive
  <2>2. CASE \E v \in Worker : task'[v] # <<>> /\ Let(Head(task'[v]), f, s)
    <3>1. PICK v \in Worker : task'[v] # <<>> /\ Let(Head(task'[v]), f, s)
      BY <2>2
    <3>2. DOMAIN task = Worker
      BY DEF FamilyInv, Shapes
    <3>3. v # w
      BY <3>1, <3>2 DEF Quiet, Let, Bars
    <3>4. task'[v] = task[v]
      BY <3>2, <3>3 DEF Quiet
    <3>5. QED
      BY <3>1, <3>4 DEF Passing, Top
  <2>3. QED
    BY <1>2, <2>1, <2>2 DEF Passing, Top
<1>3. QED
  BY <1>1, <1>2 DEF Quiet, Still, Grows

LEMMA GoodAll ==
  ASSUME FamilyInv, Grows, NEW w \in Worker, NEW n, task' = [task EXCEPT ![w] = n], Good(n)'
  PROVE  \A v \in Worker : Good(task[v])'
<1>1. DOMAIN task = Worker
  BY DEF FamilyInv, Shapes
<1>2. ASSUME NEW v \in Worker PROVE Good(task[v])'
  <2>1. PICK s : s = task'[v]
    OBVIOUS
  <2>2. CASE v = w
    <3>1. s = n
      BY <1>1, <2>1, <2>2
    <3>2. Good(s)'
      BY <3>1
    <3>3. QED
      BY <2>1, <3>2
  <2>3. CASE v # w
    <3>1. s = task[v] /\ Good(task[v])
      BY <1>1, <2>1, <2>3 DEF FamilyInv
    <3>2. Good(s)
      BY <3>1
    <3>3. Good(s)'
      BY <3>2, GoodStays
    <3>4. QED
      BY <2>1, <3>3
  <2>4. QED
    BY <2>2, <2>3
<1>3. QED
  BY <1>2

(* What a quiet step must keep, beside its worker's stack.                 *)
Keeps ==
  /\ UNCHANGED <<load, secrets, spent>>
  /\ \A s \in finished' : Done(s)
  /\ DOMAIN family' = Family
  /\ DOMAIN begun' = Redemption /\ DOMAIN bySession' = Session
  /\ \A s \in Session : {"held", "awaiting"} \subseteq DOMAIN bySession'[s]
  /\ \A x \in given' : x[1] \in Family
  /\ \A r \in takenBack' : TakenFine(r)'
  /\ voids' \subseteq Redemption

LEMMA FinishedStays ==
  ASSUME Grows, \A s \in finished' : Done(s)
  PROVE  (\A s \in finished : Done(s))'
<1>1. ASSUME NEW s \in finished' PROVE Done(s)'
  BY <1>1 DEF Done, Grows
<1>2. QED
  BY <1>1

LEMMA QuietInv ==
  ASSUME FamilyInv, NEW w \in Worker, NEW n, Quiet(w, n), Good(n)', Keeps
  PROVE  FamilyInv'
<1>1. Grows
  BY QuietGrows
<1>2. (\A v \in Worker : Good(task[v]))'
  BY <1>1, GoodAll DEF Quiet
<1>3. \A f \in Family : family'[f] = family[f] \/ Dead(f)'
  BY DEF Quiet, Still
<1>4. Shapes'
  <2>1. DOMAIN task' = Worker
    BY DEF FamilyInv, Shapes, Quiet
  <2>2. ASSUME NEW f \in Family PROVE FamilyFine(f)'
    BY <1>3 DEF FamilyInv, Shapes, FamilyFine, Alive, Dead
  <2>3. QED
    BY <2>1, <2>2 DEF Shapes, Keeps, FamilyInv
<1>5. (\A f \in Family : Alive(f) /\ family[f].session \in Session => Listed(f, family[f].session))'
  <2>1. ASSUME NEW f \in Family, Alive(f)', family'[f].session \in Session
        PROVE  Listed(f, family[f].session)'
    <3>1. family'[f] = family[f] /\ Alive(f)
      BY <1>3, <2>1, StatesNext DEF Alive
    <3>2. PICK s \in Session : s = family[f].session /\ s = family'[f].session
      BY <2>1, <3>1
    <3>3. Listed(f, s)
      BY <3>1, <3>2 DEF FamilyInv
    <3>4. Listed(f, s)'
      BY <3>3 DEF Quiet, Still
    <3>5. QED
      BY <3>2, <3>4
  <2>2. QED
    BY <2>1
<1>6. SpentFine'
  <2>1. SpentOnce'
    BY DEF FamilyInv, SpentFine, SpentOnce, Keeps
  <2>2. \A e \in spent' : e.family \in Family /\ family'[e.family] # NoFamily
    BY <1>3, States DEF FamilyInv, SpentFine, Keeps, Dead
  <2>3. ASSUME NEW f \in Family, Alive(f)' PROVE family'[f] = family[f] /\ Alive(f)
    BY <1>3, <2>3, StatesNext DEF Alive
  <2>4. QED
    BY <2>1, <2>2, <2>3 DEF FamilyInv, SpentFine, Keeps
<1>7. (\A s \in finished : Done(s))'
  BY <1>1, FinishedStays DEF Keeps
<1>8. QED
  BY <1>2, <1>4, <1>5, <1>6, <1>7 DEF FamilyInv, Keeps

(* The steps of w that make way for a stack, or return.                    *)
LEMMA HeadOf ==
  ASSUME NEW s, Good(s), s # <<>>
  PROVE  Head(s) = s[1] /\ Fine(s[1]) /\ Ready(s[1]) /\ (s[1].pc \in Bases => Len(s) = 1)
<1>1. IsStack(s) /\ Len(s) \in Nat \ {0} /\ Head(s) = s[1]
  BY IsStackParts DEF Good
<1>2. Fine(s[1]) /\ Ready(s[1]) /\ (1 < Len(s) => Over(s[1], s[2]))
  BY <1>1 DEF Good
<1> DEFINE l == Len(s)
<1>3. l \in Nat \ {0} /\ (1 < l => s[1].pc \notin Bases)
  BY <1>1, <1>2 DEF Over
<1> HIDE DEF l
<1>4. s[1].pc \in Bases => l = 1
  BY <1>3
<1>5. QED
  BY <1>1, <1>2, <1>4 DEF l

LEMMA HeadPushed ==
  ASSUME NEW s, Good(s), s # <<>>, NEW a, IsStack(a), a # <<>>
  PROVE  Head(a \o Tail(s)) = a[1] /\ a \o Tail(s) # <<>>
<1> DEFINE n == a \o Tail(s)
<1>1. IsStack(s) /\ Len(s) \in Nat \ {0} /\ Len(a) \in Nat \ {0}
  BY IsStackParts DEF Good
<1>2. /\ IsStack(n) /\ Len(n) = Len(a) + Len(s) - 1
      /\ \A i \in 1 .. Len(n) : n[i] = IF i <= Len(a) THEN a[i] ELSE s[i - Len(a) + 1]
  BY <1>1, Made
<1> HIDE DEF n
<1>3. Len(n) > 0 /\ n[1] = a[1]
  BY <1>1, <1>2
<1>4. n # <<>> /\ Head(n) = n[1]
  BY <1>2, <1>3, IsStackParts
<1>5. QED
  BY <1>3, <1>4 DEF n

LEMMA HeadReturned ==
  ASSUME NEW s, Good(s), s # <<>>, <<>> \o Tail(s) # <<>>
  PROVE  Head(<<>> \o Tail(s)).pc \in Waits
<1> DEFINE n == <<>> \o Tail(s)
<1>1. IsStack(s) /\ Len(s) \in Nat \ {0}
  BY IsStackParts DEF Good
<1>2. IsStack(n) /\ Len(n) = Len(s) - 1 /\ \A i \in 1 .. Len(n) : n[i] = s[i + 1]
  BY <1>1, Made, IsStack(<<>>), Len(<<>>) = 0 DEF IsStack
<1>3. n # <<>>
  OBVIOUS
<1> HIDE DEF n
<1>4. Len(n) > 0 /\ Head(n) = n[1]
  BY <1>2, <1>3, IsStackParts
<1>5. n[1] = s[2] /\ 1 \in 1 .. Len(s) /\ 1 < Len(s)
  BY <1>1, <1>2, <1>4
<1>6. Over(s[1], s[1 + 1])
  BY <1>5 DEF Good
<1>7. QED
  BY <1>4, <1>5, <1>6 DEF Over, n

(* The worker's stack, and its top frame.                                  *)
LEMMA Tops ==
  ASSUME FamilyInv, NEW w \in Worker, task[w] # <<>>
  PROVE  /\ Good(task[w]) /\ Top(w) = task[w][1] /\ Fine(Top(w)) /\ Ready(Top(w))
         /\ Top(w).pc \in Bases => Len(task[w]) = 1
BY HeadOf DEF FamilyInv, Top

LEMMA PushGrows ==
  ASSUME FamilyInv, NEW w \in Worker, task[w] # <<>>, NEW a, IsStack(a), a # <<>>,
         Become(w, a), Bars(a[1])', Still
  PROVE  Grows
<1>1. PICK n : n = a \o Tail(task[w])
  OBVIOUS
<1>2. Head(n) = a[1] /\ task' = [task EXCEPT ![w] = n]
  BY <1>1, Tops, HeadPushed DEF Become
<1>3. Quiet(w, n)
  BY <1>2 DEF Quiet
<1>4. QED
  BY <1>3, QuietGrows

LEMMA PushInv ==
  ASSUME FamilyInv, NEW w \in Worker, task[w] # <<>>, NEW a, a # <<>>,
         Become(w, a), Bars(a[1])', Still, Keeps,
         Good(a)', Heir(Top(w), a[Len(a)])
  PROVE  FamilyInv'
<1>0. PICK s, n : s = task[w] /\ n = a \o Tail(s)
  OBVIOUS
<1>1. IsStack(a)
  BY DEF Good
<1>2. Grows
  BY <1>1, PushGrows
<1>3. Good(s) /\ s # <<>> /\ Heir(s[1], a[Len(a)])
  BY <1>0, Tops
<1>4. Head(n) = a[1]
  BY <1>0, <1>1, <1>3, HeadPushed
<1>5. Good(a \o Tail(s))'
  BY <1>2, <1>3, GoodPush
<1>6. Good(n)'
  BY <1>0, <1>5
<1>7. task' = [task EXCEPT ![w] = n]
  BY <1>0 DEF Become
<1>8. Quiet(w, n)
  BY <1>4, <1>7 DEF Quiet
<1>9. QED
  BY <1>6, <1>8, QuietInv

LEMMA ReturnInv ==
  ASSUME FamilyInv, NEW w \in Worker, task[w] # <<>>, Return(w), Still, Keeps,
         \A q : Fine(q) /\ Over(Top(w), q) => Ready(q)'
  PROVE  FamilyInv'
<1>0. PICK s, n : s = task[w] /\ n = <<>> \o Tail(s)
  OBVIOUS
<1>1. Good(s) /\ s # <<>> /\ s[1] = Top(w)
  BY <1>0, Tops
<1>2. task' = [task EXCEPT ![w] = n]
  BY <1>0 DEF Return, Become
<1>3. n # <<>> => Bars(Head(n))'
  BY <1>0, <1>1, HeadReturned DEF Waits, Bars
<1>4. Quiet(w, n)
  BY <1>2, <1>3 DEF Quiet
<1>5. Grows
  BY <1>4, QuietGrows
<1>6. \A q : Fine(q) /\ Over(s[1], q) => Ready(q)'
  BY <1>1
<1>7. Good(<<>> \o Tail(s))'
  BY <1>1, <1>5, <1>6, GoodReturn
<1>8. Good(n)'
  BY <1>0, <1>7
<1>9. QED
  BY <1>4, <1>8, QuietInv

LEMMA ThrowInv ==
  ASSUME FamilyInv, NEW w \in Worker, Throw(w), Still, Keeps
  PROVE  FamilyInv'
<1>0. PICK s, n : s = task[w] /\ n = Unwound(s)
  OBVIOUS
<1>1. Good(s)
  BY <1>0 DEF FamilyInv
<1>2. task' = [task EXCEPT ![w] = n]
  BY <1>0 DEF Throw
<1>3. n # <<>> => Bars(Head(n))'
  <2>1. ASSUME n # <<>> PROVE Head(n) = Resumed(s[Len(s)]) /\ Len(s) \in 1 .. Len(s)
                           /\ s[Len(s)].pc \in VoidIfFails \cup {"sweep", "voids"}
    BY <1>0, <1>1, <2>1, Unwinds
  <2>2. ASSUME n # <<>> PROVE "pc" \in DOMAIN s[Len(s)]
    BY <1>1, <2>1, <2>2 DEF Good, Fine
  <2>3. QED
    BY <2>1, <2>2 DEF Resumed, VoidIfFails, Bars
<1>4. Quiet(w, n)
  BY <1>2, <1>3 DEF Quiet
<1>5. Grows
  BY <1>4, QuietGrows
<1>6. Good(Unwound(s))'
  BY <1>1, <1>5, GoodThrown
<1>7. Good(n)'
  BY <1>0, <1>6
<1>8. QED
  BY <1>4, <1>7, QuietInv

(* What a worker takes up, or drops when its host crashes.                 *)
LEMMA NewInv ==
  ASSUME FamilyInv, NEW w \in Worker, NEW n, task' = [task EXCEPT ![w] = n], Good(n)',
         n # <<>> => Bars(n[1])', Still, Keeps
  PROVE  FamilyInv'
<1>1. n # <<>> => Head(n) = n[1]
  BY IsStackParts DEF Good
<1>2. Quiet(w, n)
  BY <1>1 DEF Quiet
<1>3. QED
  BY <1>2, QuietInv

(* Calls that touch only what no fact is about.                            *)
Calm ==
  /\ UNCHANGED <<load, family, begun, bySession, secrets, spent, finished, takenBack, given, voids>>
  /\ entering' \subseteq entering

LEMMA CalmStill ==
  ASSUME FamilyInv, Calm
  PROVE  Still /\ Keeps
<1>1. Still
  BY DEF Calm, Still, Queued, Listed, Dead
<1>2. \A r \in takenBack' : TakenFine(r)'
  BY DEF FamilyInv, Calm, TakenFine, TakenDown, Dead
<1>3. QED
  BY <1>1, <1>2 DEF Calm, Keeps, FamilyInv, Shapes

(* One frame makes way for another, two or three.                          *)
LEMMA OneInv ==
  ASSUME FamilyInv, NEW w \in Worker, task[w] # <<>>, NEW x, Become(w, <<x>>),
         Bars(x)', Heir(Top(w), x), Still, Keeps,
         Grows => Fine(x)' /\ Ready(x)'
  PROVE  FamilyInv'
<1>0. PICK a : a = <<x>>
  OBVIOUS
<1>1. IsStack(a) /\ Len(a) = 1 /\ a[1] = x /\ a # <<>> /\ Become(w, a)
  BY <1>0, Tuples
<1>2. Grows
  BY <1>1, PushGrows
<1>3. Good(<<x>>)'
  BY <1>2, GoodOne
<1>4. Good(a)' /\ Heir(Top(w), a[Len(a)])
  BY <1>0, <1>1, <1>3
<1>5. QED
  BY <1>1, <1>4, PushInv

LEMMA TwoInv ==
  ASSUME FamilyInv, NEW w \in Worker, task[w] # <<>>, NEW x, NEW y, Become(w, <<x, y>>),
         Bars(x)', Heir(Top(w), y), Still, Keeps,
         Grows => Fine(x)' /\ Ready(x)' /\ Fine(y)' /\ Over(x, y)'
  PROVE  FamilyInv'
<1>0. PICK a : a = <<x, y>>
  OBVIOUS
<1>1. IsStack(a) /\ Len(a) = 2 /\ a[1] = x /\ a[2] = y /\ a # <<>> /\ Become(w, a)
  BY <1>0, Tuples
<1>2. Grows
  BY <1>1, PushGrows
<1>3. Good(<<x, y>>)'
  BY <1>2, GoodTwo
<1>4. Good(a)' /\ Heir(Top(w), a[Len(a)])
  BY <1>0, <1>1, <1>3
<1>5. QED
  BY <1>1, <1>4, PushInv

LEMMA ThreeInv ==
  ASSUME FamilyInv, NEW w \in Worker, task[w] # <<>>, NEW x, NEW y, NEW z, Become(w, <<x, y, z>>),
         Bars(x)', Heir(Top(w), z), Still, Keeps,
         Grows => Fine(x)' /\ Ready(x)' /\ Fine(y)' /\ Over(x, y)' /\ Fine(z)' /\ Over(y, z)'
  PROVE  FamilyInv'
<1>0. PICK a : a = <<x, y, z>>
  OBVIOUS
<1>1. /\ IsStack(a) /\ Len(a) = 3 /\ a[1] = x /\ a[2] = y /\ a[3] = z /\ a # <<>>
      /\ Become(w, a)
  BY <1>0, Tuples
<1>2. Grows
  BY <1>1, PushGrows
<1>3. Good(<<x, y, z>>)'
  BY <1>2, GoodThree
<1>4. Good(a)' /\ Heir(Top(w), a[Len(a)])
  BY <1>0, <1>1, <1>3
<1>5. QED
  BY <1>1, <1>4, PushInv

----------------------------------------------------------------------------
(* Frames with nothing to know.                                            *)
Loose ==
  {"record.link", "record.add", "record.push", "record.settle", "found.confirm", "throw",
   "start.drop", "control.read", "adopt.read", "adopt.check", "sweep"}

LEMMA LooseFine ==
  ASSUME NEW x, "pc" \in DOMAIN x, x.pc \in Loose
  PROVE  Fine(x)' /\ Ready(x)'
BY DEF Loose, Fine, Ready, Marked, Revoking, Taking, Closing, Starts, Uses, Redeems, Settles, Coded

LEMMA RevokingFine ==
  ASSUME NEW x, {"pc", "f"} \subseteq DOMAIN x, x.pc \in Revoking,
         x.pc \in Marked /\ x.f \in Family => Dead(x.f)'
  PROVE  Fine(x)' /\ Ready(x)'
BY DEF Fine, Ready, Marked, Revoking, Taking, Closing, Starts, Uses, Redeems, Settles, Coded

LEMMA RevokeFine ==
  ASSUME NEW f
  PROVE  /\ Revoke(f).pc = "revoke.add" /\ Revoke(f).f = f
         /\ Fine(Revoke(f))' /\ Ready(Revoke(f))'
<1>1. {"pc", "f"} \subseteq DOMAIN Revoke(f) /\ Revoke(f).pc = "revoke.add" /\ Revoke(f).f = f
  BY DEF Revoke
<1>2. Revoke(f).pc \in Revoking \ Marked
  BY <1>1 DEF Revoking, Marked
<1>3. QED
  BY <1>1, <1>2, RevokingFine

LEMMA RecordFine ==
  ASSUME NEW f, NEW a
  PROVE  Record(f, a).pc = "record.link" /\ Fine(Record(f, a))' /\ Ready(Record(f, a))'
BY LooseFine DEF Record, Loose

(* A call's frame with another pc.                                         *)
LEMMA Renamed ==
  ASSUME NEW t, NEW p, "pc" \in DOMAIN t
  PROVE  LET x == [t EXCEPT !.pc = p] IN
           x.pc = p /\ DOMAIN x = DOMAIN t /\ \A k \in DOMAIN t \ {"pc"} : x[k] = t[k]
OBVIOUS

(* A revocation goes on.                                                   *)
LEMMA RevokingInv ==
  ASSUME FamilyInv, NEW w \in Worker, task[w] # <<>>, Top(w).pc \in Revoking,
         NEW x, Become(w, <<x>>), {"pc", "f"} \subseteq DOMAIN x, x.pc \in Revoking,
         x.f = Top(w).f, Still, Keeps, x.pc \in Marked /\ x.f \in Family => Dead(x.f)'
  PROVE  FamilyInv'
<1>1. Heir(Top(w), x)
  BY DEF Heir, Revoking, Marked, Taking, Bases, Coded, Redeems
<1>2. Fine(x)' /\ Ready(x)'
  BY RevokingFine
<1>3. Bars(x)'
  BY DEF Revoking, Marked, Bars
<1>4. QED
  BY <1>1, <1>2, <1>3, OneInv

LEMMA MarkedInv ==
  ASSUME FamilyInv, NEW w \in Worker, task[w] # <<>>, Top(w).pc \in Marked,
         NEW x, Become(w, <<x>>), {"pc", "f"} \subseteq DOMAIN x, x.pc \in Marked,
         x.f = Top(w).f, Calm
  PROVE  FamilyInv'
<1>1. x.f \in Family => Dead(x.f)
  BY Tops DEF Fine
<1>2. QED
  BY <1>1, CalmStill, RevokingInv DEF Calm, Dead, Revoking

LEMMA RevokeInv ==
  ASSUME FamilyInv, NEW w \in Worker, RevokeStep(w), UNCHANGED <<load, codeVars>>
  PROVE  FamilyInv'
<1>0. PICK t : t = Top(w)
  OBVIOUS
<1> DEFINE To_(p) == [t EXCEPT !.pc = p]
<1> USE <1>0
<1>1. task[w] # <<>> /\ t.pc \in Revoking
  BY DEF RevokeStep, RevokeAdd, RevokeMark, RevokeSave, RevokeMembers, RevokeAwaiting, RevokeDeny,
         RevokeSettle, RevokeDone, Doing, Revoking, Marked
<1>2. {"pc", "f"} \subseteq DOMAIN t /\ (t.pc \in Marked /\ t.f \in Family => Dead(t.f))
  BY <1>1, Tops DEF Fine
<1>3. \A p : To_(p).pc = p /\ DOMAIN To_(p) = DOMAIN t /\ To_(p).f = t.f
  BY <1>2
<1> HIDE DEF To_
<1>4. CASE RevokeAdd(w)
  <2>1. Become(w, <<To_("revoke.mark")>>) /\ Calm
    BY <1>4 DEF RevokeAdd, To, To_, Calm, familyVars, outsideVars, codeVars
  <2>2. "revoke.mark" \in Revoking \ Marked
    BY DEF Revoking, Marked
  <2>3. QED
    BY <1>1, <1>2, <1>3, <2>1, <2>2, CalmStill, RevokingInv
<1>5. ASSUME NEW g \in {"revoke.members", "revoke.save"}, Become(w, <<To_(g)>>),
             family' = family \/ family' = [family EXCEPT ![t.f] = Revoked],
             g = "revoke.members" => family' = [family EXCEPT ![t.f] = Revoked],
             UNCHANGED <<begun, secrets, spent, listVars, outsideVars>>
      PROVE  FamilyInv'
  <2>1. DOMAIN family = Family
    BY DEF FamilyInv, Shapes
  <2>2. \A f \in Family : family'[f] = family[f] \/ Dead(f)'
    BY <2>1, <1>5 DEF Dead
  <2>3. Still
    BY <2>2, <1>5 DEF Still, Queued, Listed, Dead, listVars, outsideVars
  <2>4. ASSUME NEW r \in takenBack PROVE TakenFine(r)'
    BY <2>2, <1>5 DEF FamilyInv, TakenFine, TakenDown, Dead, outsideVars
  <2>5. Keeps
    BY <2>1, <2>4, <1>5 DEF Keeps, listVars, outsideVars, codeVars, FamilyInv, Shapes
  <2>6. t.f \in Family /\ g = "revoke.members" => Dead(t.f)'
    BY <2>1, <1>5 DEF Dead
  <2>7. g \in Revoking /\ (g \in Marked => g = "revoke.members")
    BY DEF Revoking, Marked
  <2>8. QED
    BY <1>1, <1>2, <1>3, <1>5, <2>3, <2>5, <2>6, <2>7, RevokingInv
<1>6. CASE RevokeMark(w)
  <2>1. \/ Become(w, <<To_("revoke.save")>>) /\ family' = family
        \/ Become(w, <<To_("revoke.members")>>) /\ family' = [family EXCEPT ![t.f] = Revoked]
    BY <1>6 DEF RevokeMark, To, To_
  <2>2. QED
    BY <2>1, <1>5, <1>6 DEF RevokeMark
<1>7. CASE RevokeSave(w)
  <2>1. CASE family[t.f] = NoFamily
    BY <2>1, <1>5, <1>7 DEF RevokeSave, To, To_
  <2>2. CASE family[t.f] # NoFamily
    <3>1. Throw(w) /\ Calm
      BY <2>2, <1>7 DEF RevokeSave, Calm, familyVars, listVars, outsideVars, codeVars
    <3>2. QED
      BY <3>1, CalmStill, ThrowInv
  <2>3. QED
    BY <2>1, <2>2
<1>8. ASSUME t.pc \in Marked, Calm, NEW x, Become(w, <<x>>), {"pc", "f"} \subseteq DOMAIN x,
             x.pc \in Marked, x.f = t.f
      PROVE  FamilyInv'
  BY <1>1, <1>8, MarkedInv
<1>9. CASE RevokeMembers(w)
  <2> DEFINE x == [t EXCEPT !.pc = "revoke.awaiting", !.todo = issued[t.f].held]
  <2>1. Become(w, <<x>>) /\ Calm /\ t.pc \in Marked
    BY <1>9 DEF RevokeMembers, Doing, Calm, familyVars, listVars, outsideVars, codeVars, Marked
  <2>2. {"pc", "f"} \subseteq DOMAIN x /\ x.pc \in Marked /\ x.f = t.f
    BY <1>2 DEF Marked
  <2> HIDE DEF x
  <2>3. QED
    BY <2>1, <2>2, <1>8
<1>10. CASE RevokeAwaiting(w)
  <2> DEFINE x == [t EXCEPT !.pc = "revoke.deny", !.todo = @ \cup issued[t.f].awaiting]
  <2>1. Become(w, <<x>>) /\ Calm /\ t.pc \in Marked
    BY <1>10 DEF RevokeAwaiting, Doing, Calm, familyVars, listVars, outsideVars, codeVars, Marked
  <2>2. {"pc", "f"} \subseteq DOMAIN x /\ x.pc \in Marked /\ x.f = t.f
    BY <1>2 DEF Marked
  <2> HIDE DEF x
  <2>3. QED
    BY <2>1, <2>2, <1>8
<1>11. CASE RevokeDeny(w)
  <2>1. Calm /\ t.pc = "revoke.deny" /\ t.pc \in Marked
    BY <1>11 DEF RevokeDeny, Doing, Calm, familyVars, listVars, outsideVars, codeVars, Marked
  <2>2. ASSUME NEW a, Become(w, <<[t EXCEPT !.todo = @ \ {a}, !.gone = @ \cup {a}]>>) PROVE FamilyInv'
    <3> DEFINE x == [t EXCEPT !.todo = @ \ {a}, !.gone = @ \cup {a}]
    <3>1. {"pc", "f"} \subseteq DOMAIN x /\ x.pc \in Marked /\ x.f = t.f /\ Become(w, <<x>>)
      BY <1>2, <2>1, <2>2
    <3> HIDE DEF x
    <3>2. QED
      BY <2>1, <3>1, <1>8
  <2>3. ASSUME NEW A, Become(w, <<[t EXCEPT !.pc = "revoke.settle", !.todo = A]>>) PROVE FamilyInv'
    <3> DEFINE x == [t EXCEPT !.pc = "revoke.settle", !.todo = A]
    <3>1. {"pc", "f"} \subseteq DOMAIN x /\ x.pc \in Marked /\ x.f = t.f /\ Become(w, <<x>>)
      BY <1>2, <2>3 DEF Marked
    <3> HIDE DEF x
    <3>2. QED
      BY <2>1, <3>1, <1>8
  <2>4. QED
    BY <1>11, <2>2, <2>3 DEF RevokeDeny
<1>12. CASE RevokeSettle(w)
  <2>1. Calm /\ t.pc = "revoke.settle" /\ t.pc \in Marked
    BY <1>12 DEF RevokeSettle, Doing, Calm, familyVars, listVars, outsideVars, codeVars, Marked
  <2>2. ASSUME NEW a, Become(w, <<[t EXCEPT !.todo = @ \ {a}]>>) PROVE FamilyInv'
    <3> DEFINE x == [t EXCEPT !.todo = @ \ {a}]
    <3>1. {"pc", "f"} \subseteq DOMAIN x /\ x.pc \in Marked /\ x.f = t.f /\ Become(w, <<x>>)
      BY <1>2, <2>1, <2>2
    <3> HIDE DEF x
    <3>2. QED
      BY <2>1, <3>1, <1>8
  <2>3. ASSUME Become(w, <<To_("revoke.done")>>) PROVE FamilyInv'
    BY <1>2, <1>3, <1>8, <2>1, <2>3 DEF Marked
  <2>4. QED
    BY <1>12, <2>2, <2>3 DEF RevokeSettle, To, To_
<1>13. CASE RevokeDone(w)
  <2>1. Calm /\ t.pc = "revoke.done" /\ t.pc \in Marked /\ Return(w)
    BY <1>13 DEF RevokeDone, Doing, Calm, familyVars, outsideVars, codeVars, Marked
  <2>2. ASSUME NEW q, Fine(q), Over(t, q) PROVE Ready(q)'
    <3>1. t.f \in Family => Dead(t.f)'
      BY <2>1, <1>2 DEF Calm, Dead
    <3>2. q.pc = "take.done" => TakenDown(q.r)'
      BY <2>1, <2>2, <3>1 DEF Over, TakenDown, Calm
    <3>3. ASSUME q.pc \in {"close.each", "close.rest"} PROVE Covered(q, {})'
      <4>1. Grows
        <5>1. PICK n : n = <<>> \o Tail(task[w])
          OBVIOUS
        <5>2. task' = [task EXCEPT ![w] = n] /\ (n # <<>> => Bars(Head(n))')
          BY <1>1, <2>1, <5>1, Tops, HeadReturned DEF Return, Become, Waits, Bars
        <5>3. QED
          BY <5>2, <2>1, CalmStill, QuietGrows DEF Quiet
      <4>2. Covered(q, {t.f})'
        BY <2>1, <2>2, <3>3, <4>1, CoveredStays DEF Over, Fine, Closing
      <4>3. QED
        BY <4>2, <3>1 DEF Covered
    <3>4. q.pc # "settle.done"
      BY <2>1, <2>2 DEF Over, Taking
    <3>5. q.pc = "session.settled" /\ q.f \in Family => Dead(q.f)'
      BY <2>2, <3>1 DEF Over
    <3>6. QED
      BY <3>2, <3>3, <3>4, <3>5 DEF Ready
  <2>3. QED
    BY <1>1, <2>1, <2>2, CalmStill, ReturnInv
<1>14. QED
  BY <1>4, <1>6, <1>7, <1>9, <1>10, <1>11, <1>12, <1>13 DEF RevokeStep

(* Frames nothing counts on below.                                         *)
Common(t) == t.pc \notin Revoking \cup Taking \cup {"session.settled"}

LEMMA CommonHeir ==
  ASSUME NEW t, Common(t), NEW x, t.pc \in Bases \/ x.pc \notin Bases
  PROVE  Heir(t, x)
BY DEF Common, Heir

LEMMA CommonReturn ==
  ASSUME FamilyInv, NEW w \in Worker, task[w] # <<>>, Common(Top(w)), Return(w), Still, Keeps
  PROVE  FamilyInv'
<1>1. ASSUME NEW q, Over(Top(w), q) PROVE Ready(q)'
  BY <1>1 DEF Over, Common, Ready
<1>2. QED
  BY <1>1, ReturnInv

LEMMA LooseInv ==
  ASSUME FamilyInv, NEW w \in Worker, task[w] # <<>>, Common(Top(w)),
         NEW x, Become(w, <<x>>), "pc" \in DOMAIN x, x.pc \in Loose \ {"sweep"}, Still, Keeps
  PROVE  FamilyInv'
<1>1. Heir(Top(w), x) /\ Bars(x)'
  BY CommonHeir DEF Loose, Bases, Coded, Redeems, Bars
<1>2. QED
  BY <1>1, LooseFine, OneInv

(* A call on top of a frame with nothing to know, that only waits.         *)
LEMMA CallInv ==
  ASSUME FamilyInv, NEW w \in Worker, task[w] # <<>>, Common(Top(w)),
         NEW x, NEW y, Become(w, <<x, y>>), "pc" \in DOMAIN x, "pc" \in DOMAIN y,
         x.pc \in Loose \/ (x.pc = "revoke.add" /\ "f" \in DOMAIN x), x.pc # "sweep",
         y.pc \in (Loose \cap Waits) \ {"sweep"}, Still, Keeps
  PROVE  FamilyInv'
<1>1. Heir(Top(w), y)
  BY CommonHeir DEF Loose, Bases, Coded, Redeems
<1>2. Bars(x)' /\ x.pc \notin Bases
  BY DEF Loose, Bases, Coded, Redeems, Bars
<1>3. Fine(x)' /\ Ready(x)'
  BY LooseFine, RevokingFine DEF Revoking, Marked
<1>4. Fine(y)' /\ Over(x, y)'
  BY <1>2, LooseFine DEF Over, Loose
<1>5. QED
  BY <1>1, <1>2, <1>3, <1>4, TwoInv

LEMMA RecordInv ==
  ASSUME FamilyInv, NEW w \in Worker, RecordStep(w), UNCHANGED <<load, codeVars>>
  PROVE  FamilyInv'
<1>0. PICK t : t = Top(w)
  OBVIOUS
<1> USE <1>0
<1>1. /\ task[w] # <<>> /\ t.pc \in {"record.link", "record.add", "record.push", "record.settle"}
      /\ Calm
  BY DEF RecordStep, RecordLink, RecordAdd, RecordPush, RecordSettle, Doing, Calm, familyVars,
         listVars, outsideVars, codeVars
<1>2. "pc" \in DOMAIN t /\ Common(t)
  BY <1>1, Tops DEF Fine, Common, Revoking, Marked, Taking
<1>3. Still /\ Keeps
  BY <1>1, CalmStill
<1>4. CASE RecordLink(w)
  <2>1. PICK x : x = [t EXCEPT !.pc = "record.add"]
    OBVIOUS
  <2>2. Become(w, <<x>>) /\ "pc" \in DOMAIN x /\ x.pc = "record.add"
    BY <1>2, <1>4, <2>1 DEF RecordLink, To
  <2>3. QED
    BY <1>1, <1>2, <1>3, <2>2, LooseInv DEF Loose
<1>5. CASE RecordAdd(w)
  <2>1. CASE Return(w)
    BY <1>1, <1>2, <1>3, <2>1, CommonReturn
  <2>2. ASSUME NEW out, Become(w, <<PushedOut(t.f, out)>>) PROVE FamilyInv'
    <3>1. PushedOut(t.f, out).pc = "record.push" /\ "pc" \in DOMAIN PushedOut(t.f, out)
      BY DEF PushedOut
    <3>2. QED
      BY <1>1, <1>2, <1>3, <2>2, <3>1, LooseInv DEF Loose
  <2>3. QED
    BY <1>5, <2>1, <2>2 DEF RecordAdd
<1>6. CASE RecordPush(w)
  <2>1. CASE Throw(w)
    BY <1>3, <2>1, ThrowInv
  <2>2. ASSUME NEW a, Become(w, <<[pc |-> "record.settle", f |-> t.f, a |-> a], PushedOut(t.f, t.todo \ {a})>>)
        PROVE  FamilyInv'
    <3>1. PICK x, y : x = [pc |-> "record.settle", f |-> t.f, a |-> a] /\ y = PushedOut(t.f, t.todo \ {a})
      OBVIOUS
    <3>2. x.pc = "record.settle" /\ "pc" \in DOMAIN x /\ y.pc = "record.push" /\ "pc" \in DOMAIN y
      BY <3>1 DEF PushedOut
    <3>3. Become(w, <<x, y>>)
      BY <2>2, <3>1
    <3>4. QED
      BY <1>1, <1>2, <1>3, <3>2, <3>3, CallInv DEF Loose, Waits
  <2>3. QED
    BY <1>6, <2>1, <2>2 DEF RecordPush
<1>7. CASE RecordSettle(w)
  BY <1>1, <1>2, <1>3, <1>7, CommonReturn DEF RecordSettle
<1>8. QED
  BY <1>4, <1>5, <1>6, <1>7 DEF RecordStep

----------------------------------------------------------------------------
(* Starting a family, and taking one back.                                 *)
LEMMA TakingFine ==
  ASSUME NEW x, {"pc", "r"} \subseteq DOMAIN x, x.pc \in Taking, x.r \in Redemption,
         x.pc # "take.mark" => begun'[x.r] # "none",
         x.pc = "take.done" => TakenDown(x.r)'
  PROVE  Fine(x)' /\ Ready(x)'
BY DEF Fine, Ready, Marked, Revoking, Taking, Closing, Starts, Uses, Redeems, Settles, Coded

LEMMA StartsFine ==
  ASSUME NEW x, {"pc", "f", "s"} \subseteq DOMAIN x, x.pc \in Starts,
         x.pc \in {"start.enter", "found.save"} /\ x.f \in Family /\ x.s \in Session => Listed(x.f, x.s)'
  PROVE  Fine(x)' /\ Ready(x)'
BY DEF Fine, Ready, Marked, Revoking, Taking, Closing, Starts, Uses, Redeems, Settles, Coded

(* The redemption's mark, or its family's name, is all that changes.       *)
LEMMA BegunStill ==
  ASSUME FamilyInv, UNCHANGED <<load, family, secrets, spent, listVars, outsideVars, codeVars>>,
         NEW r, begun' = [begun EXCEPT ![r] = begun'[r]], begun[r] = "none" \/ begun'[r] = begun[r]
  PROVE  Still /\ Keeps
<1>1. DOMAIN begun = Redemption
  BY DEF FamilyInv, Shapes
<1>2. \A q \in Redemption : begun[q] # "none" => begun'[q] = begun[q]
  BY <1>1
<1>3. Still
  BY <1>2 DEF Still, Queued, Listed, Dead, listVars, outsideVars
<1>4. \A q \in takenBack' : TakenFine(q)'
  BY <1>2 DEF FamilyInv, TakenFine, TakenDown, Dead, outsideVars
<1>5. QED
  BY <1>1, <1>3, <1>4 DEF Keeps, FamilyInv, Shapes, listVars, outsideVars, codeVars

LEMMA TakeInv ==
  ASSUME FamilyInv, NEW w \in Worker, TakeMark(w) \/ TakeRead(w) \/ TakeDone(w),
         UNCHANGED <<load, codeVars>>
  PROVE  FamilyInv'
<1>0. PICK t : t = Top(w)
  OBVIOUS
<1> USE <1>0
<1>1. task[w] # <<>> /\ t.pc \in Taking
  BY DEF TakeMark, TakeRead, TakeDone, Doing, Taking
<1>2. {"pc", "r"} \subseteq DOMAIN t /\ t.r \in Redemption /\ (t.pc # "take.mark" => begun[t.r] # "none")
      /\ (t.pc = "take.done" => TakenDown(t.r))
  BY <1>1, Tops DEF Fine, Ready, Taking
<1>3. ASSUME NEW p \in Taking, NEW x, x = [t EXCEPT !.pc = p]
      PROVE  {"pc", "r"} \subseteq DOMAIN x /\ x.pc = p /\ x.r = t.r /\ Heir(t, x) /\ Bars(x)'
  <2>1. {"pc", "r"} \subseteq DOMAIN x /\ x.pc = p /\ x.r = t.r
    BY <1>2, <1>3
  <2>2. QED
    BY <1>1, <2>1 DEF Heir, Bars, Taking, Bases, Coded, Redeems, Revoking, Marked
<1>4. CASE TakeMark(w)
  <2>1. PICK x : x = [t EXCEPT !.pc = "take.read"]
    OBVIOUS
  <2>2. Become(w, <<x>>)
    BY <1>4, <2>1 DEF TakeMark, To
  <2>3. begun' = [begun EXCEPT ![t.r] = IF @ = "none" THEN "taken" ELSE @]
    BY <1>4 DEF TakeMark
  <2>4. begun' = [begun EXCEPT ![t.r] = begun'[t.r]] /\ begun'[t.r] # "none"
        /\ (begun[t.r] = "none" \/ begun'[t.r] = begun[t.r])
    BY <1>2, <2>3 DEF FamilyInv, Shapes
  <2>5. Still /\ Keeps
    BY <1>4, <2>4, BegunStill DEF TakeMark
  <2>6. {"pc", "r"} \subseteq DOMAIN x /\ x.pc = "take.read" /\ x.r = t.r /\ Heir(t, x) /\ Bars(x)'
    BY <1>3, <2>1 DEF Taking
  <2>7. Fine(x)' /\ Ready(x)'
    BY <1>2, <2>4, <2>6, TakingFine DEF Taking
  <2>8. QED
    BY <1>1, <2>2, <2>5, <2>6, <2>7, OneInv
<1>5. CASE TakeRead(w)
  <2>1. Calm /\ t.pc = "take.read"
    BY <1>5 DEF TakeRead, Doing, Calm, familyVars, listVars, outsideVars, codeVars
  <2>2. Still /\ Keeps
    BY <2>1, CalmStill
  <2>3. PICK x, y : x = Revoke(begun[t.r]) /\ y = [t EXCEPT !.pc = "take.done"]
    OBVIOUS
  <2>4. {"pc", "r"} \subseteq DOMAIN y /\ y.pc = "take.done" /\ y.r = t.r /\ Heir(t, y) /\ Bars(y)'
    BY <1>3, <2>3 DEF Taking
  <2>5. begun'[t.r] = begun[t.r] /\ begun'[t.r] # "none"
    BY <1>2, <2>1 DEF Calm
  <2>6. CASE begun[t.r] \in Family
    <3>1. Become(w, <<x, y>>)
      BY <1>5, <2>3, <2>6 DEF TakeRead
    <3>2. x.pc = "revoke.add" /\ x.f = begun[t.r] /\ Fine(x)' /\ Ready(x)'
      BY <2>3, RevokeFine
    <3>3. Over(x, y)'
      BY <2>4, <2>5, <3>2 DEF Over, Bases, Coded, Redeems, Waits, Revoking
    <3>4. Fine(y)'
      BY <1>2, <2>4, <2>5
      DEF Fine, Marked, Revoking, Taking, Closing, Starts, Uses, Redeems, Settles, Coded
    <3>5. Bars(x)'
      BY <3>2 DEF Bars
    <3>6. QED
      BY <1>1, <2>2, <2>4, <3>1, <3>2, <3>3, <3>4, <3>5, TwoInv
  <2>7. CASE begun[t.r] \notin Family
    <3>1. Become(w, <<y>>)
      BY <1>5, <2>3, <2>7 DEF TakeRead, To
    <3>2. TakenDown(y.r)'
      BY <2>4, <2>5, <2>7 DEF TakenDown
    <3>3. Fine(y)' /\ Ready(y)'
      BY <1>2, <2>4, <2>5, <3>2, TakingFine DEF Taking
    <3>4. QED
      BY <1>1, <2>2, <2>4, <3>1, <3>3, OneInv
  <2>8. QED
    BY <2>6, <2>7
<1>6. CASE TakeDone(w)
  <2>1. /\ Return(w) /\ t.pc = "take.done" /\ takenBack' = takenBack \cup {t.r}
        /\ UNCHANGED <<load, family, begun, bySession, secrets, spent, finished, given, voids, entering>>
    BY <1>6 DEF TakeDone, Doing, familyVars, listVars, codeVars
  <2>2. Still
    BY <2>1 DEF Still, Queued, Listed, Dead
  <2>3. \A r \in takenBack' : TakenFine(r)'
    BY <1>2, <2>1 DEF FamilyInv, TakenFine, TakenDown, Dead
  <2>4. Keeps
    BY <2>1, <2>3 DEF Keeps, FamilyInv, Shapes
  <2>5. ASSUME NEW q, Fine(q), Over(t, q) PROVE Ready(q)'
    BY <2>1, <2>5 DEF Ready, Over, Revoking, Marked
  <2>6. QED
    BY <1>1, <2>1, <2>2, <2>4, <2>5, ReturnInv
<1>7. QED
  BY <1>4, <1>5, <1>6

(* The list of a session's families, which only loses ended ones.          *)
LEMMA ListStill ==
  ASSUME FamilyInv, UNCHANGED <<load, familyVars, outsideVars, codeVars>>,
         DOMAIN bySession' = Session,
         \A s \in Session : {"held", "awaiting"} \subseteq DOMAIN bySession'[s],
         \A f \in Family, s \in Session :
           (Queued(f, s) => Queued(f, s)') /\ (Listed(f, s) => Listed(f, s)')
  PROVE  Still /\ Keeps
<1>1. Still
  BY DEF Still, familyVars, outsideVars
<1>2. \A q \in takenBack' : TakenFine(q)'
  BY DEF FamilyInv, TakenFine, TakenDown, Dead, familyVars, outsideVars
<1>3. QED
  BY <1>1, <1>2 DEF Keeps, FamilyInv, Shapes, familyVars, outsideVars, codeVars

LEMMA AddedIs ==
  ASSUME NEW set, NEW m, NEW out
  PROVE  /\ Added(set, m, out).held = (set.held \cup {m}) \ out
         /\ Added(set, m, out).awaiting = set.awaiting \cup out
BY DEF Added

LEMMA StartInv ==
  ASSUME FamilyInv, NEW w \in Worker, StartName(w) \/ StartList(w) \/ StartDrop(w) \/ StartEnter(w),
         UNCHANGED <<load, codeVars>>
  PROVE  FamilyInv'
<1>0. PICK t : t = Top(w)
  OBVIOUS
<1> USE <1>0
<1>1. task[w] # <<>> /\ t.pc \in {"start.name", "start.list", "start.drop", "start.enter"}
  BY DEF StartName, StartList, StartDrop, StartEnter, Doing
<1>2. "pc" \in DOMAIN t /\ (t.pc # "start.drop" => {"f", "s"} \subseteq DOMAIN t) /\ Common(t)
  BY <1>1, Tops DEF Fine, Starts, Common, Revoking, Marked, Taking
<1>3. ASSUME NEW p \in Starts \ {"found.save"}, NEW x, x = [t EXCEPT !.pc = p], t.pc # "start.drop"
      PROVE  {"pc", "f", "s"} \subseteq DOMAIN x /\ x.pc = p /\ x.f = t.f /\ x.s = t.s
             /\ Heir(t, x) /\ Bars(x)'
  <2>1. {"pc", "f", "s"} \subseteq DOMAIN x /\ x.pc = p /\ x.f = t.f /\ x.s = t.s
    BY <1>2, <1>3
  <2>2. x.pc \notin Bases /\ Bars(x)'
    BY <2>1 DEF Bars, Starts, Bases, Coded, Redeems
  <2>3. QED
    BY <1>2, <2>1, <2>2, CommonHeir
<1>4. CASE StartName(w)
  <2>1. CASE begun[t.r] = "none" /\ begun' = [begun EXCEPT ![t.r] = t.f] /\ To(w, "start.list")
    <3>1. PICK x : x = [t EXCEPT !.pc = "start.list"]
      OBVIOUS
    <3>2. Become(w, <<x>>) /\ t.pc = "start.name"
      BY <1>4, <2>1, <3>1 DEF To, StartName, Doing
    <3>3. begun' = [begun EXCEPT ![t.r] = begun'[t.r]]
      <4>1. CASE t.r \in DOMAIN begun
        BY <2>1, <4>1
      <4>2. CASE t.r \notin DOMAIN begun
        BY <2>1, <4>2
      <4>3. QED
        BY <4>1, <4>2
    <3>4. Still /\ Keeps
      BY <1>4, <2>1, <3>3, BegunStill DEF StartName
    <3>5. {"pc", "f", "s"} \subseteq DOMAIN x /\ x.pc = "start.list" /\ Heir(t, x) /\ Bars(x)'
      BY <1>3, <3>1, <3>2 DEF Starts
    <3>6. Fine(x)' /\ Ready(x)'
      BY <3>5, StartsFine DEF Starts
    <3>7. QED
      BY <1>1, <3>2, <3>4, <3>5, <3>6, OneInv
  <2>2. CASE Throw(w) /\ UNCHANGED begun
    <3>1. Calm
      BY <1>4, <2>2 DEF StartName, Calm, familyVars, listVars, outsideVars, codeVars
    <3>2. QED
      BY <2>2, <3>1, CalmStill, ThrowInv
  <2>3. QED
    BY <1>4, <2>1, <2>2 DEF StartName
<1>5. CASE StartList(w)
  <2>1. PICK out : /\ bySession' = [bySession EXCEPT ![t.s] = Added(@, t.f, out)]
                   /\ IF out = {} THEN To(w, "start.enter") ELSE Become(w, <<Dropping(t.s, out)>>)
    BY <1>5 DEF StartList
  <2>2. UNCHANGED <<load, familyVars, outsideVars, codeVars>> /\ t.pc = "start.list"
    BY <1>5 DEF StartList, Doing
  <2>3. DOMAIN bySession = Session
    BY DEF FamilyInv, Shapes
  <2>4. \A s \in Session : bySession'[s] = bySession[s] \/ (s = t.s /\ bySession'[s] = Added(bySession[s], t.f, out))
    BY <2>1, <2>3
  <2>5. DOMAIN bySession' = Session /\ \A s \in Session : {"held", "awaiting"} \subseteq DOMAIN bySession'[s]
    BY <2>1, <2>3, <2>4 DEF FamilyInv, Shapes, Added
  <2>6. ASSUME NEW f \in Family, NEW s \in Session
        PROVE  (Queued(f, s) => Queued(f, s)') /\ (Listed(f, s) => Listed(f, s)')
    <3>1. /\ bySession[s].awaiting \subseteq bySession'[s].awaiting
          /\ bySession[s].held \subseteq bySession'[s].held \cup bySession'[s].awaiting
      <4>1. CASE bySession'[s] = bySession[s]
        BY <4>1
      <4>2. CASE bySession'[s] = Added(bySession[s], t.f, out)
        BY <4>2, AddedIs
      <4>3. QED
        BY <2>4, <4>1, <4>2
    <3>2. Dead(f)' <=> Dead(f)
      BY <2>2 DEF Dead, familyVars
    <3>3. QED
      BY <3>1, <3>2 DEF Queued, Listed
  <2>8. Still /\ Keeps
    BY <2>2, <2>5, <2>6, ListStill
  <2>9. CASE out = {}
    <3>1. PICK x : x = [t EXCEPT !.pc = "start.enter"]
      OBVIOUS
    <3>2. Become(w, <<x>>)
      BY <2>1, <2>9, <3>1 DEF To
    <3>3. {"pc", "f", "s"} \subseteq DOMAIN x /\ x.pc = "start.enter" /\ x.f = t.f /\ x.s = t.s
          /\ Heir(t, x) /\ Bars(x)'
      BY <1>3, <2>2, <3>1 DEF Starts
    <3>4. t.s \in Session => Listed(t.f, t.s)'
      BY <2>1, <2>3 DEF Listed, Queued, Added
    <3>5. Fine(x)' /\ Ready(x)'
      BY <3>3, <3>4, StartsFine DEF Starts
    <3>6. QED
      BY <1>1, <2>8, <3>2, <3>3, <3>5, OneInv
  <2>10. CASE out # {}
    <3>1. PICK x : x = Dropping(t.s, out)
      OBVIOUS
    <3>2. Become(w, <<x>>) /\ "pc" \in DOMAIN x /\ x.pc = "start.drop"
      BY <2>1, <2>10, <3>1 DEF Dropping
    <3>3. QED
      BY <1>1, <1>2, <2>8, <3>2, LooseInv DEF Loose
  <2>11. QED
    BY <2>9, <2>10
<1>6. CASE StartDrop(w)
  <2>1. Still /\ Keeps
    BY <1>6, CalmStill DEF StartDrop, Calm, familyVars, listVars, outsideVars, codeVars
  <2>2. ASSUME NEW f, Become(w, <<Revoke(f), [pc |-> "session.settled", s |-> t.s, f |-> f],
                                  Dropping(t.s, t.todo \ {f})>>)
        PROVE  FamilyInv'
    <3>1. PICK x, y, z : /\ x = Revoke(f) /\ y = [pc |-> "session.settled", s |-> t.s, f |-> f]
                         /\ z = Dropping(t.s, t.todo \ {f})
      OBVIOUS
    <3>2. Become(w, <<x, y, z>>)
      BY <2>2, <3>1
    <3>3. x.pc = "revoke.add" /\ x.f = f /\ Fine(x)' /\ Ready(x)'
      BY <3>1, RevokeFine
    <3>4. "pc" \in DOMAIN y /\ y.pc = "session.settled" /\ y.f = f
      BY <3>1
    <3>5. Fine(y)'
      BY <3>4 DEF Fine, Marked, Revoking, Taking, Closing, Starts, Uses, Redeems, Settles, Coded
    <3>6. "pc" \in DOMAIN z /\ z.pc = "start.drop"
      BY <3>1 DEF Dropping
    <3>7. Fine(z)' /\ Heir(t, z)
      BY <1>2, <3>6, LooseFine, CommonHeir DEF Loose, Bases, Coded, Redeems
    <3>8. Over(x, y)' /\ Over(y, z)' /\ Bars(x)'
      BY <3>3, <3>4, <3>6 DEF Over, Bars, Bases, Coded, Redeems, Waits, Revoking
    <3>9. QED
      BY <1>1, <2>1, <3>2, <3>3, <3>5, <3>7, <3>8, ThreeInv
  <2>3. QED
    BY <1>6, <2>1, <2>2, ThrowInv DEF StartDrop
<1>7. CASE StartEnter(w)
  <2>1. Calm /\ t.pc = "start.enter"
    BY <1>7 DEF StartEnter, Doing, Calm, familyVars, listVars, outsideVars, codeVars
  <2>2. Still /\ Keeps
    BY <2>1, CalmStill
  <2>3. CASE t.s \in entering /\ Become(w, <<Found(t.f, t.s, t.a)>>)
    <3>1. PICK x : x = Found(t.f, t.s, t.a)
      OBVIOUS
    <3>2. {"pc", "f", "s"} \subseteq DOMAIN x /\ x.pc = "found.save" /\ x.f = t.f /\ x.s = t.s
          /\ Become(w, <<x>>)
      BY <2>3, <3>1 DEF Found
    <3>3. t.f \in Family /\ t.s \in Session => Listed(t.f, t.s)
      BY <1>1, <2>1, Tops DEF Fine
    <3>4. t.f \in Family /\ t.s \in Session => Listed(t.f, t.s)'
      BY <3>3, <2>2 DEF Still
    <3>5. Fine(x)' /\ Ready(x)'
      BY <3>2, <3>4, StartsFine DEF Starts
    <3>6. entering' = entering
      BY <1>7 DEF StartEnter, outsideVars
    <3>7. Bars(x)' /\ Heir(t, x)
      BY <1>2, <2>3, <3>2, <3>6, CommonHeir DEF Bars, Bases, Coded, Redeems
    <3>8. QED
      BY <1>1, <2>2, <3>2, <3>5, <3>7, OneInv
  <2>4. CASE Become(w, <<Revoke(t.f), Throwing>>)
    <3>1. PICK x, y : x = Revoke(t.f) /\ y = Throwing
      OBVIOUS
    <3>2. x.pc = "revoke.add" /\ {"pc", "f"} \subseteq DOMAIN x /\ y.pc = "throw" /\ "pc" \in DOMAIN y
      BY <3>1 DEF Revoke, Throwing
    <3>3. Become(w, <<x, y>>)
      BY <2>4, <3>1
    <3>4. QED
      BY <1>1, <1>2, <2>2, <3>2, <3>3, CallInv DEF Loose, Waits
  <2>5. QED
    BY <1>7, <2>3, <2>4 DEF StartEnter
<1>8. QED
  BY <1>4, <1>5, <1>6, <1>7

LEMMA SettledIs ==
  ASSUME NEW set, {"held", "awaiting"} \subseteq DOMAIN set, NEW m
  PROVE  /\ {"held", "awaiting"} \subseteq DOMAIN Settled(set, m)
         /\ Settled(set, m).held = set.held /\ Settled(set, m).awaiting = set.awaiting \ {m}
BY DEF Settled

LEMMA SettledInv ==
  ASSUME FamilyInv, NEW w \in Worker, SessionSettled(w), UNCHANGED <<load, codeVars>>
  PROVE  FamilyInv'
<1>0. PICK t : t = Top(w)
  OBVIOUS
<1>1. /\ task[w] # <<>> /\ t.pc = "session.settled" /\ Return(w)
      /\ bySession' = [bySession EXCEPT ![t.s] = Settled(@, t.f)]
      /\ UNCHANGED <<load, familyVars, outsideVars, codeVars>>
  BY <1>0 DEF SessionSettled, Doing
<1>2. t.f \in Family => Dead(t.f)
  BY <1>0, <1>1, Tops DEF Ready
<1>3. DOMAIN bySession = Session /\ \A s \in Session : {"held", "awaiting"} \subseteq DOMAIN bySession[s]
  BY DEF FamilyInv, Shapes
<1>4. ASSUME NEW s \in Session
      PROVE  /\ {"held", "awaiting"} \subseteq DOMAIN bySession'[s]
             /\ bySession'[s].held = bySession[s].held
             /\ bySession[s].awaiting \subseteq bySession'[s].awaiting \cup {t.f}
  <2>1. CASE s = t.s
    <3>1. bySession'[s] = Settled(bySession[s], t.f)
      BY <1>1, <1>3, <2>1
    <3>2. QED
      BY <1>3, <3>1, SettledIs
  <2>2. CASE s # t.s
    <3>1. bySession'[s] = bySession[s]
      BY <1>1, <1>3, <2>2
    <3>2. QED
      BY <1>3, <3>1
  <2>3. QED
    BY <2>1, <2>2
<1>5. \A f : Dead(f)' <=> Dead(f)
  BY <1>1 DEF Dead, familyVars
<1>6. ASSUME NEW f \in Family, NEW s \in Session
      PROVE  (Queued(f, s) => Queued(f, s)') /\ (Listed(f, s) => Listed(f, s)')
  BY <1>2, <1>4, <1>5 DEF Queued, Listed
<1>7. Still /\ Keeps
  BY <1>1, <1>3, <1>4, <1>6, ListStill
<1>8. Grows
  <2>1. PICK n : n = <<>> \o Tail(task[w])
    OBVIOUS
  <2>2. task' = [task EXCEPT ![w] = n] /\ (n # <<>> => Bars(Head(n))')
    BY <1>1, <2>1, Tops, HeadReturned DEF Return, Become, Waits, Bars
  <2>3. QED
    BY <1>7, <2>2, QuietGrows DEF Quiet
<1>9. ASSUME NEW q, Fine(q), Over(t, q) PROVE Ready(q)'
  <2>1. q.pc \notin {"take.done", "session.settled", "close.each", "settle.done"}
    BY <1>1, <1>9 DEF Over, Revoking, Marked, Taking
  <2>2. ASSUME q.pc = "close.rest" PROVE Covered(q, {})'
    <3>1. Covered(q, {t.f})'
      BY <1>8, <1>9, <2>2, CoveredStays DEF Over, Fine, Closing
    <3>2. QED
      BY <1>2, <1>5, <3>1 DEF Covered
  <2>3. QED
    BY <2>1, <2>2 DEF Ready
<1>10. QED
  BY <1>0, <1>1, <1>7, <1>9, ReturnInv

(* The one step that brings a family to life.                              *)
LEMMA FoundInv ==
  ASSUME FamilyInv, NEW w \in Worker, FoundSave(w) \/ FoundConfirm(w), UNCHANGED <<load, codeVars>>
  PROVE  FamilyInv'
<1>0. PICK t : t = Top(w)
  OBVIOUS
<1> USE <1>0
<1>1. task[w] # <<>> /\ t.pc \in {"found.save", "found.confirm"}
  BY DEF FoundSave, FoundConfirm, Doing
<1>2. "pc" \in DOMAIN t /\ Common(t)
  BY <1>1, Tops DEF Fine, Common, Revoking, Marked, Taking
<1>3. CASE FoundConfirm(w)
  <2>1. Still /\ Keeps
    BY <1>3, CalmStill DEF FoundConfirm, Calm, familyVars, listVars, outsideVars, codeVars
  <2>2. CASE Become(w, <<Revoke(t.f), Throwing>>)
    <3>1. PICK x, y : x = Revoke(t.f) /\ y = Throwing
      OBVIOUS
    <3>2. x.pc = "revoke.add" /\ {"pc", "f"} \subseteq DOMAIN x /\ y.pc = "throw" /\ "pc" \in DOMAIN y
      BY <3>1 DEF Revoke, Throwing
    <3>3. Become(w, <<x, y>>)
      BY <2>2, <3>1
    <3>4. QED
      BY <1>1, <1>2, <2>1, <3>2, <3>3, CallInv DEF Loose, Waits
  <2>3. QED
    BY <1>1, <1>2, <1>3, <2>1, <2>2, CommonReturn DEF FoundConfirm
<1>4. CASE FoundSave(w) /\ Throw(w) /\ UNCHANGED <<family, secrets>>
  <2>1. Still /\ Keeps
    BY <1>4, CalmStill DEF FoundSave, Calm, listVars, outsideVars, codeVars
  <2>2. QED
    BY <1>4, <2>1, ThrowInv
<1>5. CASE /\ FoundSave(w) /\ family[t.f] = NoFamily
           /\ family' = [family EXCEPT ![t.f] = LiveFamily(1, t.s)]
           /\ secrets' = [secrets EXCEPT ![t.f] = 1]
           /\ Become(w, <<Record(t.f, t.a), [t EXCEPT !.pc = "found.confirm"]>>)
  <2>1. PICK x, y, s, n : /\ x = Record(t.f, t.a) /\ y = [t EXCEPT !.pc = "found.confirm"]
                          /\ s = task[w] /\ n = <<x, y>> \o Tail(s)
    OBVIOUS
  <2>2. /\ t.pc = "found.save" /\ task' = [task EXCEPT ![w] = n]
        /\ UNCHANGED <<load, begun, spent, bySession, finished, takenBack, given, voids, entering>>
    BY <1>5, <2>1 DEF FoundSave, Doing, Become, listVars, outsideVars, codeVars
  <2>3. /\ x.pc = "record.link" /\ "pc" \in DOMAIN x /\ y.pc = "found.confirm" /\ "pc" \in DOMAIN y
    BY <1>2, <2>1 DEF Record
  <2>4. Good(s) /\ s # <<>> /\ s[1] = t /\ DOMAIN task = Worker /\ DOMAIN family = Family
        /\ DOMAIN secrets = Family
    BY <1>1, <2>1, Tops DEF FamilyInv, Shapes
  <2>5. n # <<>> /\ Head(n) = x
    <3>1. PICK a : a = <<x, y>>
      OBVIOUS
    <3>2. IsStack(a) /\ a # <<>> /\ a[1] = x
      BY <3>1, Tuples
    <3>3. QED
      BY <2>1, <2>4, <3>1, <3>2, HeadPushed
  <2>6. \A f \in Family : family'[f] = IF f = t.f THEN LiveFamily(1, t.s) ELSE family[f]
    BY <1>5, <2>4
  <2>7. LiveFamily(1, t.s).session = t.s /\ LiveFamily(1, t.s).current = 1
        /\ LiveFamily(1, t.s).state = "live" /\ {"state", "current", "session"} \subseteq DOMAIN LiveFamily(1, t.s)
    BY DEF LiveFamily
  <2>8. \A f \in Family : (Dead(f)' <=> Dead(f)) /\ (f # t.f => (Alive(f)' <=> Alive(f)))
    BY <1>5, <2>6, <2>7 DEF Dead, Revoked, NoFamily, Alive
  <2>9. \A f \in Family, r \in Session : (Queued(f, r)' <=> Queued(f, r)) /\ (Listed(f, r)' <=> Listed(f, r))
    BY <2>2, <2>8 DEF Queued, Listed
  <2>10. ASSUME NEW f \in Family, NEW r, Passing(f, r)' PROVE Passing(f, r)
    <3>1. CASE Alive(f)' /\ (family[f].session = r)'
      <4>1. CASE f = t.f
        <5>1. r = t.s
          BY <2>6, <2>7, <3>1, <4>1
        <5>2. QED
          BY <1>1, <2>2, <4>1, <5>1 DEF Passing, Let
      <4>2. CASE f # t.f
        BY <2>6, <2>8, <3>1, <4>2 DEF Passing
      <4>3. QED
        BY <4>1, <4>2
    <3>2. CASE \E v \in Worker : task'[v] # <<>> /\ Let(Head(task'[v]), f, r)
      <4>1. PICK v \in Worker : task'[v] # <<>> /\ Let(Head(task'[v]), f, r)
        BY <3>2
      <4>2. v # w
        BY <2>2, <2>3, <2>4, <2>5, <4>1 DEF Let
      <4>3. task'[v] = task[v]
        BY <2>2, <2>4, <4>2
      <4>4. QED
        BY <4>1, <4>3 DEF Passing, Top
    <3>3. QED
      BY <2>10, <3>1, <3>2 DEF Passing, Top
  <2>11. Grows
    BY <2>2, <2>8, <2>9, <2>10 DEF Grows
  <2>12. Good(n)'
    <3>1. Fine(x)' /\ Ready(x)' /\ Fine(y)'
      BY <2>3, LooseFine DEF Loose
    <3>2. Over(x, y)' /\ Heir(t, y)
      BY <1>2, <2>3, CommonHeir DEF Over, Waits, Bases, Coded, Redeems
    <3>3. Good(<<x, y>>)'
      BY <3>1, <3>2, GoodTwo
    <3>4. PICK a : a = <<x, y>>
      OBVIOUS
    <3>5. Good(a)' /\ a # <<>> /\ a[Len(a)] = y
      BY <3>3, <3>4, Tuples
    <3>6. Good(a \o Tail(s))'
      BY <2>4, <2>11, <3>2, <3>5, GoodPush
    <3>7. QED
      BY <2>1, <3>4, <3>6
  <2>13. (\A v \in Worker : Good(task[v]))'
    BY <2>2, <2>11, <2>12, GoodAll
  <2>14. Shapes'
    <3>1. DOMAIN task' = Worker /\ DOMAIN family' = Family /\ DOMAIN secrets' = Family
      BY <1>5, <2>2, <2>4
    <3>2. ASSUME NEW f \in Family PROVE FamilyFine(f)'
      BY <2>6, <2>7 DEF FamilyFine, FamilyInv, Shapes, Alive, Dead
    <3>3. QED
      BY <2>2, <3>1, <3>2 DEF FamilyInv, Shapes
  <2>15. (\A f \in Family : Alive(f) /\ family[f].session \in Session => Listed(f, family[f].session))'
    <3>1. ASSUME NEW f \in Family, Alive(f)', family'[f].session \in Session
          PROVE  Listed(f, family[f].session)'
      <4>1. PICK r \in Session : r = family'[f].session
        BY <3>1
      <4>2. Listed(f, r)
        <5>1. CASE f = t.f
          BY <1>1, <2>2, <2>6, <2>7, <4>1, <5>1, Tops DEF Fine
        <5>2. CASE f # t.f
          BY <2>6, <2>8, <3>1, <4>1, <5>2 DEF FamilyInv
        <5>3. QED
          BY <5>1, <5>2
      <4>3. Listed(f, r)'
        BY <2>9, <4>2
      <4>4. QED
        BY <4>1, <4>3
    <3>2. QED
      BY <3>1
  <2>16. SpentFine'
    <3>1. SpentOnce' /\ \A e \in spent : e.family \in Family /\ e.family # t.f /\ family[e.family] # NoFamily
      BY <1>5, <2>2 DEF FamilyInv, SpentFine, SpentOnce
    <3>2. \A e \in spent' : e.family \in Family /\ family'[e.family] # NoFamily
      BY <2>2, <2>6, <3>1
    <3>3. ASSUME NEW f \in Family, Alive(f)'
          PROVE  /\ family'[f].current = secrets'[f] /\ secrets'[f] \in Nat
                 /\ \A e \in spent' : e.family = f => e.from \in Nat /\ e.from < secrets'[f]
      <4>1. CASE f = t.f
        BY <1>5, <2>2, <2>4, <2>6, <2>7, <3>1, <4>1
      <4>2. CASE f # t.f
        <5>1. Alive(f) /\ family'[f] = family[f] /\ secrets'[f] = secrets[f]
          BY <1>5, <2>4, <2>6, <2>8, <3>3, <4>2
        <5>2. QED
          BY <2>2, <5>1 DEF FamilyInv, SpentFine
      <4>3. QED
        BY <4>1, <4>2
    <3>4. QED
      BY <3>1, <3>2, <3>3 DEF SpentFine
  <2>17. (\A r \in finished : Done(r))'
    BY <2>2, <2>11, FinishedStays DEF FamilyInv
  <2>18. \A r \in takenBack' : TakenFine(r)'
    BY <2>2, <2>8 DEF FamilyInv, TakenFine, TakenDown
  <2>19. QED
    BY <2>2, <2>13, <2>14, <2>15, <2>16, <2>17, <2>18 DEF FamilyInv
<1>6. QED
  BY <1>3, <1>4, <1>5 DEF FoundSave

----------------------------------------------------------------------------
(* A round of the grant.                                                   *)
LEMMA UsesFine ==
  ASSUME NEW x, {"pc", "f"} \subseteq DOMAIN x, x.pc \in Uses, x.f \in Family
  PROVE  Fine(x)' /\ Ready(x)'
BY DEF Fine, Ready, Marked, Revoking, Taking, Closing, Starts, Uses, Redeems, Settles, Coded

LEMMA GivingFine ==
  ASSUME NEW tokens, NEW a, \A x \in tokens : x[1] \in Family
  PROVE  LET x == Giving(tokens, a) IN
           x.pc = "give" /\ x.pc \notin Bases /\ Bars(x)' /\ Fine(x)' /\ Ready(x)'
<1>1. PICK x : x = Giving(tokens, a)
  OBVIOUS
<1>2. {"pc", "tokens"} \subseteq DOMAIN x /\ x.pc = "give" /\ x.tokens = tokens
  BY <1>1 DEF Giving
<1>3. Fine(x)' /\ Ready(x)'
  BY <1>2 DEF Fine, Ready, Marked, Revoking, Taking, Closing, Starts, Uses, Redeems, Settles, Coded
<1>4. x.pc \notin Bases /\ Bars(x)'
  BY <1>2 DEF Bases, Coded, Redeems, Bars
<1>5. QED
  BY <1>1, <1>2, <1>3, <1>4

LEMMA RevokeOne ==
  ASSUME FamilyInv, NEW w \in Worker, task[w] # <<>>, Common(Top(w)), NEW f,
         Become(w, <<Revoke(f)>>), Still, Keeps
  PROVE  FamilyInv'
<1>1. PICK x : x = Revoke(f)
  OBVIOUS
<1>2. x.pc = "revoke.add" /\ Fine(x)' /\ Ready(x)' /\ Become(w, <<x>>)
  BY <1>1, RevokeFine
<1>3. Heir(Top(w), x) /\ Bars(x)'
  BY <1>2, CommonHeir DEF Bases, Coded, Redeems, Bars
<1>4. QED
  BY <1>2, <1>3, OneInv

LEMMA UseInv ==
  ASSUME FamilyInv, NEW w \in Worker, Give(w) \/ UseRead(w) \/ UseValid(w) \/ UseSelect(w) \/ UseEnter(w),
         UNCHANGED <<load, codeVars>>
  PROVE  FamilyInv'
<1>0. PICK t : t = Top(w)
  OBVIOUS
<1> USE <1>0
<1>1. task[w] # <<>> /\ t.pc \in Uses \cup {"give"}
  BY DEF Give, UseRead, UseValid, UseSelect, UseEnter, Doing, Uses
<1>2. "pc" \in DOMAIN t /\ Common(t) /\ (t.pc # "give" => "f" \in DOMAIN t /\ t.f \in Family)
  BY <1>1, Tops DEF Fine, Common, Revoking, Marked, Taking, Uses
<1>3. ASSUME t.pc # "give", NEW x, {"pc", "f"} \subseteq DOMAIN x, x.pc \in Uses, x.f = t.f,
             Become(w, <<x>>), Calm
      PROVE  FamilyInv'
  <2>1. Fine(x)' /\ Ready(x)'
    BY <1>2, <1>3, UsesFine
  <2>2. Heir(t, x) /\ Bars(x)'
    BY <1>2, <1>3, CommonHeir DEF Uses, Bases, Coded, Redeems, Bars
  <2>3. QED
    BY <1>1, <1>3, <2>1, <2>2, CalmStill, OneInv
<1>4. CASE Give(w)
  <2>1. /\ Return(w) /\ given' = given \cup t.tokens /\ t.pc = "give"
        /\ UNCHANGED <<load, family, begun, bySession, secrets, spent, finished, takenBack, voids, entering>>
    BY <1>4 DEF Give, Doing, familyVars, listVars, codeVars
  <2>2. \A x \in given' : x[1] \in Family
    BY <1>1, <2>1, Tops DEF Fine, FamilyInv
  <2>3. Still
    BY <2>1 DEF Still, Queued, Listed, Dead
  <2>4. \A r \in takenBack' : TakenFine(r)'
    BY <2>1 DEF FamilyInv, TakenFine, TakenDown, Dead
  <2>5. Keeps
    BY <2>1, <2>2, <2>4 DEF Keeps, FamilyInv, Shapes
  <2>6. QED
    BY <1>1, <1>2, <2>1, <2>3, <2>5, CommonReturn
<1>5. CASE UseRead(w)
  <2>1. Calm /\ t.pc = "use.read"
    BY <1>5 DEF UseRead, Doing, Calm, familyVars, listVars, outsideVars, codeVars
  <2>2. CASE Return(w)
    BY <1>1, <1>2, <2>1, <2>2, CalmStill, CommonReturn
  <2>3. CASE Become(w, <<Revoke(t.f)>>)
    BY <1>1, <1>2, <2>1, <2>3, CalmStill, RevokeOne
  <2>4. ASSUME NEW s, Become(w, <<[t EXCEPT !.pc = "use.valid", !.s = s]>>) PROVE FamilyInv'
    <3>1. PICK x : x = [t EXCEPT !.pc = "use.valid", !.s = s]
      OBVIOUS
    <3>2. {"pc", "f"} \subseteq DOMAIN x /\ x.pc = "use.valid" /\ x.f = t.f /\ Become(w, <<x>>)
      BY <1>2, <2>1, <2>4, <3>1
    <3>3. QED
      BY <1>3, <2>1, <3>2 DEF Uses
  <2>5. QED
    BY <1>5, <2>2, <2>3, <2>4 DEF UseRead
<1>6. CASE UseValid(w)
  <2>1. Calm /\ t.pc = "use.valid"
    BY <1>6 DEF UseValid, Doing, Calm, familyVars, listVars, codeVars
  <2>2. CASE Return(w)
    BY <1>1, <1>2, <2>1, <2>2, CalmStill, CommonReturn
  <2>3. ASSUME NEW a, Become(w, <<Record(t.f, a), [t EXCEPT !.pc = "use.select", !.a = a]>>) PROVE FamilyInv'
    <3>1. PICK x, y : x = Record(t.f, a) /\ y = [t EXCEPT !.pc = "use.select", !.a = a]
      OBVIOUS
    <3>2. {"pc", "f"} \subseteq DOMAIN y /\ y.pc = "use.select" /\ y.f = t.f /\ Become(w, <<x, y>>)
      BY <1>2, <2>1, <2>3, <3>1
    <3>3. x.pc = "record.link" /\ Fine(x)' /\ Ready(x)'
      BY <3>1, RecordFine
    <3>4. Fine(y)'
      BY <1>2, <2>1, <3>2, UsesFine DEF Uses
    <3>5. Over(x, y)' /\ Heir(t, y) /\ Bars(x)'
      BY <1>2, <3>2, <3>3, CommonHeir DEF Over, Waits, Bases, Coded, Redeems, Bars
    <3>6. QED
      BY <1>1, <2>1, <3>2, <3>3, <3>4, <3>5, CalmStill, TwoInv
  <2>4. QED
    BY <1>6, <2>2, <2>3 DEF UseValid
<1>7. ASSUME NEW p \in Uses, t.pc # "give", Calm, To(w, p) PROVE FamilyInv'
  <2>1. PICK x : x = [t EXCEPT !.pc = p]
    OBVIOUS
  <2>2. {"pc", "f"} \subseteq DOMAIN x /\ x.pc = p /\ x.f = t.f /\ Become(w, <<x>>)
    BY <1>2, <1>7, <2>1 DEF To
  <2>3. QED
    BY <1>3, <1>7, <2>2
<1>8. CASE UseSelect(w)
  <2>1. Calm /\ t.pc = "use.select"
    BY <1>8 DEF UseSelect, Doing, Calm, familyVars, listVars, codeVars
  <2>2. CASE Throw(w)
    BY <2>1, <2>2, CalmStill, ThrowInv
  <2>3. QED
    BY <1>7, <1>8, <2>1, <2>2 DEF UseSelect, Uses
<1>9. CASE UseEnter(w)
  <2>1. Calm /\ t.pc = "use.enter"
    BY <1>9 DEF UseEnter, Doing, Calm, familyVars, listVars, codeVars
  <2>2. CASE Return(w)
    BY <1>1, <1>2, <2>1, <2>2, CalmStill, CommonReturn
  <2>3. QED
    BY <1>7, <1>9, <2>1, <2>2 DEF UseEnter, Uses
<1>10. QED
  BY <1>4, <1>5, <1>6, <1>8, <1>9

(* Of the uses of one secret that race, the second finds it is current no  *)
(* more.                                                                   *)
LEMMA RotateInv ==
  ASSUME FamilyInv, NEW w \in Worker, UseRotate(w), UNCHANGED <<load, codeVars>>
  PROVE  FamilyInv'
<1>0. PICK t, next : t = Top(w) /\ next = secrets[t.f] + 1
  OBVIOUS
<1> USE <1>0
<1>1. /\ task[w] # <<>> /\ t.pc = "use.rotate"
      /\ UNCHANGED <<load, begun, bySession, finished, takenBack, given, voids, entering>>
  BY DEF UseRotate, Doing, listVars, outsideVars, codeVars
<1>2. Common(t) /\ t.f \in Family /\ DOMAIN family = Family /\ DOMAIN secrets = Family /\ DOMAIN task = Worker
  BY <1>1, Tops DEF Fine, Common, Revoking, Marked, Taking, Uses, FamilyInv, Shapes
<1>3. CASE Become(w, <<Revoke(t.f)>>) /\ UNCHANGED <<family, secrets, spent>>
  <2>1. Calm
    BY <1>1, <1>3 DEF Calm
  <2>2. QED
    BY <1>1, <1>2, <1>3, <2>1, CalmStill, RevokeOne
<1>4. CASE /\ Alive(t.f) /\ family[t.f].current = t.n
           /\ family' = [family EXCEPT ![t.f].current = next]
           /\ secrets' = [secrets EXCEPT ![t.f] = next]
           /\ spent' = spent \cup {[family |-> t.f, from |-> t.n, to |-> next]}
           /\ Become(w, <<Giving({<<t.f, next>>}, t.a)>>)
  <2>1. PICK x, s, n : x = Giving({<<t.f, next>>}, t.a) /\ s = task[w] /\ n = <<x>> \o Tail(s)
    OBVIOUS
  <2>2. x.pc = "give" /\ x.pc \notin Bases /\ Fine(x)' /\ Ready(x)'
    BY <1>2, <2>1, GivingFine
  <2>3. Good(s) /\ s # <<>> /\ s[1] = t /\ task' = [task EXCEPT ![w] = n]
    BY <1>1, <1>4, <2>1, Tops DEF Become
  <2>4. PICK a : a = <<x>>
    OBVIOUS
  <2>5. IsStack(a) /\ a # <<>> /\ a[1] = x /\ a[Len(a)] = x
    BY <2>4, Tuples
  <2>6. n # <<>> /\ Head(n) = x
    BY <2>1, <2>3, <2>4, <2>5, HeadPushed
  <2>7. /\ \A f \in Family : f # t.f => family'[f] = family[f] /\ secrets'[f] = secrets[f]
        /\ secrets'[t.f] = next
    BY <1>2, <1>4
  <2>8. /\ {"state", "current", "session"} \subseteq DOMAIN family[t.f]
        /\ family[t.f].current = secrets[t.f] /\ secrets[t.f] \in Nat /\ t.n = secrets[t.f]
        /\ \A e \in spent : e.family = t.f => e.from \in Nat /\ e.from < secrets[t.f]
    BY <1>2, <1>4, States DEF FamilyInv, Shapes, FamilyFine, SpentFine
  <2>9. /\ {"state", "current", "session"} \subseteq DOMAIN family'[t.f]
        /\ family'[t.f].current = next /\ family'[t.f].session = family[t.f].session
        /\ family'[t.f].state = family[t.f].state
    BY <1>2, <1>4, <2>8
  <2>10. \A f \in Family : (Dead(f)' <=> Dead(f)) /\ (Alive(f)' <=> Alive(f))
                           /\ (Alive(f) => family'[f].session = family[f].session)
    <3>1. Alive(t.f)' /\ ~Dead(t.f) /\ ~Dead(t.f)'
      BY <1>4, <2>9, States, StatesNext DEF Alive
    <3>2. QED
      BY <1>4, <2>7, <2>9, <3>1 DEF Alive, Dead
  <2>11. \A f \in Family, r \in Session : (Queued(f, r)' <=> Queued(f, r)) /\ (Listed(f, r)' <=> Listed(f, r))
    BY <1>1, <2>10 DEF Queued, Listed
  <2>12. ASSUME NEW f \in Family, NEW r, Passing(f, r)' PROVE Passing(f, r)
    <3>1. CASE Alive(f)' /\ (family[f].session = r)'
      BY <2>10, <3>1 DEF Passing
    <3>2. CASE \E v \in Worker : task'[v] # <<>> /\ Let(Head(task'[v]), f, r)
      <4>1. PICK v \in Worker : task'[v] # <<>> /\ Let(Head(task'[v]), f, r)
        BY <3>2
      <4>2. v # w
        BY <1>2, <2>2, <2>3, <2>6, <4>1 DEF Let
      <4>3. task'[v] = task[v]
        BY <1>2, <2>3, <4>2
      <4>4. QED
        BY <4>1, <4>3 DEF Passing, Top
    <3>3. QED
      BY <2>12, <3>1, <3>2 DEF Passing, Top
  <2>13. Grows
    BY <1>1, <2>10, <2>11, <2>12 DEF Grows
  <2>14. Good(n)'
    <3>1. Good(<<x>>)'
      BY <2>2, GoodOne
    <3>2. Good(a)' /\ Heir(s[1], a[Len(a)])
      BY <1>2, <2>2, <2>3, <2>4, <2>5, <3>1, CommonHeir
    <3>3. Good(a \o Tail(s))'
      BY <2>3, <2>5, <2>13, <3>2, GoodPush
    <3>4. QED
      BY <2>1, <2>4, <3>3
  <2>15. (\A v \in Worker : Good(task[v]))'
    BY <2>3, <2>13, <2>14, GoodAll
  <2>16. Shapes'
    <3>1. DOMAIN task' = Worker /\ DOMAIN family' = Family /\ DOMAIN secrets' = Family
      BY <1>2, <1>4, <2>3
    <3>2. ASSUME NEW f \in Family PROVE FamilyFine(f)'
      BY <1>4, <2>7, <2>9, <2>10 DEF FamilyFine, FamilyInv, Shapes, Alive, Dead
    <3>3. QED
      BY <1>1, <3>1, <3>2 DEF FamilyInv, Shapes
  <2>17. (\A f \in Family : Alive(f) /\ family[f].session \in Session => Listed(f, family[f].session))'
    <3>1. ASSUME NEW f \in Family, Alive(f)', family'[f].session \in Session
          PROVE  Listed(f, family[f].session)'
      <4>1. PICK r \in Session : r = family'[f].session
        BY <3>1
      <4>2. Listed(f, r)
        BY <2>10, <3>1, <4>1 DEF FamilyInv
      <4>3. Listed(f, r)'
        BY <2>11, <4>2
      <4>4. QED
        BY <4>1, <4>3
    <3>2. QED
      BY <3>1
  <2>18. SpentFine'
    <3>1. PICK e : e = [family |-> t.f, from |-> t.n, to |-> next]
      OBVIOUS
    <3>2. spent' = spent \cup {e} /\ e.family = t.f /\ e.from = secrets[t.f]
      BY <1>4, <2>8, <3>1
    <3>3. SpentOnce'
      <4>1. \A y \in spent : ~(y.family = t.f /\ y.from = e.from)
        BY <2>8, <3>2
      <4>2. QED
        BY <3>2, <4>1 DEF FamilyInv, SpentFine, SpentOnce
    <3>4. \A y \in spent' : y.family \in Family /\ family'[y.family] # NoFamily
      <4>1. family'[t.f] # NoFamily
        BY <1>2, <1>4, <2>10, StatesNext
      <4>2. QED
        BY <1>2, <2>7, <3>2, <4>1 DEF FamilyInv, SpentFine
    <3>5. ASSUME NEW f \in Family, Alive(f)'
          PROVE  /\ family'[f].current = secrets'[f] /\ secrets'[f] \in Nat
                 /\ \A y \in spent' : y.family = f => y.from \in Nat /\ y.from < secrets'[f]
      <4>1. CASE f = t.f
        BY <2>7, <2>8, <2>9, <3>2, <4>1
      <4>2. CASE f # t.f
        <5>1. Alive(f) /\ family'[f] = family[f] /\ secrets'[f] = secrets[f]
          BY <2>7, <2>10, <3>5, <4>2
        <5>2. QED
          BY <3>2, <4>2, <5>1 DEF FamilyInv, SpentFine
      <4>3. QED
        BY <4>1, <4>2
    <3>6. QED
      BY <3>3, <3>4, <3>5 DEF SpentFine
  <2>19. (\A r \in finished : Done(r))'
    BY <1>1, <2>13, FinishedStays DEF FamilyInv
  <2>20. \A r \in takenBack' : TakenFine(r)'
    BY <1>1, <2>10 DEF FamilyInv, TakenFine, TakenDown
  <2>21. QED
    BY <1>1, <2>15, <2>16, <2>17, <2>18, <2>19, <2>20 DEF FamilyInv
<1>5. QED
  BY <1>3, <1>4 DEF UseRotate

----------------------------------------------------------------------------
(* The close of a session, and what else ends families.                    *)
LEMMA ClosingFine ==
  ASSUME NEW x, {"pc", "s", "todo"} \subseteq DOMAIN x, x.pc \in Closing, x.s \in Session \ entering'
  PROVE  Fine(x)'
BY DEF Fine, Marked, Revoking, Taking, Closing, Starts, Uses, Redeems, Settles, Coded

(* What a session's close must cover is listed.                            *)
LEMMA PassingListed ==
  ASSUME FamilyInv, NEW f \in Family, NEW s \in Session, Passing(f, s)
  PROVE  Listed(f, s)
<1>1. CASE Alive(f) /\ family[f].session = s
  BY <1>1 DEF FamilyInv
<1>2. CASE \E v \in Worker : task[v] # <<>> /\ Let(Top(v), f, s)
  <2>1. PICK v \in Worker : task[v] # <<>> /\ Let(Top(v), f, s)
    BY <1>2
  <2>2. Fine(Top(v))
    BY <2>1, Tops
  <2>3. QED
    BY <2>1, <2>2 DEF Fine, Let
<1>3. QED
  BY <1>1, <1>2 DEF Passing

LEMMA CloseInv ==
  ASSUME FamilyInv, NEW w \in Worker, CloseMembers(w) \/ CloseEach(w) \/ CloseRest(w),
         UNCHANGED <<load, codeVars>>
  PROVE  FamilyInv'
<1>0. PICK t : t = Top(w)
  OBVIOUS
<1> USE <1>0
<1>1. /\ task[w] # <<>> /\ t.pc \in Closing
      /\ UNCHANGED <<load, family, begun, bySession, secrets, spent, takenBack, given, voids, entering>>
  BY DEF CloseMembers, CloseEach, CloseRest, Doing, Closing, familyVars, listVars, outsideVars, codeVars
<1>2. {"pc", "s", "todo"} \subseteq DOMAIN t /\ t.s \in Session \ entering /\ Common(t)
  BY <1>1, Tops DEF Fine, Common, Closing, Revoking, Marked, Taking
<1>3. t.pc \in {"close.each", "close.rest"} => Covered(t, {})
  BY <1>1, Tops DEF Ready
<1>4. ASSUME UNCHANGED finished PROVE Calm
  BY <1>1, <1>4 DEF Calm
<1>5. ASSUME NEW x, {"pc", "s", "todo"} \subseteq DOMAIN x, x.pc \in Closing, x.s = t.s
      PROVE  Fine(x)' /\ Heir(t, x) /\ Bars(x)'
  <2>1. x.pc \notin Bases /\ Bars(x)'
    BY <1>5 DEF Closing, Bars, Bases, Coded, Redeems
  <2>2. QED
    BY <1>1, <1>2, <1>5, <2>1, ClosingFine, CommonHeir
<1>6. ASSUME NEW x, {"pc", "s", "todo"} \subseteq DOMAIN x, x.pc \in {"close.each", "close.rest"},
             x.s = t.s, Covered(x, {}), Become(w, <<x>>), UNCHANGED finished
      PROVE  FamilyInv'
  <2>1. Fine(x)' /\ Heir(t, x) /\ Bars(x)'
    BY <1>5, <1>6 DEF Closing
  <2>2. Grows => Ready(x)'
    BY <1>2, <1>6, CoveredStays DEF Ready
  <2>3. QED
    BY <1>1, <1>4, <1>6, <2>1, <2>2, CalmStill, OneInv
<1>7. CASE CloseMembers(w)
  <2>1. PICK x : x = [t EXCEPT !.pc = "close.each", !.todo = bySession[t.s].held]
    OBVIOUS
  <2>2. /\ {"pc", "s", "todo"} \subseteq DOMAIN x /\ x.pc = "close.each" /\ x.s = t.s
        /\ x.todo = bySession[t.s].held
    BY <1>2, <2>1
  <2>3. Covered(x, {})
    BY <1>2, <2>2, PassingListed DEF Covered, Listed
  <2>4. QED
    BY <1>6, <1>7, <2>1, <2>2, <2>3 DEF CloseMembers, outsideVars
<1>8. CASE CloseEach(w)
  <2>1. t.pc = "close.each" /\ UNCHANGED finished
    BY <1>8 DEF CloseEach, Doing, outsideVars
  <2>2. ASSUME NEW f \in t.todo, Become(w, <<Revoke(f), [t EXCEPT !.todo = @ \ {f}]>>) PROVE FamilyInv'
    <3>1. PICK x, y : x = Revoke(f) /\ y = [t EXCEPT !.todo = @ \ {f}]
      OBVIOUS
    <3>2. /\ {"pc", "s", "todo"} \subseteq DOMAIN y /\ y.pc = "close.each" /\ y.s = t.s
          /\ y.todo = t.todo \ {f} /\ Become(w, <<x, y>>)
      BY <1>2, <2>1, <2>2, <3>1
    <3>3. x.pc = "revoke.add" /\ x.f = f /\ Fine(x)' /\ Ready(x)' /\ Bars(x)'
      BY <3>1, RevokeFine DEF Bars
    <3>4. Fine(y)' /\ Heir(t, y)
      BY <1>5, <3>2 DEF Closing
    <3>5. Covered(y, {f})
      BY <1>3, <2>1, <3>2 DEF Covered
    <3>6. Grows => Covered(y, {f})'
      BY <1>2, <3>2, <3>5, CoveredStays
    <3>7. Grows => Over(x, y)'
      BY <3>2, <3>3, <3>6 DEF Over, Bases, Coded, Redeems, Waits, Revoking
    <3>8. QED
      BY <1>1, <1>4, <2>1, <3>2, <3>3, <3>4, <3>7, CalmStill, TwoInv
  <2>3. CASE t.todo = {} /\ Become(w, <<[t EXCEPT !.pc = "close.rest", !.todo = bySession[t.s].awaiting]>>)
    <3>1. PICK x : x = [t EXCEPT !.pc = "close.rest", !.todo = bySession[t.s].awaiting]
      OBVIOUS
    <3>2. /\ {"pc", "s", "todo"} \subseteq DOMAIN x /\ x.pc = "close.rest" /\ x.s = t.s
          /\ x.todo = bySession[t.s].awaiting /\ Become(w, <<x>>)
      BY <1>2, <2>3, <3>1
    <3>3. Covered(x, {})
      BY <1>3, <2>1, <2>3, <3>2 DEF Covered, Queued
    <3>4. QED
      BY <1>6, <2>1, <3>2, <3>3
  <2>4. QED
    BY <1>8, <2>2, <2>3 DEF CloseEach
<1>9. CASE CloseRest(w)
  <2>1. t.pc = "close.rest"
    BY <1>9 DEF CloseRest, Doing
  <2>2. ASSUME NEW f \in t.todo, UNCHANGED finished,
               Become(w, <<Revoke(f), [pc |-> "session.settled", s |-> t.s, f |-> f],
                           [t EXCEPT !.todo = @ \ {f}]>>)
        PROVE  FamilyInv'
    <3>1. PICK x, y, z : /\ x = Revoke(f) /\ y = [pc |-> "session.settled", s |-> t.s, f |-> f]
                         /\ z = [t EXCEPT !.todo = @ \ {f}]
      OBVIOUS
    <3>2. /\ {"pc", "s", "todo"} \subseteq DOMAIN z /\ z.pc = "close.rest" /\ z.s = t.s
          /\ z.todo = t.todo \ {f} /\ Become(w, <<x, y, z>>)
      BY <1>2, <2>1, <2>2, <3>1
    <3>3. x.pc = "revoke.add" /\ x.f = f /\ Fine(x)' /\ Ready(x)' /\ Bars(x)'
      BY <3>1, RevokeFine DEF Bars
    <3>4. "pc" \in DOMAIN y /\ y.pc = "session.settled" /\ y.f = f
      BY <3>1
    <3>5. Fine(y)'
      BY <3>4 DEF Fine, Marked, Revoking, Taking, Closing, Starts, Uses, Redeems, Settles, Coded
    <3>6. Fine(z)' /\ Heir(t, z)
      BY <1>5, <3>2 DEF Closing
    <3>7. Covered(z, {f})
      BY <1>3, <2>1, <3>2 DEF Covered
    <3>8. Grows => Covered(z, {f})'
      BY <1>2, <3>2, <3>7, CoveredStays
    <3>9. Over(x, y)' /\ (Grows => Over(y, z)')
      BY <3>2, <3>3, <3>4, <3>8 DEF Over, Bases, Coded, Redeems, Waits, Revoking
    <3>10. QED
      BY <1>1, <1>4, <2>2, <3>2, <3>3, <3>5, <3>6, <3>9, CalmStill, ThreeInv
  <2>3. CASE t.todo = {} /\ finished' = finished \cup {t.s} /\ Return(w)
    <3>1. Done(t.s)
      BY <1>2, <1>3, <2>1, <2>3 DEF Done, Covered
    <3>2. \A s \in finished' : Done(s)
      BY <2>3, <3>1 DEF FamilyInv
    <3>3. Still
      BY <1>1 DEF Still, Queued, Listed, Dead
    <3>4. \A r \in takenBack' : TakenFine(r)'
      BY <1>1 DEF FamilyInv, TakenFine, TakenDown, Dead
    <3>5. Keeps
      BY <1>1, <3>2, <3>4 DEF Keeps, FamilyInv, Shapes
    <3>6. QED
      BY <1>1, <1>2, <2>3, <3>3, <3>5, CommonReturn
  <2>4. QED
    BY <1>9, <2>2, <2>3 DEF CloseRest
<1>10. QED
  BY <1>7, <1>8, <1>9

LEMMA EndInv ==
  ASSUME FamilyInv, NEW w \in Worker,
         SweepNext(w) \/ ControlRead(w) \/ AdoptRead(w) \/ AdoptCheck(w) \/ Rethrow(w) \/ Fails(w),
         UNCHANGED <<load, codeVars>>
  PROVE  FamilyInv'
<1>0. PICK t : t = Top(w)
  OBVIOUS
<1> USE <1>0
<1>1. task[w] # <<>>
  BY DEF SweepNext, ControlRead, AdoptRead, AdoptCheck, Rethrow, Fails, Doing
<1>2. Calm
  BY DEF SweepNext, ControlRead, AdoptRead, AdoptCheck, Rethrow, Fails, Calm, familyVars, listVars,
         outsideVars, codeVars
<1>3. Still /\ Keeps /\ "pc" \in DOMAIN t
  BY <1>1, <1>2, CalmStill, Tops DEF Fine
<1>4. CASE Rethrow(w) \/ Fails(w)
  BY <1>3, <1>4, ThrowInv DEF Rethrow, Fails
<1>5. ASSUME t.pc \in {"sweep", "control.read", "adopt.read", "adopt.check"} PROVE Common(t)
  BY <1>5 DEF Common, Revoking, Marked, Taking
<1>6. CASE SweepNext(w)
  <2>1. t.pc = "sweep"
    BY <1>6 DEF SweepNext, Doing
  <2>2. ASSUME NEW f, Become(w, <<Revoke(f), [t EXCEPT !.todo = @ \ {f}]>>) PROVE FamilyInv'
    <3>1. PICK x, y : x = Revoke(f) /\ y = [t EXCEPT !.todo = @ \ {f}]
      OBVIOUS
    <3>2. Become(w, <<x, y>>) /\ "pc" \in DOMAIN y /\ y.pc = "sweep"
      BY <1>3, <2>1, <2>2, <3>1
    <3>3. x.pc = "revoke.add" /\ Fine(x)' /\ Ready(x)'
      BY <3>1, RevokeFine
    <3>4. Fine(y)'
      BY <3>2, LooseFine DEF Loose
    <3>5. Over(x, y)' /\ Heir(t, y) /\ Bars(x)'
      BY <1>5, <2>1, <3>2, <3>3, CommonHeir DEF Over, Waits, Bases, Coded, Redeems, Bars
    <3>6. QED
      BY <1>1, <1>3, <3>2, <3>3, <3>4, <3>5, TwoInv
  <2>3. QED
    BY <1>1, <1>3, <1>5, <1>6, <2>1, <2>2, CommonReturn DEF SweepNext
<1>7. CASE ControlRead(w)
  <2>1. Common(t)
    BY <1>5, <1>7 DEF ControlRead, Doing
  <2>2. QED
    BY <1>1, <1>3, <1>7, <2>1, CommonReturn, RevokeOne DEF ControlRead
<1>8. CASE AdoptRead(w)
  <2>1. Common(t) /\ t.pc = "adopt.read"
    BY <1>5, <1>8 DEF AdoptRead, Doing
  <2>2. CASE Return(w)
    BY <1>1, <1>3, <2>1, <2>2, CommonReturn
  <2>3. CASE Become(w, <<Record(t.f, t.a), [t EXCEPT !.pc = "adopt.check"]>>)
    <3>1. PICK x, y : x = Record(t.f, t.a) /\ y = [t EXCEPT !.pc = "adopt.check"]
      OBVIOUS
    <3>2. /\ Become(w, <<x, y>>) /\ "pc" \in DOMAIN y /\ y.pc = "adopt.check"
          /\ x.pc = "record.link" /\ "pc" \in DOMAIN x
      BY <1>3, <2>3, <3>1 DEF Record
    <3>3. QED
      BY <1>1, <1>3, <2>1, <3>2, CallInv DEF Loose, Waits
  <2>4. QED
    BY <1>8, <2>2, <2>3 DEF AdoptRead
<1>9. CASE AdoptCheck(w)
  <2>1. Common(t)
    BY <1>5, <1>9 DEF AdoptCheck, Doing
  <2>2. CASE Become(w, <<Giving({}, t.a)>>)
    <3>1. PICK x : x = Giving({}, t.a)
      OBVIOUS
    <3>2. x.pc \notin Bases /\ Bars(x)' /\ Fine(x)' /\ Ready(x)'
      BY <3>1, GivingFine
    <3>3. Become(w, <<x>>) /\ Heir(t, x)
      BY <2>1, <2>2, <3>1, <3>2, CommonHeir
    <3>4. QED
      BY <1>1, <1>3, <3>2, <3>3, OneInv
  <2>3. CASE Become(w, <<Revoke(t.f)>>)
    BY <1>1, <1>3, <2>1, <2>3, RevokeOne
  <2>4. QED
    BY <1>9, <2>2, <2>3 DEF AdoptCheck
<1>10. QED
  BY <1>4, <1>6, <1>7, <1>8, <1>9

----------------------------------------------------------------------------
(* What a worker takes up, and what a crash ends.                          *)
LEMMA BegunOne ==
  ASSUME FamilyInv, NEW w \in Worker, NEW x, task' = [task EXCEPT ![w] = <<x>>],
         Still, Keeps, Fine(x)', Ready(x)', Bars(x)'
  PROVE  FamilyInv'
<1>0. PICK n : n = <<x>>
  OBVIOUS
<1>1. n[1] = x /\ n # <<>>
  BY <1>0, Tuples
<1>2. Good(<<x>>)'
  BY GoodOne
<1>3. Good(n)'
  BY <1>0, <1>2
<1>4. QED
  BY <1>0, <1>1, <1>3, NewInv

LEMMA CrashInv ==
  ASSUME FamilyInv, NEW w \in Worker, Crash(w), UNCHANGED <<load, codeVars>>
  PROVE  FamilyInv'
<1>1. Calm
  BY DEF Crash, Calm, familyVars, listVars, outsideVars, codeVars
<1>2. PICK n : n = <<>>
  OBVIOUS
<1>3. task' = [task EXCEPT ![w] = n]
  BY <1>2 DEF Crash
<1>4. Good(n)'
  BY <1>2, GoodNone
<1>5. QED
  BY <1>1, <1>2, <1>3, <1>4, CalmStill, NewInv

LEMMA BeginInv ==
  ASSUME FamilyInv, NEW w \in Worker, Beginning(w), UNCHANGED <<load, codeVars>>
  PROVE  FamilyInv'
<1>1. Calm
  BY DEF Beginning, BeginStart, BeginUse, BeginClose, BeginSweep, BeginControl, BeginAdopt, Calm,
         familyVars, listVars, outsideVars, codeVars
<1>2. Still /\ Keeps
  BY <1>1, CalmStill
<1>3. CASE BeginStart(w)
  <2>1. PICK f \in load.families \ drawn, a \in Access \ drawn :
          Begin(w, "start", <<Found(f, NoSession, a), Giving({<<f, 1>>}, a)>>)
    BY <1>3 DEF BeginStart
  <2>2. PICK x, y, n : x = Found(f, NoSession, a) /\ y = Giving({<<f, 1>>}, a) /\ n = <<x, y>>
    OBVIOUS
  <2>3. task' = [task EXCEPT ![w] = n] /\ n[1] = x /\ n # <<>>
    BY <2>1, <2>2, Tuples DEF Begin
  <2>4. load \in Loads
    BY DEF FamilyInv, Shapes
  <2>5. f \in Family /\ NoSession \notin Session
    BY <2>4, FamiliesAssumption
  <2>6. {"pc", "f", "s"} \subseteq DOMAIN x /\ x.pc = "found.save" /\ x.s = NoSession
    BY <2>2 DEF Found
  <2>7. Fine(x)' /\ Ready(x)' /\ Bars(x)'
    BY <2>5, <2>6, StartsFine DEF Starts, Bars
  <2>8. \A g \in {<<f, 1>>} : g[1] \in Family
    BY <2>5
  <2>9. y.pc = "give" /\ Fine(y)'
    BY <2>2, <2>8, GivingFine DEF Giving
  <2>10. Over(x, y)'
    BY <2>6, <2>9 DEF Over, Waits, Bases, Coded, Redeems
  <2>11. Good(<<x, y>>)'
    BY <2>7, <2>9, <2>10, GoodTwo
  <2>12. Good(n)'
    BY <2>2, <2>11
  <2>13. QED
    BY <1>2, <2>3, <2>7, <2>12, NewInv
<1>4. CASE BeginUse(w)
  <2>1. PICK t \in given : Begin(w, "use", <<Using(t[1], t[2])>>)
    BY <1>4 DEF BeginUse
  <2>2. PICK x : x = Using(t[1], t[2])
    OBVIOUS
  <2>3. {"pc", "f"} \subseteq DOMAIN x /\ x.pc = "use.read" /\ x.f \in Family
    BY <2>2 DEF Using, FamilyInv
  <2>4. Fine(x)' /\ Ready(x)' /\ Bars(x)'
    BY <2>3 DEF Fine, Ready, Bars, Marked, Revoking, Taking, Closing, Starts, Uses, Redeems, Settles, Coded
  <2>5. QED
    BY <1>2, <2>1, <2>2, <2>4, BegunOne DEF Begin
<1>5. CASE BeginClose(w)
  <2>1. PICK s \in Session :
          /\ entering' = entering \ {s}
          /\ Begin(w, "close", <<[pc |-> "close.members", s |-> s, todo |-> {}]>>)
    BY <1>5 DEF BeginClose
  <2>2. PICK x : x = [pc |-> "close.members", s |-> s, todo |-> {}]
    OBVIOUS
  <2>3. {"pc", "s", "todo"} \subseteq DOMAIN x /\ x.pc = "close.members" /\ x.s \in Session \ entering'
    BY <2>1, <2>2
  <2>4. Fine(x)' /\ Ready(x)' /\ Bars(x)'
    BY <2>3, ClosingFine DEF Ready, Bars, Closing
  <2>5. QED
    BY <1>2, <2>1, <2>2, <2>4, BegunOne DEF Begin
<1>6. ASSUME NEW x, task' = [task EXCEPT ![w] = <<x>>], "pc" \in DOMAIN x, x.pc \in Loose
      PROVE  FamilyInv'
  BY <1>2, <1>6, BegunOne, LooseFine DEF Bars, Loose
<1>7. CASE BeginSweep(w)
  <2>1. PICK x : x = [pc |-> "sweep", todo |-> settles]
    OBVIOUS
  <2>2. "pc" \in DOMAIN x /\ x.pc = "sweep" /\ x.pc \in Loose
    BY <2>1 DEF Loose
  <2>3. task' = [task EXCEPT ![w] = <<x>>]
    BY <1>7, <2>1 DEF BeginSweep, Begin
  <2>4. QED
    BY <1>6, <2>2, <2>3
<1>8. CASE BeginControl(w)
  <2>1. PICK t \in given : Begin(w, "control", <<[pc |-> "control.read", f |-> t[1]]>>)
    BY <1>8 DEF BeginControl
  <2>2. PICK x : x = [pc |-> "control.read", f |-> t[1]]
    OBVIOUS
  <2>3. "pc" \in DOMAIN x /\ x.pc = "control.read" /\ x.pc \in Loose
    BY <2>2 DEF Loose
  <2>4. task' = [task EXCEPT ![w] = <<x>>]
    BY <2>1, <2>2 DEF Begin
  <2>5. QED
    BY <1>6, <2>3, <2>4
<1>9. CASE BeginAdopt(w)
  <2>1. PICK b \in held, a \in Access \ drawn :
          Begin(w, "adopt", <<[pc |-> "adopt.read", f |-> link[b], a |-> a]>>)
    BY <1>9 DEF BeginAdopt
  <2>2. PICK x : x = [pc |-> "adopt.read", f |-> link[b], a |-> a]
    OBVIOUS
  <2>3. "pc" \in DOMAIN x /\ x.pc = "adopt.read" /\ x.pc \in Loose
    BY <2>2 DEF Loose
  <2>4. task' = [task EXCEPT ![w] = <<x>>]
    BY <2>1, <2>2 DEF Begin
  <2>5. QED
    BY <1>6, <2>3, <2>4
<1>10. QED
  BY <1>3, <1>4, <1>5, <1>7, <1>8, <1>9 DEF Beginning

----------------------------------------------------------------------------
(* Codes: their redemption, and what voids one.                            *)
LEMMA CodedFine ==
  ASSUME NEW x, {"pc", "c"} \subseteq DOMAIN x, x.c \in Redemption,
         x.pc \in Coded \cup {"settle.add", "settle.mark", "settle.deny"},
         x.pc \in Redeems => "tokens" \in DOMAIN x /\ \A y \in x.tokens : y[1] \in Family
  PROVE  Fine(x)' /\ Ready(x)' /\ Bars(x)'
BY DEF Fine, Ready, Bars, Marked, Revoking, Taking, Closing, Starts, Uses, Redeems, Settles, Coded

LEMMA CodeStill ==
  ASSUME FamilyInv,
         UNCHANGED <<load, family, begun, bySession, secrets, spent, finished, takenBack, entering>>,
         \A x \in given' : x[1] \in Family, voids' \subseteq Redemption
  PROVE  Still /\ Keeps
<1>1. Still
  BY DEF Still, Queued, Listed, Dead
<1>2. \A r \in takenBack' : TakenFine(r)'
  BY DEF FamilyInv, TakenFine, TakenDown, Dead
<1>3. QED
  BY <1>1, <1>2 DEF Keeps, FamilyInv, Shapes

(* A code's settling is called.                                            *)
LEMMA SettlingFine ==
  ASSUME NEW c \in Redemption
  PROVE  LET x == Settling(c) IN
           x.pc = "settle.add" /\ x.pc \notin Bases /\ Fine(x)' /\ Ready(x)' /\ Bars(x)'
<1>1. PICK x : x = Settling(c)
  OBVIOUS
<1>2. {"pc", "c"} \subseteq DOMAIN x /\ x.pc = "settle.add" /\ x.c = c
  BY <1>1 DEF Settling
<1>3. Fine(x)' /\ Ready(x)' /\ Bars(x)' /\ x.pc \notin Bases
  BY <1>2, CodedFine DEF Redeems, Coded, Bases
<1>4. QED
  BY <1>1, <1>2, <1>3

LEMMA SettleInv ==
  ASSUME FamilyInv, NEW w \in Worker, SettleStep(w), UNCHANGED load
  PROVE  FamilyInv'
<1>0. PICK t : t = Top(w)
  OBVIOUS
<1> USE <1>0
<1>1. task[w] # <<>> /\ t.pc \in Settles
  BY DEF SettleStep, SettleAdd, SettleMark, SettleDeny, SettleDone, Doing, Settles
<1>2. {"pc", "c"} \subseteq DOMAIN t /\ t.c \in Redemption /\ Common(t)
  BY <1>1, Tops DEF Fine, Common, Settles, Revoking, Marked, Taking
<1>3. voids' \subseteq Redemption
  BY <1>2 DEF SettleStep, SettleAdd, SettleMark, SettleDeny, SettleDone, FamilyInv, codeVars
<1>4. UNCHANGED <<family, begun, bySession, secrets, spent, finished, takenBack, entering, given>>
  BY DEF SettleStep, SettleAdd, SettleMark, SettleDeny, SettleDone, familyVars, listVars, outsideVars
<1>5. Still /\ Keeps
  BY <1>3, <1>4, CodeStill DEF FamilyInv
<1>6. CASE Return(w)
  BY <1>1, <1>2, <1>5, <1>6, CommonReturn
<1>7. ASSUME NEW p \in {"settle.mark", "settle.deny"}, Become(w, <<[t EXCEPT !.pc = p]>>)
      PROVE  FamilyInv'
  <2>1. PICK x : x = [t EXCEPT !.pc = p]
    OBVIOUS
  <2>2. {"pc", "c"} \subseteq DOMAIN x /\ x.pc = p /\ x.c = t.c
    BY <1>2, <2>1
  <2>3. Fine(x)' /\ Ready(x)' /\ Bars(x)' /\ x.pc \notin Bases
    BY <1>2, <2>2, CodedFine DEF Redeems, Coded, Bases
  <2>4. Heir(t, x)
    BY <1>2, <2>3, CommonHeir
  <2>5. QED
    BY <1>1, <1>5, <1>7, <2>1, <2>3, <2>4, OneInv
<1>8. CASE Become(w, <<TakingBack(t.c), [t EXCEPT !.pc = "settle.done"]>>)
  <2>1. PICK x, y : x = TakingBack(t.c) /\ y = [t EXCEPT !.pc = "settle.done"]
    OBVIOUS
  <2>2. {"pc", "c"} \subseteq DOMAIN y /\ y.pc = "settle.done" /\ y.c = t.c
    BY <1>2, <2>1
  <2>3. {"pc", "r"} \subseteq DOMAIN x /\ x.pc = "take.mark" /\ x.r = t.c
    BY <2>1 DEF TakingBack
  <2>4. Fine(x)' /\ Ready(x)' /\ Bars(x)'
    BY <1>2, <2>3, TakingFine DEF Taking, Bars
  <2>5. Over(x, y)' /\ Heir(t, y)
    BY <1>2, <2>2, <2>3, CommonHeir DEF Over, Waits, Taking, Bases, Coded, Redeems
  <2>6. Fine(y)'
    BY <1>2, <2>2 DEF Fine, Marked, Revoking, Taking, Closing, Starts, Uses, Redeems, Settles, Coded
  <2>7. Become(w, <<x, y>>)
    BY <1>8, <2>1
  <2>8. QED
    BY <1>1, <1>5, <2>4, <2>5, <2>6, <2>7, TwoInv
<1>9. QED
  BY <1>6, <1>7, <1>8
  DEF SettleStep, SettleAdd, SettleMark, SettleDeny, SettleDone, To

LEMMA VoidsInv ==
  ASSUME FamilyInv, NEW w \in Worker, VoidsNext(w), UNCHANGED load
  PROVE  FamilyInv'
<1>0. PICK t : t = Top(w)
  OBVIOUS
<1> USE <1>0
<1>1. task[w] # <<>> /\ t.pc = "voids" /\ Calm
  BY DEF VoidsNext, Doing, Calm, familyVars, listVars, outsideVars, codeVars
<1>2. {"pc", "todo"} \subseteq DOMAIN t /\ t.todo \subseteq Redemption /\ Common(t)
  BY <1>1, Tops DEF Fine, Common, Revoking, Marked, Taking
<1>3. Still /\ Keeps
  BY <1>1, CalmStill
<1>4. ASSUME NEW c \in t.todo, Become(w, <<Settling(c), [t EXCEPT !.todo = @ \ {c}]>>) PROVE FamilyInv'
  <2>1. PICK x, y : x = Settling(c) /\ y = [t EXCEPT !.todo = @ \ {c}]
    OBVIOUS
  <2>2. {"pc", "todo"} \subseteq DOMAIN y /\ y.pc = "voids" /\ y.todo \subseteq Redemption
    BY <1>1, <1>2, <2>1
  <2>3. x.pc \notin Bases /\ Fine(x)' /\ Ready(x)' /\ Bars(x)'
    BY <1>2, <2>1, SettlingFine
  <2>4. Fine(y)' /\ Over(x, y)' /\ Heir(t, y)
    BY <1>1, <1>2, <2>2, <2>3, CommonHeir
    DEF Fine, Over, Waits, Bases, Marked, Revoking, Taking, Closing, Starts, Uses, Redeems, Settles, Coded
  <2>5. Become(w, <<x, y>>)
    BY <1>4, <2>1
  <2>6. QED
    BY <1>1, <1>3, <2>3, <2>4, <2>5, TwoInv
<1>5. CASE Return(w)
  BY <1>1, <1>2, <1>3, <1>5, CommonReturn
<1>6. QED
  BY <1>4, <1>5 DEF VoidsNext

LEMMA RedeemInv ==
  ASSUME FamilyInv, NEW w \in Worker, RedeemStep(w), UNCHANGED load
  PROVE  FamilyInv'
<1>0. PICK t : t = Top(w)
  OBVIOUS
<1> USE <1>0
<1>1. task[w] # <<>> /\ t.pc \in Coded
  BY DEF RedeemStep, CodeIssue, RedeemUse, RedeemEnter, RedeemPin, RedeemIssue, RedeemNote,
         RedeemSession, RedeemCheck, RedeemAdd, RedeemHooks, RedeemVoid, Doing, Coded, Redeems
<1>2. /\ {"pc", "c"} \subseteq DOMAIN t /\ t.c \in Redemption /\ Common(t) /\ t.pc \in Bases
      /\ t.pc \in Redeems => "tokens" \in DOMAIN t /\ \A y \in t.tokens : y[1] \in Family
  BY <1>1, Tops DEF Fine, Common, Coded, Redeems, Revoking, Marked, Taking, Bases
<1>3. \A x \in given' : x[1] \in Family
  BY <1>2 DEF RedeemStep, CodeIssue, RedeemUse, RedeemEnter, RedeemPin, RedeemIssue, RedeemNote,
         RedeemSession, RedeemCheck, RedeemAdd, RedeemHooks, RedeemVoid, Doing, Redeems, FamilyInv, outsideVars
<1>4. UNCHANGED <<family, begun, bySession, secrets, spent, finished, takenBack, entering, voids>>
  BY DEF RedeemStep, CodeIssue, RedeemUse, RedeemEnter, RedeemPin, RedeemIssue, RedeemNote,
         RedeemSession, RedeemCheck, RedeemAdd, RedeemHooks, RedeemVoid,
         familyVars, listVars, outsideVars, codeVars
<1>5. Still /\ Keeps
  BY <1>3, <1>4, CodeStill DEF FamilyInv
<1>6. CASE Return(w)
  BY <1>1, <1>2, <1>5, <1>6, CommonReturn
<1>7. ASSUME NEW x, Become(w, <<x>>), {"pc", "c"} \subseteq DOMAIN x, x.c = t.c, x.pc \in Redeems,
             "tokens" \in DOMAIN x, \A y \in x.tokens : y[1] \in Family
      PROVE  FamilyInv'
  <2>1. Fine(x)' /\ Ready(x)' /\ Bars(x)'
    BY <1>2, <1>7, CodedFine DEF Coded
  <2>2. Heir(t, x)
    BY <1>2, CommonHeir
  <2>3. QED
    BY <1>1, <1>5, <1>7, <2>1, <2>2, OneInv
<1>8. ASSUME NEW p \in Redeems, t.pc \in Redeems, Become(w, <<[t EXCEPT !.pc = p]>>) PROVE FamilyInv'
  <2>1. PICK x : x = [t EXCEPT !.pc = p]
    OBVIOUS
  <2>2. {"pc", "c"} \subseteq DOMAIN x /\ x.c = t.c /\ x.pc = p /\ "tokens" \in DOMAIN x
        /\ x.tokens = t.tokens
    BY <1>2, <1>8, <2>1
  <2>3. QED
    BY <1>2, <1>7, <1>8, <2>1, <2>2
<1>9. CASE Become(w, <<Settling(t.c)>>)
  <2>1. PICK x : x = Settling(t.c)
    OBVIOUS
  <2>2. Fine(x)' /\ Ready(x)' /\ Bars(x)'
    BY <1>2, <2>1, SettlingFine
  <2>3. QED
    BY <1>1, <1>2, <1>5, <1>9, <2>1, <2>2, CommonHeir, OneInv
<1>10. CASE CodeIssue(w) \/ RedeemHooks(w)
  BY <1>6, <1>10 DEF CodeIssue, RedeemHooks
<1>11. CASE RedeemUse(w)
  <2>1. ASSUME NEW s, Become(w, <<Redeeming(t.c, s)>>) PROVE FamilyInv'
    <3>1. PICK x : x = Redeeming(t.c, s)
      OBVIOUS
    <3>2. /\ {"pc", "c", "tokens"} \subseteq DOMAIN x /\ x.pc = "redeem.enter" /\ x.c = t.c
          /\ x.tokens = {}
      BY <3>1 DEF Redeeming
    <3>3. QED
      BY <1>7, <2>1, <3>1, <3>2 DEF Redeems
  <2>2. QED
    BY <1>6, <1>9, <1>11, <2>1 DEF RedeemUse
<1>12. CASE RedeemEnter(w) \/ RedeemPin(w) \/ RedeemSession(w)
  BY <1>6, <1>8, <1>12 DEF RedeemEnter, RedeemPin, RedeemSession, Doing, Redeems, To
<1>13. CASE RedeemIssue(w)
  <2>1. ASSUME NEW a, Become(w, <<[t EXCEPT !.pc = "redeem.note", !.a = a]>>) PROVE FamilyInv'
    <3>1. PICK x : x = [t EXCEPT !.pc = "redeem.note", !.a = a]
      OBVIOUS
    <3>2. t.pc \in Redeems
      BY <1>13 DEF RedeemIssue, Doing, Redeems
    <3>3. /\ {"pc", "c", "tokens"} \subseteq DOMAIN x /\ x.pc = "redeem.note" /\ x.c = t.c
          /\ x.tokens = t.tokens
      BY <1>2, <3>1, <3>2
    <3>4. QED
      BY <1>2, <1>7, <2>1, <3>1, <3>2, <3>3 DEF Redeems
  <2>2. QED
    BY <1>6, <1>13, <2>1 DEF RedeemIssue
<1>14. CASE RedeemNote(w)
  <2>1. ASSUME NEW v, Become(w, <<[t EXCEPT !.pc = "redeem.session", !.void = v]>>) PROVE FamilyInv'
    <3>1. PICK x : x = [t EXCEPT !.pc = "redeem.session", !.void = v]
      OBVIOUS
    <3>2. t.pc \in Redeems
      BY <1>14 DEF RedeemNote, Doing, Redeems
    <3>3. /\ {"pc", "c", "tokens"} \subseteq DOMAIN x /\ x.pc = "redeem.session" /\ x.c = t.c
          /\ x.tokens = t.tokens
      BY <1>2, <3>1, <3>2
    <3>4. QED
      BY <1>2, <1>7, <2>1, <3>1, <3>2, <3>3 DEF Redeems
  <2>2. QED
    BY <1>6, <1>14, <2>1 DEF RedeemNote
<1>15. CASE RedeemCheck(w)
  BY <1>8, <1>9, <1>15 DEF RedeemCheck, Doing, Redeems, To
<1>16. CASE RedeemAdd(w)
  <2>1. t.pc = "redeem.add" /\ t.pc \in Redeems
    BY <1>16 DEF RedeemAdd, Doing, Redeems
  <2>2. ASSUME NEW f \in load.families,
               Become(w, <<Starting(t.c, f, t.s, t.a), [t EXCEPT !.pc = "redeem.hooks", !.tokens = {<<f, 1>>}]>>)
        PROVE  FamilyInv'
    <3>1. PICK x, y : /\ x = Starting(t.c, f, t.s, t.a)
                      /\ y = [t EXCEPT !.pc = "redeem.hooks", !.tokens = {<<f, 1>>}]
      OBVIOUS
    <3>2. /\ {"pc", "c", "tokens"} \subseteq DOMAIN y /\ y.pc = "redeem.hooks" /\ y.c = t.c
          /\ y.tokens = {<<f, 1>>}
      BY <1>2, <2>1, <3>1
    <3>3. load \in Loads
      BY DEF FamilyInv, Shapes
    <3>4. \A z \in y.tokens : z[1] \in Family
      BY <2>2, <3>2, <3>3, FamiliesAssumption
    <3>5. Fine(y)' /\ Heir(t, y)
      BY <1>2, <3>2, <3>4, CodedFine, CommonHeir DEF Coded, Redeems
    <3>6. {"pc", "f", "s"} \subseteq DOMAIN x /\ x.pc = "start.name"
      BY <3>1 DEF Starting
    <3>7. Fine(x)' /\ Ready(x)' /\ Bars(x)' /\ Over(x, y)'
      BY <3>2, <3>6, StartsFine DEF Starts, Bars, Over, Waits, Bases, Coded, Redeems
    <3>8. Become(w, <<x, y>>)
      BY <2>2, <3>1
    <3>9. QED
      BY <1>1, <1>5, <3>5, <3>7, <3>8, TwoInv
  <2>3. QED
    BY <1>8, <1>16, <2>1, <2>2 DEF RedeemAdd, Redeems, To
<1>17. CASE RedeemVoid(w)
  <2>1. PICK x, y : x = Settling(t.c) /\ y = Throwing
    OBVIOUS
  <2>2. x.pc \notin Bases /\ Fine(x)' /\ Ready(x)' /\ Bars(x)'
    BY <1>2, <2>1, SettlingFine
  <2>3. "pc" \in DOMAIN y /\ y.pc = "throw"
    BY <2>1 DEF Throwing
  <2>4. Fine(y)' /\ Over(x, y)' /\ Heir(t, y)
    BY <1>2, <2>2, <2>3, LooseFine, CommonHeir DEF Over, Waits, Loose
  <2>5. Become(w, <<x, y>>)
    BY <1>17, <2>1 DEF RedeemVoid
  <2>6. QED
    BY <1>1, <1>5, <2>2, <2>4, <2>5, TwoInv
<1>18. QED
  BY <1>10, <1>11, <1>12, <1>13, <1>14, <1>15, <1>16, <1>17 DEF RedeemStep

LEMMA BeginCodeInv ==
  ASSUME FamilyInv, NEW w \in Worker, BeginCode(w) \/ BeginRedeem(w) \/ BeginVoids(w), UNCHANGED load
  PROVE  FamilyInv'
<1>1. Calm
  BY DEF BeginCode, BeginRedeem, BeginVoids, Calm, familyVars, listVars, outsideVars, codeVars
<1>2. Still /\ Keeps
  BY <1>1, CalmStill
<1>3. ASSUME NEW x, {"pc", "c"} \subseteq DOMAIN x, x.pc \in {"code.save", "redeem.use"},
             x.c \in Redemption, task' = [task EXCEPT ![w] = <<x>>]
      PROVE  FamilyInv'
  <2>1. Fine(x)' /\ Ready(x)' /\ Bars(x)'
    BY <1>3, CodedFine DEF Coded, Redeems
  <2>2. QED
    BY <1>2, <1>3, <2>1, BegunOne
<1>4. CASE BeginCode(w)
  <2>1. PICK c \in load.codes, s \in entering :
          Begin(w, "code", <<[pc |-> "code.save", c |-> c, s |-> s]>>)
    BY <1>4 DEF BeginCode
  <2>2. load \in Loads
    BY DEF FamilyInv, Shapes
  <2>3. c \in Redemption
    BY <2>2, FamiliesAssumption
  <2>4. PICK x : x = [pc |-> "code.save", c |-> c, s |-> s]
    OBVIOUS
  <2>5. task' = [task EXCEPT ![w] = <<x>>] /\ {"pc", "c"} \subseteq DOMAIN x
        /\ x.pc = "code.save" /\ x.c \in Redemption
    BY <2>1, <2>3, <2>4 DEF Begin
  <2>6. QED
    BY <1>3, <2>5
<1>5. CASE BeginRedeem(w)
  <2>1. PICK c \in Redemption : Begin(w, "redeem", <<[pc |-> "redeem.use", c |-> c]>>)
    BY <1>5 DEF BeginRedeem
  <2>2. PICK x : x = [pc |-> "redeem.use", c |-> c]
    OBVIOUS
  <2>3. task' = [task EXCEPT ![w] = <<x>>] /\ {"pc", "c"} \subseteq DOMAIN x
        /\ x.pc = "redeem.use" /\ x.c \in Redemption
    BY <2>1, <2>2 DEF Begin
  <2>4. QED
    BY <1>3, <2>3
<1>6. CASE BeginVoids(w)
  <2>1. PICK x : x = [pc |-> "voids", todo |-> voids]
    OBVIOUS
  <2>2. /\ task' = [task EXCEPT ![w] = <<x>>]
        /\ {"pc", "todo"} \subseteq DOMAIN x /\ x.pc = "voids" /\ x.todo \subseteq Redemption
    BY <1>6, <2>1 DEF BeginVoids, Begin, FamilyInv
  <2>3. Fine(x)' /\ Ready(x)' /\ Bars(x)'
    BY <2>2 DEF Fine, Ready, Bars, Marked, Revoking, Taking, Closing, Starts, Uses, Redeems, Settles, Coded
  <2>4. QED
    BY <1>2, <2>2, <2>3, BegunOne
<1>7. QED
  BY <1>4, <1>5, <1>6

(* No worker moves: a code's record ends, or nothing happens.              *)
LEMMA IdleInv ==
  ASSUME FamilyInv, UNCHANGED task, Calm
  PROVE  FamilyInv'
<1>1. Grows
  BY DEF Calm, Grows, Queued, Listed, Dead, Passing, Let, Alive, Top
<1>2. ASSUME NEW w \in Worker PROVE Good(task[w])'
  <2>1. PICK s : s = task[w] /\ s = task'[w]
    OBVIOUS
  <2>2. Good(s)
    BY <2>1 DEF FamilyInv
  <2>3. Good(s)'
    BY <1>1, <2>2, GoodStays
  <2>4. QED
    BY <2>1, <2>3
<1>3. Keeps
  BY CalmStill
<1>4. Shapes'
  BY DEF FamilyInv, Shapes, FamilyFine, Alive, Dead, Calm
<1>5. (\A f \in Family : Alive(f) /\ family[f].session \in Session => Listed(f, family[f].session))'
  BY DEF FamilyInv, Alive, Listed, Queued, Dead, Calm
<1>6. SpentFine'
  BY DEF FamilyInv, SpentFine, SpentOnce, Alive, Calm
<1>7. (\A s \in finished : Done(s))'
  BY <1>1, <1>3, FinishedStays DEF Keeps
<1>8. QED
  BY <1>2, <1>3, <1>4, <1>5, <1>6, <1>7 DEF FamilyInv, Keeps

LEMMA FamilyInit == Init => FamilyInv
<1> SUFFICES ASSUME Init PROVE FamilyInv
  OBVIOUS
<1>1. /\ load \in Loads /\ family = [f \in Family |-> NoFamily]
      /\ begun = [r \in Redemption |-> "none"] /\ bySession = [s \in Session |-> NoMembers]
      /\ secrets = [f \in Family |-> 0] /\ spent = {} /\ given = {} /\ finished = {} /\ takenBack = {}
      /\ task = [w \in Worker |-> <<>>] /\ voids = {}
  BY DEF Init, FamiliesInit
<1>2. Shapes
  BY <1>1 DEF Shapes, FamilyFine, NoMembers
<1>3. ASSUME NEW w \in Worker PROVE Good(task[w])
  <2>1. PICK s : s = task[w]
    OBVIOUS
  <2>2. s = <<>> /\ IsStack(s) /\ Len(s) = 0
    BY <1>1, <2>1, Tuples
  <2>3. Good(s)
    BY <2>2 DEF Good
  <2>4. QED
    BY <2>1, <2>3
<1>4. \A f \in Family : ~Alive(f)
  BY <1>1, States
<1>5. SpentFine
  BY <1>1, <1>4 DEF SpentFine, SpentOnce
<1>6. QED
  BY <1>1, <1>2, <1>3, <1>4, <1>5 DEF FamilyInv

LEMMA FamilyStep == FamilyInv /\ [Next]_allVars => FamilyInv'
<1> SUFFICES ASSUME FamilyInv, [Next]_allVars PROVE FamilyInv'
  OBVIOUS
<1>1. CASE UNCHANGED allVars
  BY <1>1, IdleInv DEF allVars, vars, codeVars, familyVars, listVars, outsideVars, Calm
<1>2. CASE Next
  <2>1. ASSUME NEW w \in Worker, Work(w), UNCHANGED <<load, codeVars>> PROVE FamilyInv'
    BY <2>1, RevokeInv, RecordInv, TakeInv, StartInv, SettledInv, FoundInv, UseInv, RotateInv,
       CloseInv, EndInv
    DEF Work, StartStep, UseStep, EndStep
  <2>2. ASSUME NEW w \in Worker, Beginning(w) \/ Fails(w) \/ Crash(w), UNCHANGED <<load, codeVars>>
        PROVE  FamilyInv'
    BY <2>2, BeginInv, EndInv, CrashInv
  <2>3. ASSUME NEW w \in Worker, CodeWork(w) \/ BeginCode(w) \/ BeginRedeem(w) \/ BeginVoids(w),
               UNCHANGED load
        PROVE  FamilyInv'
    BY <2>3, SettleInv, VoidsInv, RedeemInv, BeginCodeInv DEF CodeWork
  <2>4. ASSUME NEW c \in Redemption, CodeDrops(c), UNCHANGED load PROVE FamilyInv'
    BY <2>4, IdleInv DEF CodeDrops, Calm, familyVars, listVars, outsideVars
  <2>5. QED
    BY <1>2, <2>1, <2>2, <2>3, <2>4 DEF Next, FamiliesNext
<1>3. QED
  BY <1>1, <1>2

LEMMA FamilyInvAlways == Spec => []FamilyInv
BY FamilyInit, FamilyStep, PTL DEF Spec

----------------------------------------------------------------------------
(* However many present one refresh token at once, and whatever fails or   *)
(* stops between its check and the rotation, one of them rotates its       *)
(* family: the rotation goes by the secret that was checked (grant.ts).    *)
THEOREM SpentForGood == Spec => []SpentOnce
<1>1. FamilyInv => SpentOnce
  BY DEF FamilyInv, SpentFine
<1>2. QED
  BY <1>1, FamilyInvAlways, PTL

(* A session this participant finished closing has no family that lives,   *)
(* nor will: each was listed under it before it could come alive, and what *)
(* the close found listed it ended (participantOver against starting).     *)
THEOREM ClosedForGood == Spec => []ClosedKeepsNone
<1>1. FamilyInv => ClosedKeepsNone
  <2> SUFFICES ASSUME FamilyInv, NEW f \in Family, Alive(f), family[f].session \in finished PROVE FALSE
    BY DEF ClosedKeepsNone
  <2>1. Done(family[f].session)
    BY DEF FamilyInv
  <2>2. Passing(f, family[f].session)
    BY DEF Passing
  <2>3. Dead(f)
    BY <2>1, <2>2 DEF Done
  <2>4. QED
    BY <2>3, States
<1>2. QED
  BY <1>1, FamilyInvAlways, PTL

(* A redemption taken back has no family that lives, and starts none: it   *)
(* left its mark where no family was named yet, or ended the one that was  *)
(* (takingBack against starting).                                          *)
THEOREM TakenBackForGood == Spec => []TakenBackHasNone
<1>1. FamilyInv => TakenBackHasNone
  BY States DEF FamilyInv, TakenFine, TakenDown, TakenBackHasNone
<1>2. QED
  BY <1>1, FamilyInvAlways, PTL

----------------------------------------------------------------------------
(***************************************************************************)
(* What the runs of MCCodeGrant show of codes on small instances, for any  *)
(* number of workers, codes and tokens, whatever fails or stops: one       *)
(* redemption answers a code, and one voided keeps nothing.                *)
(*                                                                         *)
(* Beside FamilyInv: a code has one owner at most, the worker that is to   *)
(* save it or the one that used it up, and what a frame knows of its code  *)
(* (Knows) lasts against every worker that does not own it.                *)
(***************************************************************************)

(* Frames of a stack, and those that own a code.                           *)
In(r, s) == \E i \in 1 .. Len(s) : r = s[i]
Owns(r, c) == r.pc \in Redeems \cup {"code.save"} /\ r.c = c
Plain(r) == r.pc \notin Settles \cup Coded \cup {"voids"}

Early == {"redeem.enter", "redeem.pin", "redeem.issue", "redeem.note"}
Late == {"redeem.session", "redeem.check", "redeem.add", "redeem.hooks"}

(* A code used up; one that noted a token; one with nothing more to give.  *)
Used(c) == code[c].state \in {"consumed", "gone"}
Noted(c) == code[c].state = "consumed" /\ code[c].token \in Access
Ended(c) == code[c] = GoneCode \/ (Noted(c) /\ code[c].token \in denied)

Knows(r) ==
  /\ r.pc \in Settles => code[r.c] # NoCode
  /\ r.pc = "settle.deny" => Noted(r.c)
  /\ r.pc = "settle.done" => Ended(r.c)
  /\ r.pc = "voids" => \A c \in r.todo : code[c] # NoCode
  /\ r.pc = "code.save" => code[r.c] = NoCode
  /\ r.pc \in Redeems => "a" \in DOMAIN r /\ Used(r.c) /\ \A x \in answers : x[1] # r.c
  /\ r.pc \in Early /\ code[r.c].state = "consumed" => code[r.c].token = "none"
  /\ r.pc = "redeem.note" => r.a \in Access
  /\ r.pc \in Late => Noted(r.c) /\ code[r.c].token = r.a

CodeFine(c) ==
  \/ code[c] \in {NoCode, GoneCode}
  \/ /\ DOMAIN code[c] = {"state", "session", "token", "void"}
     /\ code[c].token \in Access \cup {"none"}
     /\ code[c].state = "consumed" \/ (code[c].state = "issued" /\ code[c].token = "none")

AnswerFine(x) == x[1] \in Redemption /\ Noted(x[1]) /\ x[2] = code[x[1]].token
SettledFine(c) == c \in Redemption /\ Ended(c) /\ c \in takenBack

Shares(v, w) ==
  \E r, q : In(r, task[v]) /\ In(q, task[w]) /\ \E c \in Redemption : Owns(r, c) /\ Owns(q, c)

CodesFine ==
  /\ DOMAIN code = Redemption /\ \A c \in Redemption : CodeFine(c)
  /\ RedeemedOnce /\ \A x \in answers : AnswerFine(x)
  /\ \A c \in voids : code[c] # NoCode
  /\ \A c \in settled : SettledFine(c)

CodesInv ==
  /\ FamilyInv
  /\ CodesFine
  /\ \A w \in Worker : \A r : In(r, task[w]) => Knows(r)
  /\ \A v, w \in Worker : Shares(v, w) => v = w

----------------------------------------------------------------------------
(* Where the frames of a new stack come from.                              *)
LEMMA InPushed ==
  ASSUME NEW s, Good(s), s # <<>>, NEW a, IsStack(a), NEW r, In(r, a \o Tail(s))
  PROVE  In(r, a) \/ (In(r, s) /\ Len(s) # 1)
<1> DEFINE n == a \o Tail(s)
           k == Len(a)
           l == Len(s)
<1>1. IsStack(s) /\ l \in Nat \ {0} /\ k \in Nat
  BY IsStackParts DEF Good
<1>2. Len(n) = k + l - 1 /\ \A i \in 1 .. Len(n) : n[i] = IF i <= k THEN a[i] ELSE s[i - k + 1]
  BY <1>1, Made
<1>3. PICK i \in 1 .. Len(n) : r = n[i]
  BY DEF In
<1> HIDE DEF n, k, l
<1>4. CASE i <= k
  BY <1>1, <1>2, <1>3, <1>4 DEF In, k
<1>5. CASE i > k
  <2>1. i - k + 1 \in 1 .. l /\ l # 1
    BY <1>1, <1>2, <1>3, <1>5
  <2>2. r = s[i - k + 1]
    BY <1>1, <1>2, <1>3, <1>5
  <2>3. QED
    BY <2>1, <2>2 DEF In, l
<1>6. QED
  BY <1>1, <1>2, <1>3, <1>4, <1>5

LEMMA InTuples ==
  ASSUME NEW x, NEW y, NEW z, NEW r
  PROVE  /\ ~In(r, <<>>)
         /\ In(r, <<x>>) => r = x
         /\ In(r, <<x, y>>) => r \in {x, y}
         /\ In(r, <<x, y, z>>) => r \in {x, y, z}
<1>1. ASSUME NEW s, NEW k \in 0 .. 3, Len(s) = k, In(r, s)
      PROVE  \/ k >= 1 /\ r = s[1]
             \/ k >= 2 /\ r = s[2]
             \/ k >= 3 /\ r = s[3]
  BY <1>1 DEF In
<1>2. ~In(r, <<>>)
  BY <1>1, Tuples
<1>3. In(r, <<x>>) => r = x
  BY <1>1, Tuples
<1>4. In(r, <<x, y>>) => r \in {x, y}
  BY <1>1, Tuples
<1>5. In(r, <<x, y, z>>) => r \in {x, y, z}
  BY <1>1, Tuples
<1>6. QED
  BY <1>2, <1>3, <1>4, <1>5

LEMMA InThrown ==
  ASSUME NEW s, Good(s), NEW r, In(r, Unwound(s))
  PROVE  \E q : In(q, s) /\ Fine(q) /\ r = Resumed(q) /\ q.pc \in VoidIfFails \cup {"sweep", "voids"}
<1>1. Unwound(s) # <<>>
  BY InTuples
<1>2. PICK q : /\ q = s[Len(s)] /\ Len(s) \in 1 .. Len(s) /\ Unwound(s) = <<Resumed(q)>>
               /\ q.pc \in VoidIfFails \cup {"sweep", "voids"}
  BY <1>1, Unwinds
<1>3. In(q, s) /\ Fine(q)
  BY <1>2 DEF In, Good
<1>4. r = Resumed(q)
  BY <1>2, InTuples
<1>5. QED
  BY <1>2, <1>3, <1>4

(* A step of w that is not about codes: what it leaves on its stack is     *)
(* plain, was there, or is a redemption thrown down to.                    *)
Descends(w, r) ==
  \/ Plain(r)
  \/ In(r, task[w])
  \/ \E q : In(q, task[w]) /\ Fine(q) /\ r = Resumed(q) /\ q.pc \in VoidIfFails

Aside(w) ==
  \E n : task' = [task EXCEPT ![w] = n] /\ \A r : In(r, n) => Descends(w, r)

LEMMA AsidePushed ==
  ASSUME FamilyInv, NEW w \in Worker, task[w] # <<>>, NEW a, IsStack(a), Become(w, a),
         \A r : In(r, a) => Plain(r)
  PROVE  Aside(w)
<1>1. PICK s, n : s = task[w] /\ n = a \o Tail(s)
  OBVIOUS
<1>2. task' = [task EXCEPT ![w] = n]
  BY <1>1 DEF Become
<1>3. Good(s) /\ s # <<>>
  BY <1>1, Tops
<1>4. ASSUME NEW r, In(r, n) PROVE Descends(w, r)
  BY <1>1, <1>3, <1>4, InPushed DEF Descends
<1>5. QED
  BY <1>2, <1>4 DEF Aside

LEMMA AsideOne ==
  ASSUME FamilyInv, NEW w \in Worker, task[w] # <<>>, NEW x, Become(w, <<x>>), Plain(x)
  PROVE  Aside(w)
<1>1. PICK a : a = <<x>>
  OBVIOUS
<1>2. IsStack(a) /\ Become(w, a) /\ \A r : In(r, a) => r = x
  BY <1>1, Tuples, InTuples
<1>3. QED
  BY <1>2, AsidePushed

LEMMA AsideTwo ==
  ASSUME FamilyInv, NEW w \in Worker, task[w] # <<>>, NEW x, NEW y, Become(w, <<x, y>>),
         Plain(x), Plain(y)
  PROVE  Aside(w)
<1>1. PICK a : a = <<x, y>>
  OBVIOUS
<1>2. IsStack(a) /\ Become(w, a) /\ \A r : In(r, a) => r \in {x, y}
  BY <1>1, Tuples, InTuples
<1>3. QED
  BY <1>2, AsidePushed

LEMMA AsideThree ==
  ASSUME FamilyInv, NEW w \in Worker, task[w] # <<>>, NEW x, NEW y, NEW z, Become(w, <<x, y, z>>),
         Plain(x), Plain(y), Plain(z)
  PROVE  Aside(w)
<1>1. PICK a : a = <<x, y, z>>
  OBVIOUS
<1>2. IsStack(a) /\ Become(w, a) /\ \A r : In(r, a) => r \in {x, y, z}
  BY <1>1, Tuples, InTuples
<1>3. QED
  BY <1>2, AsidePushed

LEMMA AsideReturn ==
  ASSUME FamilyInv, NEW w \in Worker, task[w] # <<>>, Return(w)
  PROVE  Aside(w)
<1>1. PICK a : a = <<>>
  OBVIOUS
<1>2. IsStack(a) /\ Become(w, a) /\ \A r : ~In(r, a)
  BY <1>1, Tuples, InTuples DEF Return
<1>3. QED
  BY <1>2, AsidePushed

LEMMA AsideThrow ==
  ASSUME FamilyInv, NEW w \in Worker, Throw(w)
  PROVE  Aside(w)
<1>1. PICK s, n : s = task[w] /\ n = Unwound(s)
  OBVIOUS
<1>2. task' = [task EXCEPT ![w] = n]
  BY <1>1 DEF Throw
<1>3. Good(s)
  BY <1>1 DEF FamilyInv
<1>4. ASSUME NEW r, In(r, n) PROVE Descends(w, r)
  <2>1. PICK q : In(q, s) /\ Fine(q) /\ r = Resumed(q) /\ q.pc \in VoidIfFails \cup {"sweep", "voids"}
    BY <1>1, <1>3, <1>4, InThrown
  <2>2. CASE q.pc \in VoidIfFails
    BY <1>1, <2>1, <2>2 DEF Descends
  <2>3. CASE q.pc \notin VoidIfFails
    BY <1>1, <2>1, <2>3 DEF Descends, Resumed
  <2>4. QED
    BY <2>2, <2>3
<1>5. QED
  BY <1>2, <1>4 DEF Aside

LEMMA AsideNew ==
  ASSUME NEW w \in Worker, NEW n, task' = [task EXCEPT ![w] = n], \A r : In(r, n) => Plain(r)
  PROVE  Aside(w)
BY DEF Aside, Descends

(* The frames of families are plain.                                       *)
PlainPcs ==
  Revoking \cup Taking \cup Closing \cup Starts \cup Uses \cup Loose \cup {"session.settled", "give"}

LEMMA PlainIs ==
  ASSUME NEW x, x.pc \in PlainPcs
  PROVE  Plain(x)
BY DEF Plain, PlainPcs, Marked, Revoking, Taking, Closing, Starts, Uses, Loose, Settles, Coded, Redeems

LEMMA PlainMade ==
  /\ \A f : Plain(Revoke(f))
  /\ \A f, a : Plain(Record(f, a))
  /\ \A f, out : Plain(PushedOut(f, out))
  /\ \A f, a : Plain([pc |-> "record.settle", f |-> f, a |-> a])
  /\ \A f, s, a : Plain(Found(f, s, a))
  /\ \A r, f, s, a : Plain(Starting(r, f, s, a))
  /\ \A s, out : Plain(Dropping(s, out))
  /\ \A s, f : Plain([pc |-> "session.settled", s |-> s, f |-> f])
  /\ \A r : Plain(TakingBack(r))
  /\ \A b, a : Plain(Giving(b, a))
  /\ \A f, n : Plain(Using(f, n))
  /\ Plain(Throwing)
BY DEF Plain, Settles, Coded, Redeems, Revoke, Record, PushedOut, Found, Starting, Dropping,
       TakingBack, Giving, Using, Throwing

(* A plain frame that goes on is plain.                                    *)
LEMMA PlainKept ==
  ASSUME NEW t, "pc" \in DOMAIN t, t.pc \in PlainPcs
  PROVE  /\ \A p \in PlainPcs : Plain([t EXCEPT !.pc = p])
         /\ \A A : \A p \in PlainPcs : Plain([t EXCEPT !.pc = p, !.todo = A])
         /\ \A A : \A p \in PlainPcs : Plain([t EXCEPT !.pc = p, !.s = A])
         /\ \A A : \A p \in PlainPcs : Plain([t EXCEPT !.pc = p, !.a = A])
         /\ \A A : Plain([t EXCEPT !.todo = A])
         /\ \A A, B : Plain([t EXCEPT !.todo = A, !.gone = B])
<1>1. ASSUME NEW p \in PlainPcs PROVE Plain([t EXCEPT !.pc = p])
  BY PlainIs
<1>2. ASSUME NEW p \in PlainPcs, NEW A PROVE Plain([t EXCEPT !.pc = p, !.todo = A])
  <2>1. [t EXCEPT !.pc = p, !.todo = A].pc = p
    OBVIOUS
  <2>2. QED
    BY <2>1, PlainIs
<1>3. ASSUME NEW p \in PlainPcs, NEW A PROVE Plain([t EXCEPT !.pc = p, !.s = A])
  <2>1. [t EXCEPT !.pc = p, !.s = A].pc = p
    OBVIOUS
  <2>2. QED
    BY <2>1, PlainIs
<1>4. ASSUME NEW p \in PlainPcs, NEW A PROVE Plain([t EXCEPT !.pc = p, !.a = A])
  <2>1. [t EXCEPT !.pc = p, !.a = A].pc = p
    OBVIOUS
  <2>2. QED
    BY <2>1, PlainIs
<1>5. ASSUME NEW A PROVE Plain([t EXCEPT !.todo = A])
  <2>1. [t EXCEPT !.todo = A].pc = t.pc
    OBVIOUS
  <2>2. QED
    BY <2>1, PlainIs
<1>6. ASSUME NEW A, NEW B PROVE Plain([t EXCEPT !.todo = A, !.gone = B])
  <2>1. [t EXCEPT !.todo = A, !.gone = B].pc = t.pc
    OBVIOUS
  <2>2. QED
    BY <2>1, PlainIs
<1>7. QED
  BY <1>1, <1>2, <1>3, <1>4, <1>5, <1>6

LEMMA EndsAside ==
  ASSUME FamilyInv, NEW w \in Worker, RevokeStep(w) \/ RecordStep(w)
  PROVE  Aside(w)
<1>0. PICK t : t = Top(w)
  OBVIOUS
<1> USE <1>0
<1>1. task[w] # <<>> /\ t.pc \in PlainPcs
  BY DEF RevokeStep, RevokeAdd, RevokeMark, RevokeSave, RevokeMembers, RevokeAwaiting, RevokeDeny,
         RevokeSettle, RevokeDone, RecordStep, RecordLink, RecordAdd, RecordPush, RecordSettle,
         Doing, PlainPcs, Revoking, Marked, Loose
<1>2. "pc" \in DOMAIN t
  BY <1>1, Tops DEF Fine
<1>3. ASSUME NEW x, Plain(x), Become(w, <<x>>) PROVE Aside(w)
  BY <1>1, <1>3, AsideOne
<1>4. {"revoke.mark", "revoke.save", "revoke.members", "revoke.awaiting", "revoke.deny",
       "revoke.settle", "revoke.done", "record.add"} \subseteq PlainPcs
  BY DEF PlainPcs, Revoking, Marked, Loose
<1>5. ASSUME NEW p \in PlainPcs, To(w, p) PROVE Aside(w)
  BY <1>1, <1>2, <1>3, <1>5, PlainKept DEF To
<1>6. CASE RevokeStep(w)
  <2>1. CASE RevokeAdd(w) \/ RevokeMark(w)
    BY <1>4, <1>5, <2>1 DEF RevokeAdd, RevokeMark
  <2>2. CASE RevokeSave(w)
    BY <1>4, <1>5, <2>2, AsideThrow DEF RevokeSave
  <2>3. CASE RevokeMembers(w)
    BY <1>1, <1>2, <1>3, <1>4, <2>3, PlainKept DEF RevokeMembers
  <2>4. CASE RevokeAwaiting(w)
    BY <1>1, <1>2, <1>3, <1>4, <2>4, PlainKept DEF RevokeAwaiting
  <2>5. CASE RevokeDeny(w)
    BY <1>1, <1>2, <1>3, <1>4, <2>5, PlainKept DEF RevokeDeny
  <2>6. CASE RevokeSettle(w)
    BY <1>1, <1>2, <1>3, <1>4, <1>5, <2>6, PlainKept DEF RevokeSettle
  <2>7. CASE RevokeDone(w)
    BY <1>1, <2>7, AsideReturn DEF RevokeDone
  <2>8. QED
    BY <1>6, <2>1, <2>2, <2>3, <2>4, <2>5, <2>6, <2>7 DEF RevokeStep
<1>7. CASE RecordStep(w)
  <2>1. CASE RecordLink(w)
    BY <1>4, <1>5, <2>1 DEF RecordLink
  <2>2. CASE RecordAdd(w)
    BY <1>1, <1>3, <2>2, AsideReturn, PlainMade DEF RecordAdd
  <2>3. CASE RecordPush(w)
    BY <1>1, <2>3, AsideThrow, AsideTwo, PlainMade DEF RecordPush
  <2>4. CASE RecordSettle(w)
    BY <1>1, <2>4, AsideReturn DEF RecordSettle
  <2>5. QED
    BY <1>7, <2>1, <2>2, <2>3, <2>4 DEF RecordStep
<1>8. QED
  BY <1>6, <1>7

LEMMA StartsAside ==
  ASSUME FamilyInv, NEW w \in Worker, StartStep(w)
  PROVE  Aside(w)
<1>0. PICK t : t = Top(w)
  OBVIOUS
<1> USE <1>0
<1>1. task[w] # <<>> /\ t.pc \in PlainPcs
  BY DEF StartStep, FoundSave, FoundConfirm, StartName, StartList, StartDrop, SessionSettled,
         StartEnter, TakeMark, TakeRead, TakeDone, Doing, PlainPcs, Starts, Loose, Taking
<1>2. "pc" \in DOMAIN t
  BY <1>1, Tops DEF Fine
<1>3. ASSUME NEW x, Plain(x), Become(w, <<x>>) PROVE Aside(w)
  BY <1>1, <1>3, AsideOne
<1>4. ASSUME NEW x, Plain(x), NEW y, Plain(y), Become(w, <<x, y>>) PROVE Aside(w)
  BY <1>1, <1>4, AsideTwo
<1>5. {"found.confirm", "start.list", "start.enter", "take.read", "take.done"} \subseteq PlainPcs
  BY DEF PlainPcs, Loose, Starts, Taking
<1>6. ASSUME NEW p \in PlainPcs, To(w, p) PROVE Aside(w)
  BY <1>1, <1>2, <1>3, <1>6, PlainKept DEF To
<1>7. CASE FoundSave(w)
  BY <1>1, <1>2, <1>4, <1>5, <1>7, PlainMade, PlainKept, AsideThrow DEF FoundSave
<1>8. CASE FoundConfirm(w)
  BY <1>1, <1>4, <1>8, PlainMade, AsideReturn DEF FoundConfirm
<1>9. CASE StartName(w)
  BY <1>5, <1>6, <1>9, AsideThrow DEF StartName
<1>10. CASE StartList(w)
  BY <1>3, <1>5, <1>6, <1>10, PlainMade DEF StartList
<1>11. CASE StartDrop(w)
  BY <1>1, <1>11, PlainMade, AsideThree, AsideThrow DEF StartDrop
<1>12. CASE SessionSettled(w) \/ TakeDone(w)
  BY <1>1, <1>12, AsideReturn DEF SessionSettled, TakeDone
<1>13. CASE StartEnter(w)
  BY <1>3, <1>4, <1>13, PlainMade DEF StartEnter
<1>14. CASE TakeMark(w)
  BY <1>5, <1>6, <1>14 DEF TakeMark
<1>15. CASE TakeRead(w)
  BY <1>1, <1>2, <1>4, <1>5, <1>6, <1>15, PlainMade, PlainKept DEF TakeRead
<1>16. QED
  BY <1>7, <1>8, <1>9, <1>10, <1>11, <1>12, <1>13, <1>14, <1>15 DEF StartStep

LEMMA UsesAside ==
  ASSUME FamilyInv, NEW w \in Worker, UseStep(w) \/ EndStep(w)
  PROVE  Aside(w)
<1>0. PICK t : t = Top(w)
  OBVIOUS
<1> USE <1>0
<1>1. task[w] # <<>> /\ t.pc \in PlainPcs
  BY DEF UseStep, Give, UseRead, UseValid, UseSelect, UseEnter, UseRotate, EndStep, CloseMembers,
         CloseEach, CloseRest, SweepNext, ControlRead, AdoptRead, AdoptCheck, Doing, PlainPcs, Uses,
         Loose, Closing
<1>2. "pc" \in DOMAIN t
  BY <1>1, Tops DEF Fine
<1>3. ASSUME NEW x, Plain(x), Become(w, <<x>>) PROVE Aside(w)
  BY <1>1, <1>3, AsideOne
<1>4. ASSUME NEW x, Plain(x), NEW y, Plain(y), Become(w, <<x, y>>) PROVE Aside(w)
  BY <1>1, <1>4, AsideTwo
<1>5. {"use.valid", "use.select", "use.enter", "use.rotate", "close.each", "close.rest",
       "adopt.check"} \subseteq PlainPcs
  BY DEF PlainPcs, Uses, Closing, Loose
<1>6. ASSUME NEW p \in PlainPcs, To(w, p) PROVE Aside(w)
  BY <1>1, <1>2, <1>3, <1>6, PlainKept DEF To
<1>7. CASE Give(w)
  BY <1>1, <1>7, AsideReturn DEF Give
<1>8. CASE UseRead(w)
  BY <1>1, <1>2, <1>3, <1>5, <1>8, PlainMade, PlainKept, AsideReturn DEF UseRead
<1>9. CASE UseValid(w)
  BY <1>1, <1>2, <1>4, <1>5, <1>9, PlainMade, PlainKept, AsideReturn DEF UseValid
<1>10. CASE UseSelect(w) \/ UseEnter(w)
  BY <1>1, <1>5, <1>6, <1>10, AsideReturn, AsideThrow DEF UseSelect, UseEnter
<1>11. CASE UseRotate(w)
  BY <1>3, <1>11, PlainMade DEF UseRotate
<1>12. CASE CloseMembers(w)
  BY <1>1, <1>2, <1>3, <1>5, <1>12, PlainKept DEF CloseMembers
<1>13. CASE CloseEach(w)
  BY <1>1, <1>2, <1>3, <1>4, <1>5, <1>13, PlainMade, PlainKept DEF CloseEach
<1>14. CASE CloseRest(w)
  BY <1>1, <1>2, <1>14, PlainMade, PlainKept, AsideThree, AsideReturn DEF CloseRest
<1>15. CASE SweepNext(w)
  BY <1>1, <1>2, <1>4, <1>15, PlainMade, PlainKept, AsideReturn DEF SweepNext
<1>16. CASE ControlRead(w)
  BY <1>1, <1>3, <1>16, PlainMade, AsideReturn DEF ControlRead
<1>17. CASE AdoptRead(w)
  BY <1>1, <1>2, <1>4, <1>5, <1>17, PlainMade, PlainKept, AsideReturn DEF AdoptRead
<1>18. CASE AdoptCheck(w)
  BY <1>3, <1>18, PlainMade DEF AdoptCheck
<1>19. QED
  BY <1>7, <1>8, <1>9, <1>10, <1>11, <1>12, <1>13, <1>14, <1>15, <1>16, <1>17, <1>18
  DEF UseStep, EndStep

LEMMA BeginsAside ==
  ASSUME NEW w \in Worker, Beginning(w) \/ Crash(w)
  PROVE  Aside(w)
<1>1. ASSUME NEW x, task' = [task EXCEPT ![w] = <<x>>], Plain(x) PROVE Aside(w)
  <2>1. PICK n : n = <<x>>
    OBVIOUS
  <2>2. \A r : In(r, n) => Plain(r)
    BY <1>1, <2>1, InTuples
  <2>3. QED
    BY <1>1, <2>1, <2>2, AsideNew
<1>2. CASE BeginStart(w)
  <2>1. PICK f, a : Begin(w, "start", <<Found(f, NoSession, a), Giving({<<f, 1>>}, a)>>)
    BY <1>2 DEF BeginStart
  <2>2. PICK x, y, n : x = Found(f, NoSession, a) /\ y = Giving({<<f, 1>>}, a) /\ n = <<x, y>>
    OBVIOUS
  <2>3. task' = [task EXCEPT ![w] = n]
    BY <2>1, <2>2 DEF Begin
  <2>4. \A r : In(r, n) => r \in {x, y}
    BY <2>2, InTuples
  <2>5. Plain(x) /\ Plain(y)
    BY <2>2, PlainMade
  <2>6. QED
    BY <2>3, <2>4, <2>5, AsideNew
<1>3. CASE BeginUse(w)
  BY <1>1, <1>3, PlainMade DEF BeginUse, Begin
<1>4. CASE BeginClose(w) \/ BeginSweep(w) \/ BeginControl(w) \/ BeginAdopt(w)
  <2>1. /\ \A s : Plain([pc |-> "close.members", s |-> s, todo |-> {}])
        /\ \A A : Plain([pc |-> "sweep", todo |-> A])
        /\ \A f : Plain([pc |-> "control.read", f |-> f])
        /\ \A f, a : Plain([pc |-> "adopt.read", f |-> f, a |-> a])
    BY DEF Plain, Settles, Coded, Redeems
  <2>2. QED
    BY <1>1, <1>4, <2>1 DEF BeginClose, BeginSweep, BeginControl, BeginAdopt, Begin
<1>5. CASE Crash(w)
  <2>1. PICK n : n = <<>>
    OBVIOUS
  <2>2. task' = [task EXCEPT ![w] = n] /\ \A r : ~In(r, n)
    BY <1>5, <2>1, InTuples DEF Crash
  <2>3. QED
    BY <2>2, AsideNew
<1>6. QED
  BY <1>2, <1>3, <1>4, <1>5 DEF Beginning

LEMMA FamiliesAside ==
  ASSUME FamilyInv, NEW w \in Worker, Work(w) \/ Beginning(w) \/ Fails(w) \/ Crash(w)
  PROVE  Aside(w)
BY EndsAside, StartsAside, UsesAside, BeginsAside, AsideThrow DEF Work, Rethrow, Fails

----------------------------------------------------------------------------
(* What every step leaves of a code, and what only its owner may change.   *)
CodesGrow ==
  \A c \in Redemption :
    /\ code[c] # NoCode => code'[c] # NoCode
    /\ Noted(c) => Noted(c)' /\ code'[c].token = code[c].token
    /\ Ended(c) => Ended(c)'

Undisturbed(c) ==
  /\ code[c] = NoCode => code'[c] = NoCode
  /\ Used(c) => Used(c)'
  /\ Used(c) /\ code'[c].state = "consumed" =>
       code[c].state = "consumed" /\ code'[c].token = code[c].token
  /\ \A x \in answers' : x[1] = c => \E y \in answers : y[1] = c

Free(w, c) == \A v \in Worker \ {w} : \A q : In(q, task[v]) => ~Owns(q, c)
Owner(w, c) == \E q : In(q, task[w]) /\ Owns(q, c)

LEMMA KnowsStays ==
  ASSUME NEW r, Fine(r), Knows(r), CodesGrow,
         \A c \in Redemption : Owns(r, c) => Undisturbed(c)
  PROVE  Knows(r)'
<1>1. r.pc \in Settles => r.c \in Redemption
  BY DEF Fine
<1>2. r.pc \in Redeems \cup {"code.save"} => r.c \in Redemption /\ Undisturbed(r.c)
  BY DEF Fine, Coded, Owns
<1>3. r.pc = "voids" => r.todo \subseteq Redemption
  BY DEF Fine
<1>4. r.pc \in Early \cup Late \cup {"redeem.note"} => r.pc \in Redeems
  BY DEF Early, Late, Redeems
<1>5. r.pc \in {"settle.deny", "settle.done"} => r.pc \in Settles
  BY DEF Settles
<1>6. ASSUME r.pc \in Settles
      PROVE  /\ code'[r.c] # NoCode
             /\ r.pc = "settle.deny" => Noted(r.c)'
             /\ r.pc = "settle.done" => Ended(r.c)'
  BY <1>1, <1>6 DEF Knows, CodesGrow
<1>7. r.pc = "voids" => \A c \in r.todo : code'[c] # NoCode
  BY <1>3 DEF Knows, CodesGrow
<1>8. r.pc = "code.save" => code'[r.c] = NoCode
  BY <1>2 DEF Knows, Undisturbed
<1>9. r.pc \in Redeems => "a" \in DOMAIN r /\ Used(r.c)' /\ \A x \in answers' : x[1] # r.c
  BY <1>2 DEF Knows, Undisturbed
<1>10. r.pc \in Early /\ code'[r.c].state = "consumed" => code'[r.c].token = "none"
  BY <1>2, <1>4 DEF Knows, Undisturbed
<1>11. r.pc \in Late => Noted(r.c)' /\ code'[r.c].token = r.a
  BY <1>2, <1>4 DEF Knows, CodesGrow
<1>12. r.pc = "redeem.note" => r.a \in Access
  BY DEF Knows
<1>13. QED
  BY <1>5, <1>6, <1>7, <1>8, <1>9, <1>10, <1>11, <1>12 DEF Knows

LEMMA InFine ==
  ASSUME CodesInv, NEW w \in Worker, NEW r, In(r, task[w])
  PROVE  Fine(r) /\ Knows(r)
BY DEF CodesInv, FamilyInv, Good, In

(* A step of w, and what it leaves on its stack.                           *)
LEMMA CodeStep ==
  ASSUME CodesInv, FamilyInv', CodesFine', NEW w \in Worker, NEW n, task' = [task EXCEPT ![w] = n],
         CodesGrow, \A c \in Redemption : Undisturbed(c) \/ Owner(w, c),
         \A r : In(r, n) => Knows(r)',
         \A r : In(r, n) => \A c \in Redemption : Owns(r, c) => Owner(w, c) \/ Free(w, c)
  PROVE  CodesInv'
<1>1. DOMAIN task = Worker
  BY DEF CodesInv, FamilyInv, Shapes
<1>2. task'[w] = n /\ \A v \in Worker \ {w} : task'[v] = task[v]
  BY <1>1
<1>3. ASSUME NEW v \in Worker \ {w}, NEW r, In(r, task[v]), NEW c \in Redemption, Owns(r, c)
      PROVE  ~Owner(w, c)
  <2>1. ~Shares(v, w)
    BY <1>3 DEF CodesInv
  <2>2. QED
    BY <1>3, <2>1 DEF Shares, Owner
<1>4. ASSUME NEW v \in Worker, NEW r, In(r, task'[v]) PROVE Knows(r)'
  <2>1. CASE v = w
    BY <1>2, <1>4, <2>1
  <2>2. CASE v # w
    <3>1. In(r, task[v])
      BY <1>2, <1>4, <2>2
    <3>2. Fine(r) /\ Knows(r)
      BY <3>1, InFine
    <3>3. \A c \in Redemption : Owns(r, c) => Undisturbed(c)
      BY <1>3, <2>2, <3>1
    <3>4. QED
      BY <3>2, <3>3, KnowsStays
  <2>3. QED
    BY <2>1, <2>2
<1>5. ASSUME NEW u \in Worker, NEW v \in Worker, u # v, NEW r, NEW q, NEW c \in Redemption,
             In(r, task'[u]), In(q, task'[v]), Owns(r, c), Owns(q, c)
      PROVE  FALSE
  <2>1. CASE u # w /\ v # w
    <3>1. Shares(u, v)
      BY <1>2, <1>5, <2>1 DEF Shares
    <3>2. QED
      BY <1>5, <3>1 DEF CodesInv
  <2>2. CASE u = w
    <3>1. In(r, n) /\ v \in Worker \ {w} /\ In(q, task[v])
      BY <1>2, <1>5, <2>2
    <3>2. Owner(w, c) \/ Free(w, c)
      BY <1>5, <3>1
    <3>3. ~Owner(w, c)
      BY <1>3, <1>5, <3>1
    <3>4. QED
      BY <1>5, <3>1, <3>2, <3>3 DEF Free
  <2>3. CASE v = w
    <3>1. In(q, n) /\ u \in Worker \ {w} /\ In(r, task[u])
      BY <1>2, <1>5, <2>3
    <3>2. Owner(w, c) \/ Free(w, c)
      BY <1>5, <3>1
    <3>3. ~Owner(w, c)
      BY <1>3, <1>5, <3>1
    <3>4. QED
      BY <1>5, <3>1, <3>2, <3>3 DEF Free
  <2>4. QED
    BY <2>1, <2>2, <2>3
<1>6. (\A v \in Worker : \A r : In(r, task[v]) => Knows(r))'
  BY <1>4
<1>7. (\A u, v \in Worker : Shares(u, v) => u = v)'
  BY <1>5 DEF Shares
<1>8. QED
  BY <1>6, <1>7 DEF CodesInv

(* What is noted of codes stays, where nothing is answered.                *)
LEMMA CodesFineStays ==
  ASSUME CodesInv, CodesGrow, takenBack \subseteq takenBack', UNCHANGED answers,
         DOMAIN code' = Redemption, \A c \in Redemption : CodeFine(c)',
         \A c \in voids' : c \in Redemption /\ code[c] # NoCode,
         \A c \in settled' : SettledFine(c)
  PROVE  CodesFine'
<1>1. ASSUME NEW x \in answers PROVE AnswerFine(x)'
  BY DEF CodesInv, CodesFine, AnswerFine, CodesGrow
<1>2. ASSUME NEW c \in settled' PROVE SettledFine(c)'
  BY DEF SettledFine, CodesGrow
<1>3. RedeemedOnce'
  BY DEF CodesInv, CodesFine, RedeemedOnce
<1>4. QED
  BY <1>1, <1>2, <1>3 DEF CodesFine, CodesGrow

(* Nothing of codes changes.                                               *)
LEMMA SameCodes ==
  ASSUME CodesInv, UNCHANGED <<code, answers>>, denied \subseteq denied', takenBack \subseteq takenBack',
         \A c \in voids' : c \in Redemption /\ code[c] # NoCode,
         \A c \in settled' : SettledFine(c)
  PROVE  CodesGrow /\ CodesFine' /\ \A c \in Redemption : Undisturbed(c)
<1>1. CodesGrow
  BY DEF CodesGrow, Noted, Ended
<1>2. \A c \in Redemption : Undisturbed(c)
  BY DEF Undisturbed, Used
<1>3. \A c \in Redemption : CodeFine(c)'
  BY DEF CodesInv, CodesFine, CodeFine
<1>4. DOMAIN code' = Redemption
  BY DEF CodesInv, CodesFine
<1>5. QED
  BY <1>1, <1>2, <1>3, <1>4, CodesFineStays

LEMMA SameLists ==
  ASSUME CodesInv
  PROVE  /\ \A c \in voids : c \in Redemption /\ code[c] # NoCode
         /\ \A c \in settled : SettledFine(c)
BY DEF CodesInv, CodesFine, FamilyInv

(* A step of families and of who began what.                               *)
LEMMA AsideInv ==
  ASSUME CodesInv, FamilyInv', NEW w \in Worker, Aside(w),
         UNCHANGED codeVars, denied \subseteq denied', takenBack \subseteq takenBack'
  PROVE  CodesInv'
<1>1. PICK n : task' = [task EXCEPT ![w] = n] /\ \A r : In(r, n) => Descends(w, r)
  BY DEF Aside
<1>2. CodesGrow /\ CodesFine' /\ \A c \in Redemption : Undisturbed(c)
  BY SameCodes, SameLists DEF codeVars
<1>3. ASSUME NEW q, In(q, task[w]) PROVE Knows(q)'
  BY <1>2, <1>3, InFine, KnowsStays
<1>4. ASSUME NEW q, In(q, task[w]), Fine(q), q.pc \in VoidIfFails
      PROVE  Knows(Resumed(q))' /\ \A c \in Redemption : Owns(Resumed(q), c) => Owns(q, c)
  <2>1. q.pc \in Redeems
    BY <1>4 DEF VoidIfFails, Redeems
  <2>2. {"pc", "c", "a"} \subseteq DOMAIN q
    BY <1>3, <1>4, <2>1 DEF Fine, Coded, Knows
  <2>3. PICK x : x = [q EXCEPT !.pc = "redeem.void"] /\ x = Resumed(q)
    BY <1>4 DEF Resumed
  <2>4. x.pc = "redeem.void" /\ x.c = q.c /\ "a" \in DOMAIN x
    BY <2>2, <2>3
  <2>5. Used(x.c)' /\ \A y \in answers' : y[1] # x.c
    BY <1>3, <1>4, <2>1, <2>4 DEF Knows
  <2>6. Knows(x)'
    BY <2>4, <2>5 DEF Knows, Settles, Early, Late
  <2>7. \A c \in Redemption : Owns(x, c) => Owns(q, c)
    BY <2>1, <2>4 DEF Owns
  <2>8. QED
    BY <2>3, <2>6, <2>7
<1>5. ASSUME NEW r, Plain(r) PROVE Knows(r)' /\ \A c \in Redemption : ~Owns(r, c)
  BY <1>5 DEF Plain, Knows, Owns, Coded, Redeems, Settles, Early, Late
<1>6. ASSUME NEW r, In(r, n)
      PROVE  Knows(r)' /\ \A c \in Redemption : Owns(r, c) => Owner(w, c)
  BY <1>1, <1>3, <1>4, <1>5, <1>6 DEF Descends, Owner
<1>7. QED
  BY <1>1, <1>2, <1>6, CodeStep

----------------------------------------------------------------------------
LEMMA TopIn ==
  ASSUME CodesInv, NEW w \in Worker, task[w] # <<>>
  PROVE  In(Top(w), task[w]) /\ Fine(Top(w)) /\ Ready(Top(w)) /\ Knows(Top(w))
<1>0. PICK s, t : s = task[w] /\ t = Top(w)
  OBVIOUS
<1>1. Good(s) /\ s # <<>> /\ t = s[1] /\ Ready(t)
  BY <1>0, Tops DEF CodesInv
<1>2. Len(s) \in Nat /\ Len(s) > 0
  BY <1>1, IsStackParts DEF Good
<1>3. 1 \in 1 .. Len(s)
  BY <1>2
<1>4. In(t, s)
  BY <1>1, <1>3 DEF In
<1>5. QED
  BY <1>0, <1>1, <1>4, InFine

(* The top frame of w makes way.                                           *)
LEMMA CodePush ==
  ASSUME CodesInv, FamilyInv', CodesFine', NEW w \in Worker, task[w] # <<>>,
         NEW a, IsStack(a), Become(w, a), CodesGrow,
         \A c \in Redemption : Undisturbed(c) \/ (Top(w).pc \in Coded /\ Owns(Top(w), c)),
         \A r : In(r, a) => Knows(r)',
         \A r : In(r, a) => \A c \in Redemption : Owns(r, c) => Owns(Top(w), c) \/ Free(w, c)
  PROVE  CodesInv'
<1>0. PICK s, n, t : s = task[w] /\ n = a \o Tail(s) /\ t = Top(w)
  OBVIOUS
<1>1. Good(s) /\ s # <<>> /\ t = s[1] /\ (t.pc \in Bases => Len(s) = 1)
  BY <1>0, Tops DEF CodesInv
<1>2. In(t, s)
  BY <1>0, TopIn
<1>3. \A c \in Redemption : Owns(t, c) => Owner(w, c)
  BY <1>0, <1>2 DEF Owner
<1>4. ASSUME NEW r, In(r, n)
      PROVE  Knows(r)' /\ \A c \in Redemption : Owns(r, c) => Owner(w, c) \/ Free(w, c)
  <2>1. CASE In(r, a)
    BY <1>0, <1>3, <2>1
  <2>2. CASE In(r, s) /\ Len(s) # 1
    <3>1. t.pc \notin Coded
      BY <1>1, <2>2 DEF Bases
    <3>2. \A c \in Redemption : Undisturbed(c)
      BY <1>0, <3>1
    <3>3. Fine(r) /\ Knows(r)
      BY <1>0, <2>2, InFine
    <3>4. Knows(r)'
      BY <3>2, <3>3, KnowsStays
    <3>5. QED
      BY <1>0, <2>2, <3>4 DEF Owner
  <2>3. QED
    BY <1>0, <1>1, <1>4, <2>1, <2>2, InPushed
<1>5. task' = [task EXCEPT ![w] = n]
  BY <1>0 DEF Become
<1>6. \A c \in Redemption : Undisturbed(c) \/ Owner(w, c)
  BY <1>0, <1>3
<1>7. QED
  BY <1>4, <1>5, <1>6, CodeStep

LEMMA CodeReturn ==
  ASSUME CodesInv, FamilyInv', CodesFine', NEW w \in Worker, task[w] # <<>>, Return(w), CodesGrow,
         \A c \in Redemption : Undisturbed(c) \/ (Top(w).pc \in Coded /\ Owns(Top(w), c))
  PROVE  CodesInv'
<1>1. PICK a : a = <<>>
  OBVIOUS
<1>2. IsStack(a) /\ Become(w, a) /\ \A r : ~In(r, a)
  BY <1>1, Tuples, InTuples DEF Return
<1>3. QED
  BY <1>2, CodePush

LEMMA CodeOne ==
  ASSUME CodesInv, FamilyInv', CodesFine', NEW w \in Worker, task[w] # <<>>,
         NEW x, Become(w, <<x>>), CodesGrow,
         \A c \in Redemption : Undisturbed(c) \/ (Top(w).pc \in Coded /\ Owns(Top(w), c)),
         Knows(x)', \A c \in Redemption : Owns(x, c) => Owns(Top(w), c) \/ Free(w, c)
  PROVE  CodesInv'
<1>1. PICK a : a = <<x>>
  OBVIOUS
<1>2. IsStack(a) /\ Become(w, a) /\ \A r : In(r, a) => r = x
  BY <1>1, Tuples, InTuples
<1>3. \A r : In(r, a) => Knows(r)'
  BY <1>2
<1>4. QED
  BY <1>2, <1>3, CodePush

LEMMA CodeTwo ==
  ASSUME CodesInv, FamilyInv', CodesFine', NEW w \in Worker, task[w] # <<>>,
         NEW x, NEW y, Become(w, <<x, y>>), CodesGrow,
         \A c \in Redemption : Undisturbed(c) \/ (Top(w).pc \in Coded /\ Owns(Top(w), c)),
         Knows(x)', \A c \in Redemption : ~Owns(x, c),
         Knows(y)', \A c \in Redemption : Owns(y, c) => Owns(Top(w), c)
  PROVE  CodesInv'
<1>1. PICK a : a = <<x, y>>
  OBVIOUS
<1>2. IsStack(a) /\ Become(w, a) /\ \A r : In(r, a) => r \in {x, y}
  BY <1>1, Tuples, InTuples
<1>3. \A r : In(r, a) => Knows(r)'
  BY <1>2
<1>4. \A r : In(r, a) => \A c \in Redemption : Owns(r, c) => Owns(Top(w), c)
  BY <1>2
<1>5. QED
  BY <1>2, <1>3, <1>4, CodePush

LEMMA PlainKnows ==
  ASSUME NEW x, Plain(x)
  PROVE  Knows(x)' /\ \A c \in Redemption : ~Owns(x, c)
BY DEF Plain, Knows, Owns, Coded, Redeems, Settles, Early, Late

LEMMA SettlesKnows ==
  ASSUME NEW x, x.pc \in Settles, code'[x.c] # NoCode,
         x.pc = "settle.deny" => Noted(x.c)', x.pc = "settle.done" => Ended(x.c)'
  PROVE  Knows(x)' /\ \A c \in Redemption : ~Owns(x, c)
BY DEF Knows, Owns, Coded, Redeems, Settles, Early, Late

LEMMA SettlingKnows ==
  ASSUME NEW c, code'[c] # NoCode
  PROVE  Knows(Settling(c))' /\ \A d \in Redemption : ~Owns(Settling(c), d)
<1>1. PICK x : x = Settling(c)
  OBVIOUS
<1>2. x.pc = "settle.add" /\ x.c = c
  BY <1>1 DEF Settling
<1>3. Knows(x)' /\ \A d \in Redemption : ~Owns(x, d)
  BY <1>2, SettlesKnows DEF Settles
<1>4. QED
  BY <1>1, <1>3

(* A code kept is marked void.                                             *)
LEMMA MarkedVoid ==
  ASSUME CodesInv, NEW c \in Redemption, Kept(c), code' = [code EXCEPT ![c].void = TRUE],
         UNCHANGED <<answers, voids, settled, denied, takenBack>>
  PROVE  CodesGrow /\ CodesFine' /\ \A d \in Redemption : Undisturbed(d)
<1>1. DOMAIN code = Redemption /\ CodeFine(c) /\ code[c] \notin {NoCode, GoneCode}
  BY DEF CodesInv, CodesFine, Kept, NoCode, GoneCode
<1>2. /\ DOMAIN code' = Redemption
      /\ \A d \in Redemption : d # c => code'[d] = code[d]
      /\ code'[c] = [code[c] EXCEPT !.void = TRUE]
  BY <1>1
<1>3. /\ DOMAIN code'[c] = {"state", "session", "token", "void"} /\ code'[c].state = code[c].state
      /\ code'[c].token = code[c].token
  BY <1>1, <1>2 DEF CodeFine
<1>4. CodeFine(c)' /\ code'[c] # NoCode
  BY <1>1, <1>3 DEF CodeFine, NoCode
<1>5. CodesGrow
  BY <1>1, <1>2, <1>3, <1>4 DEF CodesGrow, Noted, Ended
<1>6. \A d \in Redemption : Undisturbed(d)
  BY <1>1, <1>2, <1>3 DEF Undisturbed, Used
<1>7. \A d \in Redemption : CodeFine(d)'
  BY <1>2, <1>4 DEF CodesInv, CodesFine, CodeFine
<1>8. CodesFine'
  BY <1>2, <1>5, <1>7, SameLists, CodesFineStays
<1>9. QED
  BY <1>5, <1>6, <1>8

LEMMA SettleCodes ==
  ASSUME CodesInv, FamilyInv', NEW w \in Worker, SettleStep(w)
  PROVE  CodesInv'
<1>0. PICK t : t = Top(w)
  OBVIOUS
<1> USE <1>0
<1>1. task[w] # <<>> /\ t.pc \in Settles
  BY DEF SettleStep, SettleAdd, SettleMark, SettleDeny, SettleDone, Doing, Settles
<1>2. Fine(t) /\ Ready(t) /\ In(t, task[w])
  BY <1>1, TopIn
<1>3. {"pc", "c"} \subseteq DOMAIN t /\ t.c \in Redemption
  BY <1>1, <1>2 DEF Fine
<1>4. Knows(t)
  BY <1>2, InFine
<1>5. code[t.c] # NoCode /\ CodeFine(t.c)
  BY <1>1, <1>3, <1>4 DEF Knows, CodesInv, CodesFine
<1>6. ASSUME NEW p, NEW x, x = [t EXCEPT !.pc = p]
      PROVE  x.pc = p /\ x.c = t.c
  BY <1>3, <1>6
<1>7. CASE SettleAdd(w)
  <2>1. CodesGrow /\ CodesFine' /\ \A c \in Redemption : Undisturbed(c)
    BY <1>3, <1>5, <1>7, SameCodes, SameLists DEF SettleAdd, outsideVars
  <2>2. PICK x : x = [t EXCEPT !.pc = "settle.mark"]
    OBVIOUS
  <2>3. Become(w, <<x>>) /\ x.pc = "settle.mark" /\ x.c = t.c
    BY <1>6, <1>7, <2>2 DEF SettleAdd, To
  <2>4. Knows(x)' /\ \A c \in Redemption : ~Owns(x, c)
    BY <1>5, <1>7, <2>3, SettlesKnows DEF SettleAdd, Settles
  <2>5. QED
    BY <1>1, <2>1, <2>3, <2>4, CodeOne
<1>8. ASSUME Become(w, <<TakingBack(t.c), [t EXCEPT !.pc = "settle.done"]>>), UNCHANGED code, Ended(t.c)',
             CodesGrow, CodesFine', \A c \in Redemption : Undisturbed(c)
      PROVE  CodesInv'
  <2>1. PICK x, y : x = TakingBack(t.c) /\ y = [t EXCEPT !.pc = "settle.done"]
    OBVIOUS
  <2>2. Become(w, <<x, y>>) /\ y.pc = "settle.done" /\ y.c = t.c
    BY <1>6, <1>8, <2>1
  <2>3. Plain(x)
    BY <2>1, PlainMade
  <2>4. Knows(y)' /\ \A c \in Redemption : ~Owns(y, c)
    BY <1>5, <1>8, <2>2, SettlesKnows DEF Settles
  <2>5. QED
    BY <1>1, <1>8, <2>2, <2>3, <2>4, PlainKnows, CodeTwo
<1>9. CASE SettleMark(w)
  <2>1. CASE ~Kept(t.c) /\ UNCHANGED code
             /\ Become(w, <<TakingBack(t.c), [t EXCEPT !.pc = "settle.done"]>>)
    <3>1. CodesGrow /\ CodesFine' /\ \A c \in Redemption : Undisturbed(c)
      BY <1>9, <2>1, SameCodes, SameLists DEF SettleMark, outsideVars
    <3>2. code[t.c] = GoneCode
      BY <1>5, <2>1 DEF CodeFine, Kept
    <3>3. Ended(t.c)'
      BY <2>1, <3>2 DEF Ended
    <3>4. QED
      BY <1>8, <2>1, <3>1, <3>3
  <2>2. CASE /\ Kept(t.c) /\ code' = [code EXCEPT ![t.c].void = TRUE]
             /\ IF code[t.c].token = "none" THEN Return(w) ELSE To(w, "settle.deny")
    <3>1. CodesGrow /\ CodesFine' /\ \A c \in Redemption : Undisturbed(c)
      BY <1>3, <1>9, <2>2, MarkedVoid DEF SettleMark, outsideVars
    <3>2. CASE Return(w)
      BY <1>1, <3>1, <3>2, CodeReturn
    <3>3. CASE code[t.c].token # "none" /\ To(w, "settle.deny")
      <4>1. PICK x : x = [t EXCEPT !.pc = "settle.deny"]
        OBVIOUS
      <4>2. Become(w, <<x>>) /\ x.pc = "settle.deny" /\ x.c = t.c
        BY <1>6, <3>3, <4>1 DEF To
      <4>3. Noted(t.c)
        BY <1>5, <2>2, <3>3 DEF CodeFine, Kept, Noted, NoCode, GoneCode
      <4>4. Noted(t.c)' /\ code'[t.c] # NoCode
        BY <1>3, <1>5, <3>1, <4>3 DEF CodesGrow
      <4>5. Knows(x)' /\ \A c \in Redemption : ~Owns(x, c)
        BY <4>2, <4>4, SettlesKnows DEF Settles
      <4>6. QED
        BY <1>1, <3>1, <4>2, <4>5, CodeOne
    <3>4. QED
      BY <2>2, <3>2, <3>3
  <2>3. QED
    BY <1>9, <2>1, <2>2 DEF SettleMark
<1>10. CASE SettleDeny(w)
  <2>1. Noted(t.c)
    BY <1>4, <1>10 DEF Knows, SettleDeny, Doing
  <2>2. CodesGrow /\ CodesFine' /\ \A c \in Redemption : Undisturbed(c)
    BY <1>10, SameCodes, SameLists DEF SettleDeny, codeVars
  <2>3. UNCHANGED code /\ denied' = denied \cup {code[t.c].token}
    BY <1>10 DEF SettleDeny, codeVars
  <2>4. Ended(t.c)'
    BY <2>1, <2>3 DEF Noted, Ended
  <2>5. QED
    BY <1>8, <1>10, <2>2, <2>3, <2>4 DEF SettleDeny
<1>11. CASE SettleDone(w)
  <2>1. SettledFine(t.c)
    BY <1>2, <1>3, <1>4, <1>11 DEF Knows, Ready, SettledFine, SettleDone, Doing
  <2>2. CodesGrow /\ CodesFine' /\ \A c \in Redemption : Undisturbed(c)
    BY <1>11, <2>1, SameCodes, SameLists DEF SettleDone, outsideVars
  <2>3. QED
    BY <1>1, <1>11, <2>2, CodeReturn DEF SettleDone
<1>12. QED
  BY <1>7, <1>9, <1>10, <1>11 DEF SettleStep

LEMMA VoidsCodes ==
  ASSUME CodesInv, FamilyInv', NEW w \in Worker, VoidsNext(w)
  PROVE  CodesInv'
<1>0. PICK t : t = Top(w)
  OBVIOUS
<1> USE <1>0
<1>1. task[w] # <<>> /\ t.pc = "voids"
  BY DEF VoidsNext, Doing
<1>2. Fine(t) /\ In(t, task[w])
  BY <1>1, TopIn
<1>3. {"pc", "todo"} \subseteq DOMAIN t /\ \A c \in t.todo : code[c] # NoCode
  BY <1>1, <1>2, InFine DEF Fine, Knows
<1>4. CodesGrow /\ CodesFine' /\ (\A c \in Redemption : Undisturbed(c)) /\ UNCHANGED code
  BY SameCodes, SameLists DEF VoidsNext, codeVars, outsideVars
<1>5. ASSUME NEW c \in t.todo, Become(w, <<Settling(c), [t EXCEPT !.todo = @ \ {c}]>>) PROVE CodesInv'
  <2>1. PICK x, y : x = Settling(c) /\ y = [t EXCEPT !.todo = @ \ {c}]
    OBVIOUS
  <2>2. Become(w, <<x, y>>) /\ y.pc = "voids" /\ y.todo = t.todo \ {c}
    BY <1>1, <1>3, <1>5, <2>1
  <2>3. Knows(x)' /\ \A d \in Redemption : ~Owns(x, d)
    BY <1>3, <1>4, <2>1, SettlingKnows
  <2>4. Knows(y)' /\ \A d \in Redemption : ~Owns(y, d)
    BY <1>3, <1>4, <2>2 DEF Knows, Owns, Settles, Redeems, Early, Late
  <2>5. QED
    BY <1>1, <1>4, <2>2, <2>3, <2>4, CodeTwo
<1>6. CASE Return(w)
  BY <1>1, <1>4, <1>6, CodeReturn
<1>7. QED
  BY <1>5, <1>6 DEF VoidsNext

----------------------------------------------------------------------------
(* Redemptions.                                                            *)
LEMMA RedeemsKnows ==
  ASSUME NEW x, x.pc \in Redeems, "a" \in DOMAIN x, Used(x.c)', \A y \in answers' : y[1] # x.c,
         x.pc \in Early /\ code'[x.c].state = "consumed" => code'[x.c].token = "none",
         x.pc = "redeem.note" => x.a \in Access,
         x.pc \in Late => Noted(x.c)' /\ code'[x.c].token = x.a
  PROVE  Knows(x)'
BY DEF Knows, Redeems, Settles

(* A code nobody answered keeps to what its owner wrote.                   *)
LEMMA OwnedWrite ==
  ASSUME CodesInv, NEW c \in Redemption, NEW v, code' = [code EXCEPT ![c] = v],
         UNCHANGED <<answers, voids, settled, denied, takenBack>>,
         CodeFine(c)', v # NoCode, ~Noted(c), code[c] # GoneCode
  PROVE  CodesGrow /\ CodesFine' /\ \A d \in Redemption \ {c} : Undisturbed(d)
<1>1. DOMAIN code = Redemption
  BY DEF CodesInv, CodesFine
<1>2. DOMAIN code' = Redemption /\ code'[c] = v /\ \A d \in Redemption : d # c => code'[d] = code[d]
  BY <1>1
<1>3. CodesGrow
  BY <1>2 DEF CodesGrow, Noted, Ended
<1>4. \A d \in Redemption \ {c} : Undisturbed(d)
  BY <1>2 DEF Undisturbed, Used
<1>5. \A d \in Redemption : CodeFine(d)'
  BY <1>2 DEF CodesInv, CodesFine, CodeFine
<1>6. CodesFine'
  BY <1>2, <1>3, <1>5, SameLists, CodesFineStays
<1>7. QED
  BY <1>3, <1>4, <1>6

LEMMA IssueCodes ==
  ASSUME CodesInv, FamilyInv', NEW w \in Worker, CodeIssue(w)
  PROVE  CodesInv'
<1>0. PICK t : t = Top(w)
  OBVIOUS
<1> USE <1>0
<1>1. task[w] # <<>> /\ t.pc = "code.save" /\ Return(w) /\ code' = [code EXCEPT ![t.c] = IssuedCode(t.s)]
      /\ UNCHANGED <<answers, voids, settled, denied, takenBack>>
  BY DEF CodeIssue, Doing, outsideVars
<1>2. t.c \in Redemption /\ code[t.c] = NoCode /\ Owns(t, t.c)
  BY <1>1, TopIn DEF Fine, Knows, Coded, Owns
<1>3. code'[t.c] = IssuedCode(t.s)
  BY <1>1, <1>2 DEF CodesInv, CodesFine
<1>4. CodeFine(t.c)' /\ IssuedCode(t.s) # NoCode
  BY <1>3 DEF CodeFine, IssuedCode, NoCode
<1>5. ~Noted(t.c) /\ code[t.c] # GoneCode
  BY <1>2 DEF Noted, NoCode, GoneCode
<1>6. CodesGrow /\ CodesFine' /\ \A d \in Redemption \ {t.c} : Undisturbed(d)
  BY <1>1, <1>2, <1>4, <1>5, OwnedWrite
<1>7. QED
  BY <1>1, <1>2, <1>6, CodeReturn DEF Coded

LEMMA UseCodes ==
  ASSUME CodesInv, FamilyInv', NEW w \in Worker, RedeemUse(w)
  PROVE  CodesInv'
<1>0. PICK t, c : t = Top(w) /\ c = t.c
  OBVIOUS
<1> USE <1>0
<1>1. task[w] # <<>> /\ t.pc = "redeem.use"
  BY DEF RedeemUse, Doing
<1>2. c \in Redemption /\ CodeFine(c)
  BY <1>1, TopIn DEF Fine, Coded, CodesInv, CodesFine
<1>3. ASSUME UNCHANGED code PROVE CodesGrow /\ CodesFine' /\ \A d \in Redemption : Undisturbed(d)
  BY <1>3, SameCodes, SameLists DEF RedeemUse, outsideVars
<1>4. CASE ~Kept(c) /\ Return(w) /\ UNCHANGED code
  BY <1>1, <1>3, <1>4, CodeReturn
<1>5. CASE Kept(c) /\ Become(w, <<Settling(c)>>) /\ UNCHANGED code
  <2>1. PICK x : x = Settling(c)
    OBVIOUS
  <2>2. code'[c] # NoCode
    BY <1>5 DEF Kept, NoCode
  <2>3. Knows(x)' /\ \A d \in Redemption : ~Owns(x, d)
    BY <2>1, <2>2, SettlingKnows
  <2>4. QED
    BY <1>1, <1>3, <1>5, <2>1, <2>3, CodeOne
<1>6. CASE /\ Kept(c) /\ code[c].state = "issued" /\ code' = [code EXCEPT ![c].state = "consumed"]
           /\ Return(w) \/ Become(w, <<Redeeming(c, code[c].session)>>)
  <2>1. PICK v : v = [code[c] EXCEPT !.state = "consumed"]
    OBVIOUS
  <2>2. DOMAIN code[c] = {"state", "session", "token", "void"} /\ code[c].token = "none"
    BY <1>2, <1>6 DEF CodeFine, NoCode, GoneCode
  <2>3. /\ DOMAIN v = {"state", "session", "token", "void"} /\ v.state = "consumed" /\ v.token = "none"
    BY <2>1, <2>2
  <2>4. code' = [code EXCEPT ![c] = v] /\ code'[c] = v
    BY <1>2, <1>6, <2>1 DEF CodesInv, CodesFine
  <2>5. CodeFine(c)' /\ v # NoCode
    BY <2>3, <2>4 DEF CodeFine, NoCode
  <2>6. ~Noted(c) /\ code[c] # GoneCode /\ code[c] # NoCode /\ ~Used(c)
    BY <1>6 DEF Noted, GoneCode, NoCode, Used
  <2>7. UNCHANGED <<answers, voids, settled, denied, takenBack>>
    BY DEF RedeemUse, outsideVars
  <2>8. CodesGrow /\ CodesFine' /\ \A d \in Redemption \ {c} : Undisturbed(d)
    BY <1>2, <2>4, <2>5, <2>6, <2>7, OwnedWrite
  <2>9. Undisturbed(c)
    BY <2>6, <2>7 DEF Undisturbed
  <2>10. CASE Return(w)
    BY <1>1, <2>8, <2>9, <2>10, CodeReturn
  <2>11. CASE Become(w, <<Redeeming(c, code[c].session)>>)
    <3>1. PICK x : x = Redeeming(c, code[c].session)
      OBVIOUS
    <3>2. x.pc = "redeem.enter" /\ x.c = c /\ "a" \in DOMAIN x /\ x.pc \in Redeems /\ x.pc \notin Late
      BY <3>1 DEF Redeeming, Redeems, Late
    <3>3. Used(c)' /\ code'[c].token = "none"
      BY <2>3, <2>4 DEF Used
    <3>4. \A y \in answers' : y[1] # c
      BY <2>6, <2>7 DEF CodesInv, CodesFine, AnswerFine
    <3>5. Knows(x)'
      BY <3>2, <3>3, <3>4, RedeemsKnows
    <3>6. Free(w, c)
      <4>1. SUFFICES ASSUME NEW v2 \in Worker, NEW q, In(q, task[v2]), Owns(q, c) PROVE FALSE
        BY DEF Free
      <4>2. Knows(q)
        BY <4>1, InFine
      <4>3. QED
        BY <2>6, <4>1, <4>2 DEF Owns, Knows
    <3>7. \A d \in Redemption : Owns(x, d) => Free(w, d)
      BY <3>2, <3>6 DEF Owns
    <3>8. Become(w, <<x>>)
      BY <2>11, <3>1
    <3>9. QED
      BY <1>1, <2>8, <2>9, <3>5, <3>7, <3>8, CodeOne
  <2>12. QED
    BY <1>6, <2>10, <2>11
<1>7. QED
  BY <1>4, <1>5, <1>6 DEF RedeemUse

LEMMA RedeemCodes ==
  ASSUME CodesInv, FamilyInv', NEW w \in Worker,
         RedeemEnter(w) \/ RedeemPin(w) \/ RedeemIssue(w) \/ RedeemSession(w) \/ RedeemCheck(w)
           \/ RedeemAdd(w) \/ RedeemVoid(w)
  PROVE  CodesInv'
<1>0. PICK t : t = Top(w)
  OBVIOUS
<1> USE <1>0
<1>1. task[w] # <<>> /\ t.pc \in Redeems \ {"redeem.hooks", "redeem.note"}
  BY DEF RedeemEnter, RedeemPin, RedeemIssue, RedeemSession, RedeemCheck, RedeemAdd, RedeemVoid, Doing,
         Redeems
<1>2. Fine(t) /\ Knows(t)
  BY <1>1, TopIn
<1>3. {"pc", "c", "tokens", "a"} \subseteq DOMAIN t /\ t.c \in Redemption /\ Owns(t, t.c)
  BY <1>1, <1>2 DEF Fine, Coded, Owns, Knows
<1>4. UNCHANGED code /\ UNCHANGED <<answers, voids, settled, denied, takenBack>>
  BY DEF RedeemEnter, RedeemPin, RedeemIssue, RedeemSession, RedeemCheck, RedeemAdd, RedeemVoid,
         outsideVars, codeVars
<1>5. CodesGrow /\ CodesFine' /\ \A d \in Redemption : Undisturbed(d)
  BY <1>4, SameCodes, SameLists
<1>6. /\ Used(t.c)' /\ code'[t.c] # NoCode /\ \A y \in answers' : y[1] # t.c
      /\ t.pc \in Early /\ code'[t.c].state = "consumed" => code'[t.c].token = "none"
      /\ t.pc \in Late => Noted(t.c)' /\ code'[t.c].token = t.a
  BY <1>1, <1>2, <1>4 DEF Knows, Used, Noted, NoCode
<1>7. CASE Return(w)
  BY <1>1, <1>5, <1>7, CodeReturn
<1>8. CASE Become(w, <<Settling(t.c)>>)
  <2>1. PICK x : x = Settling(t.c)
    OBVIOUS
  <2>2. Knows(x)' /\ \A d \in Redemption : ~Owns(x, d)
    BY <1>6, <2>1, SettlingKnows
  <2>3. QED
    BY <1>1, <1>5, <1>8, <2>1, <2>2, CodeOne
<1>9. ASSUME NEW x, x.c = t.c, x.pc \in Redeems, "a" \in DOMAIN x,
             x.pc \in Early => t.pc \in Early, x.pc = "redeem.note" => x.a \in Access,
             x.pc \in Late => t.pc \in Late /\ x.a = t.a
      PROVE  Knows(x)' /\ \A d \in Redemption : Owns(x, d) => Owns(t, d)
  BY <1>1, <1>6, <1>9, RedeemsKnows DEF Owns
<1>10. ASSUME NEW x, Become(w, <<x>>), Knows(x)', \A d \in Redemption : Owns(x, d) => Owns(t, d)
       PROVE  CodesInv'
  BY <1>1, <1>5, <1>10, CodeOne
<1>11. ASSUME NEW p, To(w, p), \/ {p, t.pc} \subseteq Early \ {"redeem.note"}
                               \/ {p, t.pc} \subseteq Late
       PROVE  CodesInv'
  <2>1. PICK x : x = [t EXCEPT !.pc = p]
    OBVIOUS
  <2>2. /\ x.pc = p /\ x.c = t.c /\ x.a = t.a /\ "a" \in DOMAIN x /\ x.pc \in Redeems
        /\ Become(w, <<x>>)
    BY <1>3, <1>11, <2>1 DEF Early, Late, Redeems, To
  <2>3. QED
    BY <1>9, <1>10, <1>11, <2>2 DEF Early, Late
<1>12. CASE RedeemEnter(w) \/ RedeemPin(w) \/ RedeemSession(w)
  BY <1>7, <1>11, <1>12 DEF RedeemEnter, RedeemPin, RedeemSession, Doing, Early, Late
<1>13. CASE RedeemIssue(w)
  <2>1. ASSUME NEW a \in Access, Become(w, <<[t EXCEPT !.pc = "redeem.note", !.a = a]>>)
        PROVE  CodesInv'
    <3>1. PICK x : x = [t EXCEPT !.pc = "redeem.note", !.a = a]
      OBVIOUS
    <3>2. /\ x.pc = "redeem.note" /\ x.c = t.c /\ x.a = a /\ "a" \in DOMAIN x
      BY <1>3, <3>1
    <3>3. t.pc = "redeem.issue"
      BY <1>13 DEF RedeemIssue, Doing
    <3>4. Knows(x)' /\ \A d \in Redemption : Owns(x, d) => Owns(t, d)
      BY <1>9, <3>2, <3>3 DEF Redeems, Early, Late
    <3>5. QED
      BY <1>10, <2>1, <3>1, <3>4
  <2>2. QED
    BY <1>7, <1>13, <2>1 DEF RedeemIssue
<1>14. CASE RedeemCheck(w)
  BY <1>8, <1>11, <1>14 DEF RedeemCheck, Doing, Late
<1>15. CASE RedeemAdd(w)
  <2>1. t.pc = "redeem.add"
    BY <1>15 DEF RedeemAdd, Doing
  <2>2. ASSUME NEW f, Become(w, <<Starting(t.c, f, t.s, t.a),
                                  [t EXCEPT !.pc = "redeem.hooks", !.tokens = {<<f, 1>>}]>>)
        PROVE  CodesInv'
    <3>1. PICK x, y : /\ x = Starting(t.c, f, t.s, t.a)
                      /\ y = [t EXCEPT !.pc = "redeem.hooks", !.tokens = {<<f, 1>>}]
      OBVIOUS
    <3>2. y.pc = "redeem.hooks" /\ y.c = t.c /\ y.a = t.a /\ "a" \in DOMAIN y
      BY <1>3, <3>1
    <3>3. Knows(y)' /\ \A d \in Redemption : Owns(y, d) => Owns(t, d)
      BY <1>9, <2>1, <3>2 DEF Redeems, Early, Late
    <3>4. Plain(x)
      BY <3>1, PlainMade
    <3>5. Become(w, <<x, y>>)
      BY <2>2, <3>1
    <3>6. QED
      BY <1>1, <1>5, <3>3, <3>4, <3>5, PlainKnows, CodeTwo
  <2>3. QED
    BY <1>11, <1>15, <2>1, <2>2 DEF RedeemAdd, Late
<1>16. CASE RedeemVoid(w)
  <2>1. PICK x, y : x = Settling(t.c) /\ y = Throwing
    OBVIOUS
  <2>2. Knows(x)' /\ \A d \in Redemption : ~Owns(x, d)
    BY <1>6, <2>1, SettlingKnows
  <2>3. Plain(y)
    BY <2>1, PlainMade
  <2>4. Become(w, <<x, y>>)
    BY <1>16, <2>1 DEF RedeemVoid
  <2>5. QED
    BY <1>1, <1>5, <2>2, <2>3, <2>4, PlainKnows, CodeTwo
<1>17. QED
  BY <1>12, <1>13, <1>14, <1>15, <1>16

(* The token is noted, if there is a record to note it with.               *)
LEMMA NoteCodes ==
  ASSUME CodesInv, FamilyInv', NEW w \in Worker, RedeemNote(w)
  PROVE  CodesInv'
<1>0. PICK t, c : t = Top(w) /\ c = t.c
  OBVIOUS
<1> USE <1>0
<1>1. task[w] # <<>> /\ t.pc = "redeem.note" /\ t.pc \in Redeems \cap Early
  BY DEF RedeemNote, Doing, Redeems, Early
<1>2. Fine(t) /\ Knows(t)
  BY <1>1, TopIn
<1>3. {"pc", "c", "tokens", "a"} \subseteq DOMAIN t /\ c \in Redemption /\ Owns(t, c) /\ t.a \in Access
  BY <1>1, <1>2 DEF Fine, Coded, Owns, Knows
<1>4. UNCHANGED <<answers, voids, settled, denied, takenBack>>
  BY DEF RedeemNote, outsideVars
<1>5. CodeFine(c)
  BY <1>3 DEF CodesInv, CodesFine
<1>6. CASE ~Kept(c) /\ Return(w) /\ UNCHANGED code
  BY <1>1, <1>4, <1>6, SameCodes, SameLists, CodeReturn
<1>7. CASE /\ Kept(c) /\ code' = [code EXCEPT ![c].token = t.a]
           /\ Become(w, <<[t EXCEPT !.pc = "redeem.session", !.void = code[c].void]>>)
  <2>1. PICK v : v = [code[c] EXCEPT !.token = t.a]
    OBVIOUS
  <2>2. /\ DOMAIN code[c] = {"state", "session", "token", "void"} /\ code[c].token = "none"
        /\ code[c].state = "consumed"
    BY <1>1, <1>2, <1>5, <1>7 DEF CodeFine, Kept, NoCode, GoneCode, Knows, Used
  <2>3. /\ DOMAIN v = {"state", "session", "token", "void"} /\ v.state = "consumed" /\ v.token = t.a
    BY <2>1, <2>2
  <2>4. code' = [code EXCEPT ![c] = v] /\ code'[c] = v
    BY <1>3, <1>7, <2>1 DEF CodesInv, CodesFine
  <2>5. CodeFine(c)' /\ v # NoCode
    BY <1>3, <2>3, <2>4 DEF CodeFine, NoCode
  <2>6. ~Noted(c) /\ code[c] # GoneCode
    BY <2>2, CodesAssumption DEF Noted, GoneCode
  <2>7. CodesGrow /\ CodesFine' /\ \A d \in Redemption \ {c} : Undisturbed(d)
    BY <1>3, <1>4, <2>4, <2>5, <2>6, OwnedWrite
  <2>8. PICK x : x = [t EXCEPT !.pc = "redeem.session", !.void = code[c].void]
    OBVIOUS
  <2>9. x.pc = "redeem.session" /\ x.c = c /\ x.a = t.a /\ "a" \in DOMAIN x
    BY <1>3, <2>8
  <2>10. Used(c)' /\ Noted(c)' /\ code'[c].token = t.a
    BY <1>3, <2>3, <2>4 DEF Used, Noted
  <2>11. \A y \in answers' : y[1] # c
    BY <1>1, <1>2, <1>4 DEF Knows
  <2>12. Knows(x)'
    BY <2>9, <2>10, <2>11, RedeemsKnows DEF Redeems, Early
  <2>13. \A d \in Redemption : Owns(x, d) => Owns(t, d)
    BY <1>3, <2>9 DEF Owns
  <2>14. \A d \in Redemption : Undisturbed(d) \/ (t.pc \in Coded /\ Owns(t, d))
    BY <1>1, <1>3, <2>7 DEF Coded
  <2>15. QED
    BY <1>1, <1>7, <2>7, <2>8, <2>12, <2>13, <2>14, CodeOne
<1>8. QED
  BY <1>6, <1>7 DEF RedeemNote

(* The answer, which its owner is the first to give.                       *)
LEMMA AnswerCodes ==
  ASSUME CodesInv, FamilyInv', NEW w \in Worker, RedeemHooks(w)
  PROVE  CodesInv'
<1>0. PICK t, c : t = Top(w) /\ c = t.c
  OBVIOUS
<1> USE <1>0
<1>1. /\ task[w] # <<>> /\ t.pc = "redeem.hooks" /\ Return(w) /\ answers' = answers \cup {<<c, t.a>>}
      /\ UNCHANGED <<code, voids, settled, denied, takenBack>>
  BY DEF RedeemHooks, Doing
<1>2. Fine(t) /\ Knows(t) /\ t.pc \in Redeems \cap Late
  BY <1>1, TopIn DEF Redeems, Late
<1>3. c \in Redemption /\ Owns(t, c) /\ Noted(c) /\ code[c].token = t.a /\ \A x \in answers : x[1] # c
  BY <1>2 DEF Fine, Coded, Owns, Knows
<1>4. CodesGrow
  BY <1>1 DEF CodesGrow, Noted, Ended
<1>5. \A d \in Redemption \ {c} : Undisturbed(d)
  BY <1>1 DEF Undisturbed, Used
<1>6. \A x \in answers' : AnswerFine(x)'
  BY <1>1, <1>3 DEF AnswerFine, Noted, CodesInv, CodesFine
<1>7. RedeemedOnce'
  BY <1>1, <1>3 DEF RedeemedOnce, CodesInv, CodesFine
<1>8. CodesFine'
  <2>1. \A d \in Redemption : CodeFine(d)'
    BY <1>1 DEF CodesInv, CodesFine, CodeFine
  <2>2. \A d \in settled' : SettledFine(d)'
    BY <1>1 DEF CodesInv, CodesFine, SettledFine, Ended, Noted
  <2>3. QED
    BY <1>1, <1>6, <1>7, <2>1, <2>2 DEF CodesInv, CodesFine
<1>9. \A d \in Redemption : Undisturbed(d) \/ (t.pc \in Coded /\ Owns(t, d))
  BY <1>2, <1>3, <1>5 DEF Coded
<1>10. QED
  BY <1>1, <1>4, <1>8, <1>9, CodeReturn

----------------------------------------------------------------------------
(* What a worker takes up.                                                 *)
LEMMA CodeBegun ==
  ASSUME CodesInv, FamilyInv', NEW w \in Worker, NEW x, task' = [task EXCEPT ![w] = <<x>>],
         UNCHANGED <<codeVars, denied, takenBack>>,
         Knows(x)', \A c \in Redemption : Owns(x, c) => Free(w, c)
  PROVE  CodesInv'
<1>1. PICK n : n = <<x>>
  OBVIOUS
<1>2. task' = [task EXCEPT ![w] = n] /\ \A r : In(r, n) => r = x
  BY <1>1, InTuples
<1>3. CodesGrow /\ CodesFine' /\ \A c \in Redemption : Undisturbed(c)
  BY SameCodes, SameLists DEF codeVars
<1>4. \A r : In(r, n) => Knows(r)'
  BY <1>2
<1>5. QED
  BY <1>2, <1>3, <1>4, CodeStep

LEMMA BeginCodes ==
  ASSUME CodesInv, FamilyInv', NEW w \in Worker, BeginCode(w) \/ BeginRedeem(w) \/ BeginVoids(w)
  PROVE  CodesInv'
<1>1. UNCHANGED <<codeVars, denied, takenBack>>
  BY DEF BeginCode, BeginRedeem, BeginVoids, outsideVars
<1>2. CASE BeginCode(w)
  <2>1. PICK c \in load.codes, s \in entering :
          /\ code[c] = NoCode
          /\ \A v \in Worker : ~(Doing(v, "code.save") /\ Top(v).c = c)
          /\ Begin(w, "code", <<[pc |-> "code.save", c |-> c, s |-> s]>>)
    BY <1>2 DEF BeginCode
  <2>2. PICK x : x = [pc |-> "code.save", c |-> c, s |-> s]
    OBVIOUS
  <2>3. x.pc = "code.save" /\ x.c = c /\ task' = [task EXCEPT ![w] = <<x>>]
    BY <2>1, <2>2 DEF Begin
  <2>4. Knows(x)'
    BY <1>1, <2>1, <2>3 DEF Knows, Settles, Redeems, Early, Late, codeVars
  <2>5. Free(w, c)
    <3>1. SUFFICES ASSUME NEW v \in Worker, NEW q, In(q, task[v]), Owns(q, c) PROVE FALSE
      BY DEF Free
    <3>2. Knows(q) /\ ~Used(c)
      BY <2>1, <3>1, InFine DEF Used, NoCode
    <3>3. q.pc = "code.save" /\ q.c = c
      BY <3>1, <3>2 DEF Owns, Knows
    <3>4. PICK u, i : u = task[v] /\ i \in 1 .. Len(u) /\ q = u[i] /\ Good(u)
      BY <3>1 DEF In, CodesInv, FamilyInv
    <3>5. IsStack(u) /\ Len(u) \in Nat
      BY <3>4, IsStackParts DEF Good
    <3>6. CASE i = 1
      <4>1. u # <<>>
        BY <3>4, <3>5, Tuples
      <4>2. Top(v) = q
        BY <3>4, <3>6, <4>1, Tops DEF CodesInv
      <4>3. QED
        BY <2>1, <3>3, <3>4, <4>1, <4>2 DEF Doing
    <3>7. CASE i # 1
      <4>1. i - 1 \in 1 .. Len(u) /\ i - 1 < Len(u) /\ (i - 1) + 1 = i
        BY <3>4, <3>5, <3>7
      <4>2. Over(u[i - 1], u[(i - 1) + 1])
        BY <3>4, <4>1 DEF Good
      <4>3. q.pc \in Waits
        BY <3>4, <4>1, <4>2 DEF Over
      <4>4. QED
        BY <3>3, <4>3 DEF Waits
    <3>8. QED
      BY <3>6, <3>7
  <2>6. \A d \in Redemption : Owns(x, d) => Free(w, d)
    BY <2>3, <2>5 DEF Owns
  <2>7. QED
    BY <1>1, <2>3, <2>4, <2>6, CodeBegun
<1>3. CASE BeginRedeem(w)
  <2>1. PICK c \in Redemption : Begin(w, "redeem", <<[pc |-> "redeem.use", c |-> c]>>)
    BY <1>3 DEF BeginRedeem
  <2>2. PICK x : x = [pc |-> "redeem.use", c |-> c]
    OBVIOUS
  <2>3. x.pc = "redeem.use" /\ task' = [task EXCEPT ![w] = <<x>>]
    BY <2>1, <2>2 DEF Begin
  <2>4. Knows(x)' /\ \A d \in Redemption : ~Owns(x, d)
    BY <2>3 DEF Knows, Owns, Settles, Redeems, Early, Late
  <2>5. QED
    BY <1>1, <2>3, <2>4, CodeBegun
<1>4. CASE BeginVoids(w)
  <2>1. PICK x : x = [pc |-> "voids", todo |-> voids]
    OBVIOUS
  <2>2. x.pc = "voids" /\ x.todo = voids /\ task' = [task EXCEPT ![w] = <<x>>]
    BY <1>4, <2>1 DEF BeginVoids, Begin
  <2>3. \A c \in voids : code'[c] # NoCode
    BY <1>1 DEF CodesInv, CodesFine, codeVars
  <2>4. Knows(x)' /\ \A d \in Redemption : ~Owns(x, d)
    BY <2>2, <2>3 DEF Knows, Owns, Settles, Redeems, Early, Late
  <2>5. QED
    BY <1>1, <2>2, <2>4, CodeBegun
<1>5. QED
  BY <1>2, <1>3, <1>4

(* No worker moves.                                                        *)
LEMMA CodesIdle ==
  ASSUME CodesInv, FamilyInv', CodesFine', UNCHANGED task, CodesGrow,
         \A c \in Redemption : Undisturbed(c)
  PROVE  CodesInv'
<1>1. ASSUME NEW v \in Worker, NEW r, In(r, task'[v]) PROVE Knows(r)'
  <2>1. In(r, task[v])
    BY <1>1
  <2>2. Fine(r) /\ Knows(r)
    BY <2>1, InFine
  <2>3. QED
    BY <2>2, KnowsStays
<1>2. (\A v \in Worker : \A r : In(r, task[v]) => Knows(r))'
  BY <1>1
<1>3. (\A u, v \in Worker : Shares(u, v) => u = v)'
  BY DEF CodesInv, Shares
<1>4. QED
  BY <1>2, <1>3 DEF CodesInv

LEMMA DropCodes ==
  ASSUME CodesInv, FamilyInv', NEW c \in Redemption, CodeDrops(c)
  PROVE  CodesInv'
<1>1. /\ Kept(c) /\ code[c].token = "none" /\ code' = [code EXCEPT ![c] = GoneCode]
      /\ UNCHANGED <<task, answers, voids, settled, denied, takenBack>>
  BY DEF CodeDrops, outsideVars
<1>2. code'[c] = GoneCode
  BY <1>1 DEF CodesInv, CodesFine
<1>3. CodeFine(c)' /\ GoneCode # NoCode
  BY <1>2 DEF CodeFine, GoneCode, NoCode
<1>4. ~Noted(c) /\ code[c] \notin {GoneCode, NoCode}
  BY <1>1, CodesAssumption DEF Noted, Kept, GoneCode, NoCode
<1>5. CodesGrow /\ CodesFine' /\ \A d \in Redemption \ {c} : Undisturbed(d)
  BY <1>1, <1>3, <1>4, OwnedWrite
<1>6. Undisturbed(c)
  BY <1>1, <1>2, <1>4 DEF Undisturbed, Used, GoneCode
<1>7. QED
  BY <1>1, <1>5, <1>6, CodesIdle

LEMMA FamiliesDeny ==
  ASSUME NEW w \in Worker, Work(w) \/ Beginning(w) \/ Fails(w) \/ Crash(w)
  PROVE  denied \subseteq denied' /\ takenBack \subseteq takenBack'
<1>1. CASE RevokeStep(w) \/ RecordStep(w)
  BY <1>1 DEF RevokeStep, RevokeAdd, RevokeMark, RevokeSave, RevokeMembers, RevokeAwaiting, RevokeDeny,
         RevokeSettle, RevokeDone, RecordStep, RecordLink, RecordAdd, RecordPush, RecordSettle, outsideVars
<1>2. CASE StartStep(w)
  BY <1>2 DEF StartStep, FoundSave, FoundConfirm, StartName, StartList, StartDrop, SessionSettled,
         StartEnter, TakeMark, TakeRead, TakeDone, outsideVars
<1>3. CASE UseStep(w) \/ EndStep(w)
  BY <1>3 DEF UseStep, Give, UseRead, UseValid, UseSelect, UseEnter, UseRotate, EndStep, CloseMembers,
         CloseEach, CloseRest, SweepNext, ControlRead, AdoptRead, AdoptCheck, outsideVars
<1>4. CASE Rethrow(w) \/ Beginning(w) \/ Fails(w) \/ Crash(w)
  BY <1>4 DEF Rethrow, Fails, Crash, Beginning, BeginStart, BeginUse, BeginClose, BeginSweep,
         BeginControl, BeginAdopt, outsideVars
<1>5. QED
  BY <1>1, <1>2, <1>3, <1>4 DEF Work

LEMMA CodesInit == Init => CodesInv
<1> SUFFICES ASSUME Init PROVE CodesInv
  OBVIOUS
<1>1. FamilyInv
  BY FamilyInit
<1>2. /\ code = [c \in Redemption |-> NoCode] /\ voids = {} /\ answers = {} /\ settled = {}
      /\ task = [w \in Worker |-> <<>>]
  BY DEF Init, FamiliesInit
<1>3. CodesFine
  BY <1>2 DEF CodesFine, CodeFine, RedeemedOnce
<1>4. ASSUME NEW w \in Worker, NEW r PROVE ~In(r, task[w])
  <2>1. PICK s : s = task[w]
    OBVIOUS
  <2>2. s = <<>>
    BY <1>2, <2>1
  <2>3. ~In(r, s)
    BY <2>2, InTuples
  <2>4. QED
    BY <2>1, <2>3
<1>5. QED
  BY <1>1, <1>3, <1>4 DEF CodesInv, Shares

LEMMA CodesStep == CodesInv /\ [Next]_allVars => CodesInv'
<1> SUFFICES ASSUME CodesInv, [Next]_allVars PROVE CodesInv'
  OBVIOUS
<1>1. FamilyInv'
  BY FamilyStep DEF CodesInv
<1>2. CASE UNCHANGED allVars
  <2>1. UNCHANGED <<task, code, answers, voids, settled, denied, takenBack>>
    BY <1>2 DEF allVars, vars, codeVars, outsideVars
  <2>2. CodesGrow /\ CodesFine' /\ \A c \in Redemption : Undisturbed(c)
    BY <2>1, SameCodes, SameLists
  <2>3. QED
    BY <1>1, <2>1, <2>2, CodesIdle
<1>3. CASE Next
  <2>1. ASSUME NEW w \in Worker, Work(w) \/ Beginning(w) \/ Fails(w) \/ Crash(w), UNCHANGED codeVars
        PROVE  CodesInv'
    BY <1>1, <2>1, FamiliesAside, FamiliesDeny, AsideInv DEF CodesInv
  <2>2. ASSUME NEW w \in Worker, CodeWork(w) \/ BeginCode(w) \/ BeginRedeem(w) \/ BeginVoids(w)
        PROVE  CodesInv'
    BY <1>1, <2>2, SettleCodes, VoidsCodes, IssueCodes, UseCodes, RedeemCodes, NoteCodes, AnswerCodes,
       BeginCodes
    DEF CodeWork, RedeemStep
  <2>3. QED
    BY <1>1, <1>3, <2>1, <2>2, DropCodes DEF Next, FamiliesNext
<1>4. QED
  BY <1>2, <1>3

LEMMA CodesInvAlways == Spec => []CodesInv
BY CodesInit, CodesStep, PTL DEF Spec

----------------------------------------------------------------------------
(* However many present a code at once, and wherever one that used it up   *)
(* fails or stops, one redemption answers it: it is used up before it is   *)
(* checked, in the change that reads it (grant.ts handle).                 *)
THEOREM AnsweredOnce == Spec => []RedeemedOnce
<1>1. CodesInv => RedeemedOnce
  BY DEF CodesInv, CodesFine
<1>2. QED
  BY <1>1, CodesInvAlways, PTL

(* A code voided to the end keeps nothing: the token its redemption        *)
(* answered, before the voiding or after, is denied, and no family of it   *)
(* lives or comes alive (grant.ts settle against handle).                  *)
THEOREM VoidedForGood == Spec => []VoidedKeepsNothing
<1>1. CodesInv => VoidedKeepsNothing
  <2> SUFFICES ASSUME CodesInv, NEW c \in settled
               PROVE  /\ \A x \in answers : x[1] = c => x[2] \in denied
                      /\ \A f \in Family : begun[c] = f => ~Alive(f)
    BY DEF VoidedKeepsNothing
  <2>1. Ended(c) /\ c \in takenBack
    BY DEF CodesInv, CodesFine, SettledFine
  <2>2. ASSUME NEW x \in answers, x[1] = c PROVE x[2] \in denied
    BY <2>1, <2>2 DEF CodesInv, CodesFine, AnswerFine, Ended, Noted, GoneCode
  <2>3. ASSUME NEW f \in Family, begun[c] = f PROVE ~Alive(f)
    BY <2>1, <2>3, States DEF CodesInv, FamilyInv, TakenFine, TakenDown
  <2>4. QED
    BY <2>2, <2>3
<1>2. QED
  BY <1>1, CodesInvAlways, PTL

----------------------------------------------------------------------------
(***************************************************************************)
(* What a revocation that is off the settle list reached, whatever cap     *)
(* pushed tokens out, and whatever was issued or adopted while it ran.     *)
(*                                                                         *)
(* Beside FamilyInv: a name drawn for an access token is carried by one    *)
(* worker until it is out, and out only once the family's list was seen to *)
(* hold it with the family live (Opens); what its top frame saw (Sees)     *)
(* lasts against every worker that does not carry the token.               *)
(***************************************************************************)
Recording == {"record.link", "record.add"}
Checked == {"found.confirm", "use.select", "use.enter", "use.rotate", "adopt.check"}
Noting == {"redeem.note", "redeem.session", "redeem.check", "redeem.add"}
Outgoing == {"give", "redeem.hooks"}
Naming == Recording \cup Checked \cup {"found.save", "start.name", "start.list", "start.enter", "adopt.read"}
Carrying == Naming \cup Noting \cup Outgoing

(* The worker w carries the access token a, from its draw until it is out. *)
Carries(r, a) == r.pc \in Carrying /\ r.a = a
Carrier(w, a) == \E r : In(r, task[w]) /\ Carries(r, a)

Typed(r) ==
  /\ r.pc \in Carrying => "a" \in DOMAIN r /\ r.a \in Access \cap drawn
  /\ r.pc \in Naming => "f" \in DOMAIN r /\ r.f \in Family
  /\ r.pc \in Revoking => {"todo", "gone"} \subseteq DOMAIN r
  /\ r.pc \in Redeems \cup Uses => "a" \in DOMAIN r

(* Out: a response carried it, or is about to.                             *)
Sent(w, a) == task[w] # <<>> /\ Head(task[w]).pc \in Outgoing /\ Head(task[w]).a = a
Out(a) == a \in held \/ \E v \in Worker : Sent(v, a)

(* A revocation of f finds a, on the family's list or done with.           *)
Has(f, a) == a \in issued[f].held \cup issued[f].awaiting \cup denied
Covers(a) ==
  link[a] \in Family => Has(link[a], a) /\ (Dead(link[a]) => link[a] \in settles \/ a \in denied)
Opens(a) == link[a] \in Family => Has(link[a], a) /\ ~Dead(link[a])
Within(f, S) == \A a \in Access : Out(a) /\ link[a] = f => a \in S \cup denied

Passes(q) ==
  /\ q.pc \in Revoking => q.gone \subseteq denied
  /\ q.pc \in {"revoke.mark", "revoke.save"} /\ q.f \in Family => Dead(q.f) \/ q.f \in settles
  /\ q.pc = "revoke.awaiting" /\ q.f \in Family => Within(q.f, q.todo \cup issued[q.f].awaiting)
  /\ q.pc = "revoke.deny" /\ q.f \in Family => Within(q.f, q.todo)
  /\ q.pc = "revoke.settle" => q.todo \subseteq denied
  /\ q.pc \in {"revoke.settle", "revoke.done"} /\ q.f \in Family => Within(q.f, {})

Sees(q) ==
  /\ q.pc = "record.add" => link[q.a] = q.f
  /\ q.pc = "record.settle" => q.a \in denied
  /\ q.pc \in Checked => link[q.a] = q.f /\ Has(q.f, q.a)
  /\ q.pc \in Noting => link[q.a] = "none"
  /\ Passes(q)

(* What a frame that waits knows of the token of the one it waits for.     *)
Rests(r, q) ==
  /\ r.pc \notin Uses \cup {"give", "adopt.read", "adopt.check"}
  /\ q.pc \in {"found.confirm", "use.select", "adopt.check"} =>
       /\ r.pc \in Recording \cup {"record.push"}
       /\ r.pc \in Recording => r.f = q.f /\ r.a = q.a
  /\ q.pc \in Outgoing =>
       /\ r.pc \in {"start.name", "start.list", "start.enter", "found.save", "found.confirm", "start.drop",
                    "throw"}
       /\ r.pc \in Carrying => r.a = q.a

Neatly(s) == \A i \in 1 .. Len(s) : i < Len(s) => Rests(s[i], s[i + 1])

Stored ==
  /\ DOMAIN link = Access /\ DOMAIN issued = Family
  /\ \A f \in Family : DOMAIN issued[f] = {"held", "awaiting"}
  /\ \A a \in Access : a \notin drawn => link[a] = "none"
  /\ held \subseteq Access \cap drawn

CleanInv ==
  /\ FamilyInv
  /\ Stored
  /\ \A a \in Access : Out(a) => Covers(a)
  /\ \A w \in Worker : \A r : In(r, task[w]) => Typed(r)
  /\ \A w \in Worker : task[w] # <<>> => Sees(Head(task[w]))
  /\ \A w \in Worker : Neatly(task[w])
  /\ \A w \in Worker, a \in held : ~Carrier(w, a)
  /\ \A v, w \in Worker, a \in Access : Carrier(v, a) /\ Carrier(w, a) => v = w

----------------------------------------------------------------------------
(* A step of w, but for what it leaves on its stack.                       *)
Lasting(w) ==
  /\ Stored' /\ denied \subseteq denied' /\ drawn \subseteq drawn'
  /\ \A a \in Access : link'[a] = link[a] \/ (Carrier(w, a) /\ ~Out(a))
  /\ \A f \in Family, a \in Access : Has(f, a) => Has(f, a)'
  /\ \A f \in Family : issued[f].awaiting \subseteq issued'[f].awaiting \cup denied'
  /\ \A f \in Family : (Dead(f) => Dead(f)') /\ (Dead(f)' => Dead(f) \/ f \in settles')
  /\ \A f \in Family : f \in settles => f \in settles' \/ (Dead(f) /\ Within(f, {}))
  /\ \A a \in held' : a \in held \/ Sent(w, a)

(* And the stack it leaves.                                                *)
Own(w, r) == \A a \in Access : Carries(r, a) => Carrier(w, a) \/ a \notin drawn
Neat(w, n) ==
  /\ task' = [task EXCEPT ![w] = n]
  /\ \A r : In(r, n) => Typed(r)' /\ Own(w, r)
  /\ n # <<>> => Sees(Head(n))' /\ (Head(n).pc \in Outgoing => Opens(Head(n).a)')
  /\ Neatly(n)
  /\ held' = held \/ n = <<>>

LEMMA HeadIn ==
  ASSUME NEW s, IsStack(s), s # <<>>
  PROVE  In(Head(s), s)
<1>1. Len(s) \in Nat /\ Len(s) > 0 /\ Head(s) = s[1]
  BY IsStackParts
<1>2. 1 \in 1 .. Len(s)
  BY <1>1
<1>3. QED
  BY <1>1, <1>2 DEF In

(* What is out was drawn, and carried by nobody but who is to send it.     *)
LEMMA SentIs ==
  ASSUME CleanInv, NEW w \in Worker, NEW a, Sent(w, a)
  PROVE  Carrier(w, a) /\ a \in Access \cap drawn
<1>1. In(Head(task[w]), task[w])
  BY HeadIn DEF CleanInv, FamilyInv, Good, Sent
<1>2. Typed(Head(task[w]))
  BY <1>1 DEF CleanInv
<1>3. QED
  BY <1>1, <1>2 DEF Sent, Carrier, Carries, Carrying, Typed

LEMMA OutIs ==
  ASSUME CleanInv, NEW a, Out(a)
  PROVE  a \in Access \cap drawn
BY SentIs DEF Out, CleanInv, Stored

LEMMA CarriedOut ==
  ASSUME CleanInv, NEW w \in Worker, NEW a \in Access, Carrier(w, a), Out(a)
  PROVE  Sent(w, a)
BY SentIs DEF CleanInv, Out

(* What came out in a step of w had been opened.                           *)
LEMMA OutOpens ==
  ASSUME CleanInv, NEW w \in Worker, NEW n, Lasting(w), Neat(w, n), NEW a \in Access, Out(a)'
  PROVE  Out(a) \/ Opens(a)'
<1>1. DOMAIN task = Worker /\ task' = [task EXCEPT ![w] = n]
  BY DEF CleanInv, FamilyInv, Shapes, Neat
<1>2. CASE a \in held'
  BY <1>2 DEF Lasting, Out
<1>3. ASSUME NEW v \in Worker, Sent(v, a)' PROVE Out(a) \/ Opens(a)'
  <2>1. CASE v = w
    <3>1. task'[v] = n
      BY <1>1, <2>1
    <3>2. n # <<>> /\ Head(n).pc \in Outgoing /\ Head(n).a = a
      BY <1>3, <3>1 DEF Sent
    <3>3. Opens(Head(n).a)'
      BY <3>2 DEF Neat
    <3>4. QED
      BY <3>2, <3>3
  <2>2. CASE v # w
    <3>1. task'[v] = task[v]
      BY <1>1, <2>2
    <3>2. QED
      BY <1>3, <3>1 DEF Sent, Out
  <2>3. QED
    BY <2>1, <2>2
<1>4. QED
  BY <1>2, <1>3 DEF Out

(* What is out stays covered.                                              *)
LEMMA LinkKept ==
  ASSUME NEW w, Lasting(w), NEW a \in Access, Out(a)
  PROVE  link'[a] = link[a]
BY DEF Lasting

LEMMA CoversStay ==
  ASSUME CleanInv, NEW w \in Worker, NEW n, Lasting(w), Neat(w, n), NEW a \in Access, Out(a)'
  PROVE  Covers(a)'
<1>1. CASE Opens(a)'
  BY <1>1 DEF Opens, Covers
<1>2. CASE Out(a)
  <2>1. link'[a] = link[a] /\ Covers(a)
    BY <1>2, LinkKept DEF CleanInv
  <2>2. SUFFICES ASSUME NEW f \in Family, f = link[a] PROVE Covers(a)'
    BY <2>1 DEF Covers
  <2>3. Has(f, a)'
    BY <2>1, <2>2 DEF Covers, Lasting
  <2>4. Dead(f)' => f \in settles' \/ a \in denied'
    <3>1. CASE ~Dead(f)
      BY <3>1 DEF Lasting
    <3>2. CASE a \in denied
      BY <3>2 DEF Lasting
    <3>3. CASE f \in settles
      <4>1. Within(f, {}) => a \in denied
        BY <1>2, <2>2 DEF Within
      <4>2. QED
        BY <3>3, <4>1 DEF Lasting
    <3>4. QED
      BY <2>1, <2>2, <3>1, <3>2, <3>3 DEF Covers
  <2>5. QED
    BY <2>1, <2>2, <2>3, <2>4 DEF Covers
<1>3. QED
  BY <1>1, <1>2, OutOpens

(* What is within stays so, once the family is dead.                       *)
LEMMA WithinStays ==
  ASSUME CleanInv, NEW w \in Worker, NEW n, Lasting(w), Neat(w, n),
         NEW f \in Family, Dead(f), NEW S, Within(f, S), NEW T, S \subseteq T \cup denied'
  PROVE  Within(f, T)'
<1> SUFFICES ASSUME NEW a \in Access, Out(a)', link'[a] = f PROVE a \in T \cup denied'
  BY DEF Within
<1>1. ~Opens(a)'
  <2>1. Dead(f)'
    BY DEF Lasting
  <2>2. QED
    BY <2>1 DEF Opens
<1>2. Out(a)
  BY <1>1, OutOpens
<1>3. a \in S \cup denied
  BY <1>2, LinkKept DEF Within
<1>4. QED
  BY <1>3 DEF Lasting

LEMMA SeesStays ==
  ASSUME CleanInv, NEW w \in Worker, NEW n, Lasting(w), Neat(w, n),
         NEW q, Fine(q), Typed(q), Sees(q), \A a \in Access : Carries(q, a) => ~Carrier(w, a)
  PROVE  Sees(q)'
<1>1. ASSUME q.pc \in Carrying PROVE q.a \in Access /\ link'[q.a] = link[q.a]
  <2>1. q.a \in Access /\ Carries(q, q.a)
    BY <1>1 DEF Typed, Carries
  <2>2. QED
    BY <2>1 DEF Lasting
<1>2. q.pc = "record.add" => link'[q.a] = q.f
  BY <1>1 DEF Sees, Carrying, Naming, Recording
<1>3. q.pc = "record.settle" => q.a \in denied'
  BY DEF Sees, Lasting
<1>4. ASSUME q.pc \in Checked PROVE link'[q.a] = q.f /\ Has(q.f, q.a)'
  <2>1. q.pc \in Carrying /\ q.f \in Family
    BY <1>4 DEF Carrying, Naming, Typed
  <2>2. QED
    BY <1>1, <1>4, <2>1 DEF Sees, Lasting
<1>5. q.pc \in Noting => link'[q.a] = "none"
  BY <1>1 DEF Sees, Carrying
<1>6. Passes(q)'
  <2>1. Passes(q)
    BY DEF Sees
  <2>2. q.pc \in Revoking => q.gone \subseteq denied'
    BY <2>1 DEF Passes, Lasting
  <2>3. q.pc \in {"revoke.mark", "revoke.save"} /\ q.f \in Family => Dead(q.f)' \/ q.f \in settles'
    BY <2>1 DEF Passes, Lasting
  <2>4. q.pc \in Marked /\ q.f \in Family => Dead(q.f)
    BY DEF Fine
  <2>5. ASSUME q.pc = "revoke.awaiting", q.f \in Family
        PROVE  Within(q.f, q.todo \cup issued[q.f].awaiting)'
    <3>1. PICK f, S, T : f = q.f /\ S = q.todo \cup issued[f].awaiting /\ T = q.todo \cup issued'[f].awaiting
      OBVIOUS
    <3>2. Within(f, S) /\ Dead(f)
      BY <2>1, <2>4, <2>5, <3>1 DEF Passes, Marked
    <3>3. S \subseteq T \cup denied'
      BY <2>5, <3>1 DEF Lasting
    <3>4. Within(f, T)'
      BY <2>5, <3>1, <3>2, <3>3, WithinStays
    <3>5. QED
      BY <3>1, <3>4
  <2>6. ASSUME q.pc = "revoke.deny", q.f \in Family PROVE Within(q.f, q.todo)'
    BY <2>1, <2>4, <2>6, WithinStays DEF Passes, Marked
  <2>7. q.pc = "revoke.settle" => q.todo \subseteq denied'
    BY <2>1 DEF Passes, Lasting
  <2>8. ASSUME q.pc \in {"revoke.settle", "revoke.done"}, q.f \in Family PROVE Within(q.f, {})'
    BY <2>1, <2>4, <2>8, WithinStays DEF Passes, Marked
  <2>9. QED
    BY <2>2, <2>3, <2>5, <2>6, <2>7, <2>8 DEF Passes
<1>7. QED
  BY <1>2, <1>3, <1>4, <1>5, <1>6 DEF Sees

LEMMA CleanStep ==
  ASSUME CleanInv, FamilyInv', NEW w \in Worker, NEW n, Lasting(w), Neat(w, n)
  PROVE  CleanInv'
<1>1. DOMAIN task = Worker /\ task' = [task EXCEPT ![w] = n]
  BY DEF CleanInv, FamilyInv, Shapes, Neat
<1>2. task'[w] = n /\ \A v \in Worker \ {w} : task'[v] = task[v]
  BY <1>1
<1>3. (\A a \in Access : Out(a) => Covers(a))'
  BY CoversStay
<1>4. ASSUME NEW v \in Worker \ {w}, NEW a \in Access, Carrier(v, a) PROVE ~Carrier(w, a)
  BY <1>4 DEF CleanInv
<1>5. ASSUME NEW v \in Worker, NEW r, In(r, task'[v]) PROVE Typed(r)'
  <2>1. CASE v = w
    BY <1>2, <1>5, <2>1 DEF Neat
  <2>2. CASE v # w
    <3>1. Typed(r)
      BY <1>2, <1>5, <2>2 DEF CleanInv
    <3>2. QED
      BY <3>1 DEF Typed, Lasting
  <2>3. QED
    BY <2>1, <2>2
<1>6. ASSUME NEW v \in Worker, NEW s, s = task'[v], s # <<>> PROVE Sees(Head(s))'
  <2>1. CASE v = w
    BY <1>2, <1>6, <2>1 DEF Neat
  <2>2. CASE v # w
    <3>1. s = task[v] /\ Good(s)
      BY <1>2, <1>6, <2>2 DEF CleanInv, FamilyInv
    <3>2. PICK q : q = Head(s)
      OBVIOUS
    <3>3. In(q, s) /\ Fine(q)
      BY <1>6, <3>1, <3>2, HeadIn, HeadOf DEF Good
    <3>4. Typed(q) /\ Sees(q)
      BY <1>6, <3>1, <3>2, <3>3 DEF CleanInv
    <3>5. \A a \in Access : Carries(q, a) => ~Carrier(w, a)
      BY <1>4, <2>2, <3>1, <3>3 DEF Carrier
    <3>6. Sees(q)'
      BY <3>3, <3>4, <3>5, SeesStays
    <3>7. QED
      BY <3>2, <3>6
  <2>3. QED
    BY <2>1, <2>2
<1>7. (\A v \in Worker : task[v] # <<>> => Sees(Head(task[v])))'
  <2>1. ASSUME NEW v \in Worker, task'[v] # <<>> PROVE Sees(Head(task[v]))'
    <3>1. PICK s : s = task'[v]
      OBVIOUS
    <3>2. Sees(Head(s))'
      BY <1>6, <2>1, <3>1
    <3>3. QED
      BY <3>1, <3>2
  <2>2. QED
    BY <2>1
<1>8. \A v \in Worker : Neatly(task'[v])
  <2>1. ASSUME NEW v \in Worker PROVE Neatly(task'[v])
    BY <1>2 DEF Neat, CleanInv
  <2>2. QED
    BY <2>1
<1>9. ASSUME NEW v \in Worker, NEW a \in Access, Carrier(v, a)'
      PROVE  Carrier(v, a) \/ (v = w /\ a \notin drawn)
  <2>1. PICK r : In(r, task'[v]) /\ Carries(r, a)
    BY <1>9 DEF Carrier
  <2>2. CASE v = w
    <3>1. Own(w, r)
      BY <1>2, <2>1, <2>2 DEF Neat
    <3>2. QED
      BY <2>1, <2>2, <3>1 DEF Own
  <2>3. CASE v # w
    BY <1>2, <2>1, <2>3 DEF Carrier
  <2>4. QED
    BY <2>2, <2>3
<1>10. ASSUME NEW v \in Worker, NEW a \in Access, Carrier(v, a) PROVE a \in drawn
  BY <1>10 DEF Carrier, CleanInv, Typed, Carries
<1>11. ASSUME NEW v \in Worker, NEW a \in held', Carrier(v, a)' PROVE FALSE
  <2>1. Out(a) /\ a \in Access /\ a \in drawn
    BY OutIs DEF Lasting, Out
  <2>2. Carrier(v, a)
    BY <1>9, <1>11, <2>1
  <2>3. a \notin held
    BY <2>2 DEF CleanInv
  <2>4. n = <<>>
    BY <2>3 DEF Neat
  <2>5. v # w
    BY <1>2, <1>11, <2>4, InTuples DEF Carrier
  <2>6. Sent(w, a)
    BY <2>3 DEF Lasting
  <2>7. QED
    BY <2>1, <2>2, <2>5, <2>6, SentIs DEF CleanInv
<1>12. ASSUME NEW u \in Worker, NEW v \in Worker, NEW a \in Access, Carrier(u, a)', Carrier(v, a)'
       PROVE  u = v
  BY <1>9, <1>10, <1>12 DEF CleanInv
<1>13. Stored'
  BY DEF Lasting
<1>14. (\A v \in Worker : \A r : In(r, task[v]) => Typed(r))'
  BY <1>5
<1>15. (\A v \in Worker, a \in held : ~Carrier(v, a))'
  BY <1>11
<1>16. (\A u, v \in Worker, a \in Access : Carrier(u, a) /\ Carrier(v, a) => u = v)'
  BY <1>12
<1>17. (\A v \in Worker : Neatly(task[v]))'
  BY <1>8
<1>18. QED
  BY <1>3, <1>7, <1>13, <1>14, <1>15, <1>16, <1>17 DEF CleanInv

----------------------------------------------------------------------------
(* The stacks that steps leave.                                            *)
Neatened(w) == \E n : Neat(w, n)
Frame(w, x) == Typed(x)' /\ Own(w, x)
First(x) == Sees(x)' /\ (x.pc \in Outgoing => Opens(x.a)')
Heirs(t, x) == \A q : Over(t, q) /\ Rests(t, q) => Rests(x, q)
Steady == held' = held /\ drawn \subseteq drawn'

LEMMA NeatlyPushed ==
  ASSUME NEW s, Good(s), Neatly(s), s # <<>>, NEW a, IsStack(a), a # <<>>, Neatly(a),
         Heirs(s[1], a[Len(a)])
  PROVE  Neatly(a \o Tail(s))
<1> DEFINE n == a \o Tail(s)
           k == Len(a)
           l == Len(s)
<1>1. IsStack(s) /\ l \in Nat \ {0} /\ k \in Nat \ {0}
  BY IsStackParts DEF Good
<1>2. /\ Len(n) = k + l - 1
      /\ \A i \in 1 .. Len(n) : n[i] = IF i <= k THEN a[i] ELSE s[i - k + 1]
  BY <1>1, Made
<1>3. \A i \in 1 .. k : i < k => Rests(a[i], a[i + 1])
  BY DEF Neatly
<1>4. \A i \in 1 .. l : i < l => Over(s[i], s[i + 1]) /\ Rests(s[i], s[i + 1])
  BY DEF Good, Neatly
<1>5. Heirs(s[1], a[k])
  OBVIOUS
<1> HIDE DEF n, k, l
<1>6. ASSUME NEW i \in 1 .. Len(n), i < Len(n) PROVE Rests(n[i], n[i + 1])
  <2>1. CASE i < k
    BY <1>1, <1>2, <1>3, <1>6, <2>1
  <2>2. CASE i >= k
    <3> DEFINE j == i - k + 1
    <3>1. j \in 1 .. l /\ j < l
      BY <1>1, <1>2, <1>6, <2>2
    <3>2. n[i + 1] = s[j + 1] /\ n[i] = IF i = k THEN a[k] ELSE s[j]
      BY <1>1, <1>2, <1>6, <2>2
    <3>3. i = k => j = 1
      BY <1>1
    <3> HIDE DEF j
    <3>4. Over(s[j], s[j + 1]) /\ Rests(s[j], s[j + 1])
      BY <1>4, <3>1
    <3>5. QED
      BY <1>5, <3>2, <3>3, <3>4 DEF Heirs
  <2>3. QED
    BY <1>1, <1>2, <1>6, <2>1, <2>2
<1>7. QED
  BY <1>6 DEF Neatly, n

LEMMA NeatlyReturned ==
  ASSUME NEW s, Good(s), Neatly(s), s # <<>>, NEW n, n = <<>> \o Tail(s)
  PROVE  /\ Neatly(n) /\ \A r : In(r, n) => In(r, s)
         /\ n # <<>> => /\ In(Head(n), s) /\ Fine(Head(n)) /\ Len(s) # 1
                        /\ Over(s[1], Head(n)) /\ Rests(s[1], Head(n))
<1> DEFINE l == Len(s)
           k == Len(n)
<1>1. IsStack(s) /\ l \in Nat \ {0}
  BY IsStackParts DEF Good
<1>2. IsStack(n) /\ k = l - 1 /\ \A i \in 1 .. k : n[i] = s[i + 1]
  BY <1>1, Made, IsStack(<<>>), Len(<<>>) = 0 DEF IsStack
<1>3. \A i \in 1 .. l : i < l => Over(s[i], s[i + 1]) /\ Rests(s[i], s[i + 1])
  BY DEF Good, Neatly
<1>4. n # <<>> => k > 0 /\ Head(n) = n[1]
  BY <1>2, IsStackParts
<1>5. \A i \in 1 .. l : Fine(s[i])
  BY DEF Good
<1>6. \A r : In(r, s) <=> \E i \in 1 .. l : r = s[i]
  BY DEF In
<1>7. \A r : In(r, n) <=> \E i \in 1 .. k : r = n[i]
  BY DEF In
<1>8. Neatly(n) <=> \A i \in 1 .. k : i < k => Rests(n[i], n[i + 1])
  BY DEF Neatly
<1> HIDE DEF l, k
<1>9. ASSUME NEW i \in 1 .. k, i < k PROVE Rests(n[i], n[i + 1])
  <2>1. i + 1 \in 1 .. l /\ i + 1 < l /\ i + 1 \in 1 .. k
    BY <1>1, <1>2, <1>9
  <2>2. Rests(s[i + 1], s[(i + 1) + 1])
    BY <1>3, <2>1
  <2>3. QED
    BY <1>2, <2>1, <2>2
<1>10. \A r : In(r, n) => In(r, s)
  <2>1. ASSUME NEW i \in 1 .. k PROVE i + 1 \in 1 .. l
    BY <1>1, <1>2
  <2>2. QED
    BY <1>2, <1>6, <1>7, <2>1
<1>11. ASSUME n # <<>>
       PROVE  /\ In(Head(n), s) /\ Fine(Head(n)) /\ l # 1
              /\ Over(s[1], Head(n)) /\ Rests(s[1], Head(n))
  <2>1. 1 \in 1 .. k /\ 1 \in 1 .. l /\ 1 < l /\ 2 \in 1 .. l /\ 1 + 1 = 2
    BY <1>1, <1>2, <1>4, <1>11
  <2>2. Head(n) = s[2]
    BY <1>2, <1>4, <1>11, <2>1
  <2>3. Over(s[1], s[2]) /\ Rests(s[1], s[2])
    BY <1>3, <2>1
  <2>4. In(Head(n), s) /\ Fine(s[2])
    BY <1>5, <1>6, <2>1, <2>2
  <2>5. l # 1
    BY <2>1
  <2>6. QED
    BY <2>2, <2>3, <2>4, <2>5
<1>12. QED
  BY <1>8, <1>9, <1>10, <1>11 DEF l

(* What stays on the stack keeps its name.                                 *)
LEMMA FrameStays ==
  ASSUME CleanInv, NEW w \in Worker, NEW r, In(r, task[w]), drawn \subseteq drawn'
  PROVE  Frame(w, r)
<1>1. Typed(r)
  BY DEF CleanInv
<1>2. Typed(r)'
  BY <1>1 DEF Typed
<1>3. QED
  BY <1>2 DEF Frame, Own, Carrier

LEMMA NeatPush ==
  ASSUME CleanInv, NEW w \in Worker, task[w] # <<>>, Steady, NEW a, IsStack(a), a # <<>>, Become(w, a),
         Neatly(a), Heirs(Top(w), a[Len(a)]), First(a[1]), \A r : In(r, a) => Frame(w, r)
  PROVE  Neatened(w)
<1>1. PICK s, n : s = task[w] /\ n = a \o Tail(s)
  OBVIOUS
<1>2. Good(s) /\ Neatly(s) /\ s # <<>> /\ Top(w) = s[1]
  BY <1>1, Tops DEF CleanInv
<1>3. task' = [task EXCEPT ![w] = n]
  BY <1>1 DEF Become
<1>4. Neatly(n)
  BY <1>1, <1>2, NeatlyPushed
<1>5. Head(n) = a[1]
  BY <1>1, <1>2, HeadPushed
<1>6. ASSUME NEW r, In(r, n) PROVE Frame(w, r)
  BY <1>1, <1>2, <1>6, InPushed, FrameStays DEF Steady
<1>7. Sees(Head(n))' /\ (Head(n).pc \in Outgoing => Opens(Head(n).a)')
  BY <1>5 DEF First
<1>8. Neat(w, n)
  BY <1>3, <1>4, <1>6, <1>7 DEF Neat, Frame, Steady
<1>9. QED
  BY <1>8 DEF Neatened

LEMMA NeatOne ==
  ASSUME CleanInv, NEW w \in Worker, task[w] # <<>>, Steady, NEW x, Become(w, <<x>>),
         Heirs(Top(w), x), First(x), Frame(w, x)
  PROVE  Neatened(w)
<1>1. PICK a : a = <<x>>
  OBVIOUS
<1>2. /\ IsStack(a) /\ Become(w, a) /\ a # <<>> /\ Len(a) = 1 /\ a[1] = x
      /\ \A r : In(r, a) => r = x
  BY <1>1, Tuples, InTuples
<1>3. Neatly(a)
  BY <1>2 DEF Neatly
<1>4. \A r : In(r, a) => Frame(w, r)
  BY <1>2
<1>5. First(a[1]) /\ Heirs(Top(w), a[Len(a)])
  BY <1>2
<1>6. QED
  BY <1>2, <1>3, <1>4, <1>5, NeatPush

LEMMA NeatTwo ==
  ASSUME CleanInv, NEW w \in Worker, task[w] # <<>>, Steady, NEW x, NEW y, Become(w, <<x, y>>),
         Heirs(Top(w), y), First(x), Frame(w, x), Frame(w, y), Rests(x, y)
  PROVE  Neatened(w)
<1>1. PICK a : a = <<x, y>>
  OBVIOUS
<1>2. /\ IsStack(a) /\ Become(w, a) /\ a # <<>> /\ Len(a) = 2 /\ a[1] = x /\ a[2] = y
      /\ \A r : In(r, a) => r \in {x, y}
  BY <1>1, Tuples, InTuples
<1>3. Neatly(a)
  <2>1. \A i \in 1 .. 2 : i < 2 => Rests(a[i], a[i + 1])
    BY <1>2
  <2>2. QED
    BY <1>2, <2>1 DEF Neatly
<1>4. \A r : In(r, a) => Frame(w, r)
  BY <1>2
<1>5. First(a[1]) /\ Heirs(Top(w), a[Len(a)])
  BY <1>2
<1>6. QED
  BY <1>2, <1>3, <1>4, <1>5, NeatPush

LEMMA NeatThree ==
  ASSUME CleanInv, NEW w \in Worker, task[w] # <<>>, Steady, NEW x, NEW y, NEW z,
         Become(w, <<x, y, z>>), Heirs(Top(w), z), First(x),
         Frame(w, x), Frame(w, y), Frame(w, z), Rests(x, y), Rests(y, z)
  PROVE  Neatened(w)
<1>1. PICK a : a = <<x, y, z>>
  OBVIOUS
<1>2. /\ IsStack(a) /\ Become(w, a) /\ a # <<>> /\ Len(a) = 3 /\ a[1] = x /\ a[2] = y /\ a[3] = z
      /\ \A r : In(r, a) => r \in {x, y, z}
  BY <1>1, Tuples, InTuples
<1>3. Neatly(a)
  <2>1. \A i \in 1 .. 3 : i < 3 => Rests(a[i], a[i + 1])
    BY <1>2
  <2>2. QED
    BY <1>2, <2>1 DEF Neatly
<1>4. \A r : In(r, a) => Frame(w, r)
  BY <1>2
<1>5. First(a[1]) /\ Heirs(Top(w), a[Len(a)])
  BY <1>2
<1>6. QED
  BY <1>2, <1>3, <1>4, <1>5, NeatPush

(* A call returns: the frame that waited for it sees what it did.          *)
LEMMA NeatReturn ==
  ASSUME CleanInv, NEW w \in Worker, task[w] # <<>>, Return(w), drawn \subseteq drawn',
         held' = held \/ Top(w).pc \in Bases \cup {"give"},
         \A q : Fine(q) /\ Typed(q) /\ Over(Top(w), q) /\ Rests(Top(w), q) => First(q)
  PROVE  Neatened(w)
<1>1. PICK s, n : s = task[w] /\ n = <<>> \o Tail(s)
  OBVIOUS
<1>2. Good(s) /\ Neatly(s) /\ s # <<>> /\ Top(w) = s[1]
  BY <1>1, Tops DEF CleanInv
<1>3. task' = [task EXCEPT ![w] = n]
  BY <1>1 DEF Become, Return
<1>4. /\ Neatly(n) /\ \A r : In(r, n) => In(r, s)
      /\ n # <<>> => /\ In(Head(n), s) /\ Fine(Head(n)) /\ Len(s) # 1
                     /\ Over(s[1], Head(n)) /\ Rests(s[1], Head(n))
  BY <1>1, <1>2, NeatlyReturned
<1>5. ASSUME NEW r, In(r, n) PROVE Frame(w, r)
  BY <1>1, <1>4, <1>5, FrameStays
<1>6. n # <<>> => First(Head(n))
  BY <1>1, <1>2, <1>4 DEF CleanInv
<1>7. held' = held \/ n = <<>>
  BY <1>2, <1>4 DEF Over, Rests
<1>8. Neat(w, n)
  BY <1>3, <1>4, <1>5, <1>6, <1>7 DEF Neat, Frame, First
<1>9. QED
  BY <1>8 DEF Neatened

(* Frames with no token to care about.                                     *)
Bare(x) == x.pc \notin Carrying \cup Revoking \cup Redeems \cup Uses \cup {"record.settle"}

LEMMA BareIs ==
  ASSUME NEW w, NEW x, Bare(x)
  PROVE  Frame(w, x) /\ First(x)
<1>1. x.pc \notin Carrying \cup Revoking \cup Redeems \cup Uses \cup {"record.settle"}
  BY DEF Bare
<1>2. Typed(x)' /\ Own(w, x)
  BY <1>1 DEF Typed, Own, Carries, Carrying
<1>3. Passes(x)'
  BY <1>1 DEF Passes, Revoking, Marked
<1>4. Sees(x)' /\ x.pc \notin Outgoing
  BY <1>1, <1>3 DEF Sees, Carrying, Naming, Recording, Checked, Noting, Outgoing
<1>5. QED
  BY <1>2, <1>4 DEF Frame, First

LEMMA NewRevoke ==
  ASSUME NEW w, NEW f
  PROVE  Frame(w, Revoke(f)) /\ First(Revoke(f)) /\ Revoke(f).pc = "revoke.add"
<1>1. PICK x : x = Revoke(f)
  OBVIOUS
<1>2. x.pc = "revoke.add" /\ {"todo", "gone"} \subseteq DOMAIN x /\ x.gone = {}
  BY <1>1 DEF Revoke
<1>3. Typed(x)' /\ Own(w, x)
  BY <1>2 DEF Typed, Own, Carries, Carrying, Naming, Recording, Checked, Noting, Outgoing, Redeems, Uses
<1>4. Sees(x)' /\ x.pc \notin Outgoing
  BY <1>2 DEF Sees, Passes, Recording, Checked, Noting, Outgoing
<1>5. QED
  BY <1>1, <1>2, <1>3, <1>4 DEF Frame, First

LEMMA NeatThrow ==
  ASSUME CleanInv, NEW w \in Worker, Throw(w), Steady
  PROVE  Neatened(w)
<1>1. PICK s, n : s = task[w] /\ n = Unwound(s)
  OBVIOUS
<1>2. Good(s)
  BY <1>1 DEF CleanInv, FamilyInv
<1>3. task' = [task EXCEPT ![w] = n]
  BY <1>1 DEF Throw
<1>4. ASSUME NEW q, In(q, s), Fine(q), q.pc \in VoidIfFails \cup {"sweep", "voids"}
      PROVE  Frame(w, Resumed(q)) /\ First(Resumed(q))
  <2>1. CASE q.pc \in VoidIfFails
    <3>1. PICK x : x = [q EXCEPT !.pc = "redeem.void"] /\ x = Resumed(q)
      BY <2>1 DEF Resumed
    <3>2. {"pc", "a"} \subseteq DOMAIN q
      BY <1>1, <1>4, <2>1 DEF CleanInv, Typed, Fine, VoidIfFails, Redeems
    <3>3. x.pc = "redeem.void" /\ "a" \in DOMAIN x
      BY <3>1, <3>2
    <3>4. Typed(x)' /\ Own(w, x) /\ Sees(x)' /\ x.pc \notin Outgoing
      BY <3>3 DEF Typed, Own, Carries, Carrying, Naming, Recording, Checked, Noting, Outgoing, Revoking,
           Marked, Sees, Passes
    <3>5. QED
      BY <3>1, <3>4 DEF Frame, First
  <2>2. CASE q.pc \in {"sweep", "voids"}
    <3>1. q = Resumed(q)
      BY <2>2 DEF Resumed, VoidIfFails
    <3>2. Bare(q)
      BY <2>2 DEF Bare, Carrying, Naming, Recording, Checked, Noting, Outgoing, Revoking, Marked, Redeems,
           Uses
    <3>3. QED
      BY <3>1, <3>2, BareIs
  <2>3. QED
    BY <1>4, <2>1, <2>2
<1>5. ASSUME NEW r, In(r, n) PROVE Frame(w, r) /\ First(r)
  BY <1>1, <1>2, <1>4, <1>5, InThrown
<1>6. IsStack(n) /\ Neatly(n)
  <2>1. n = <<>> \/ \E x : n = <<x>>
    BY <1>1, <1>2, Unwinds
  <2>2. IsStack(n) /\ Len(n) \in {0, 1}
    BY <2>1, Tuples
  <2>3. QED
    BY <2>2, IsStackParts DEF Neatly
<1>7. n # <<>> => First(Head(n))
  BY <1>5, <1>6, HeadIn
<1>8. Neat(w, n)
  BY <1>3, <1>5, <1>6, <1>7 DEF Neat, Frame, First, Steady
<1>9. QED
  BY <1>8 DEF Neatened

(* What a worker takes up, or drops.                                       *)
LEMMA NeatBegun ==
  ASSUME NEW w \in Worker, held' = held, NEW x, task' = [task EXCEPT ![w] = <<x>>], First(x), Frame(w, x)
  PROVE  Neatened(w)
<1>1. PICK n : n = <<x>>
  OBVIOUS
<1>2. IsStack(n) /\ n # <<>> /\ Len(n) = 1 /\ n[1] = x /\ \A r : In(r, n) => r = x
  BY <1>1, Tuples, InTuples
<1>3. Head(n) = x
  BY <1>2, IsStackParts
<1>4. Neatly(n)
  BY <1>2 DEF Neatly
<1>5. Neat(w, n)
  BY <1>1, <1>2, <1>3, <1>4 DEF Neat, First, Frame
<1>6. QED
  BY <1>5 DEF Neatened

LEMMA NeatBoth ==
  ASSUME NEW w \in Worker, held' = held, NEW x, NEW y, task' = [task EXCEPT ![w] = <<x, y>>],
         First(x), Frame(w, x), Frame(w, y), Rests(x, y)
  PROVE  Neatened(w)
<1>1. PICK n : n = <<x, y>>
  OBVIOUS
<1>2. /\ IsStack(n) /\ n # <<>> /\ Len(n) = 2 /\ n[1] = x /\ n[2] = y
      /\ \A r : In(r, n) => r \in {x, y}
  BY <1>1, Tuples, InTuples
<1>3. Head(n) = x
  BY <1>2, IsStackParts
<1>4. Neatly(n)
  <2>1. \A i \in 1 .. 2 : i < 2 => Rests(n[i], n[i + 1])
    BY <1>2
  <2>2. QED
    BY <1>2, <2>1 DEF Neatly
<1>5. \A r : In(r, n) => Frame(w, r)
  BY <1>2
<1>6. Neat(w, n)
  BY <1>1, <1>2, <1>3, <1>4, <1>5 DEF Neat, First, Frame
<1>7. QED
  BY <1>6 DEF Neatened

LEMMA NeatCrash ==
  ASSUME NEW w \in Worker, Crash(w)
  PROVE  Neatened(w)
<1>1. PICK n : n = <<>>
  OBVIOUS
<1>2. task' = [task EXCEPT ![w] = n] /\ held' = held
  BY <1>1 DEF Crash, outsideVars
<1>3. IsStack(n) /\ Len(n) = 0 /\ \A r : ~In(r, n)
  BY <1>1, Tuples, InTuples
<1>4. Neatly(n)
  BY <1>3 DEF Neatly
<1>5. Neat(w, n)
  BY <1>1, <1>2, <1>3, <1>4 DEF Neat
<1>6. QED
  BY <1>5 DEF Neatened

----------------------------------------------------------------------------
(* Frames on which none rests that cares about a token, and those on which *)
(* none rests at all.                                                      *)
Passers ==
  Recording \cup {"record.push", "start.name", "start.list", "start.enter", "found.save",
                  "found.confirm", "start.drop", "throw"}
Alone == Uses \cup {"give", "adopt.read", "adopt.check"}

LEMMA HeirsPlain ==
  ASSUME NEW t, NEW x, t.pc \notin Passers, x.pc \notin Alone
  PROVE  Heirs(t, x)
<1> SUFFICES ASSUME NEW q, Rests(t, q) PROVE Rests(x, q)
  BY DEF Heirs
<1>1. q.pc \notin {"found.confirm", "use.select", "adopt.check"} \cup Outgoing
  BY DEF Rests, Passers
<1>2. QED
  BY <1>1 DEF Rests, Alone

LEMMA HeirsAlone ==
  ASSUME NEW t, NEW x, t.pc \in Alone \cup Bases
  PROVE  Heirs(t, x)
BY DEF Heirs, Rests, Over, Alone

LEMMA PlainReturn ==
  ASSUME CleanInv, NEW w \in Worker, task[w] # <<>>, Return(w), drawn \subseteq drawn',
         held' = held \/ Top(w).pc \in Bases \cup {"give"}, Top(w).pc \notin Passers
  PROVE  Neatened(w)
<1>1. ASSUME NEW q, Over(Top(w), q), Rests(Top(w), q) PROVE First(q)
  <2>1. q.pc \in Waits \ ({"found.confirm", "use.select", "adopt.check"} \cup Outgoing)
    BY <1>1 DEF Over, Rests, Passers
  <2>2. Bare(q)
    BY <2>1 DEF Waits, Bare, Carrying, Naming, Recording, Checked, Noting, Outgoing, Revoking, Marked,
         Redeems, Uses
  <2>3. QED
    BY <2>2, BareIs
<1>2. QED
  BY <1>1, NeatReturn

----------------------------------------------------------------------------
(* A step that records nothing, and ends no family that is not listed.     *)
Ordinary ==
  /\ UNCHANGED <<link, issued, held>>
  /\ denied \subseteq denied' /\ drawn \subseteq drawn' /\ settles \subseteq settles'
  /\ \A f \in Family : (Dead(f) => Dead(f)') /\ (Dead(f)' => Dead(f) \/ f \in settles')

LEMMA OrdinaryLasts ==
  ASSUME CleanInv, Ordinary, NEW w
  PROVE  Lasting(w)
BY DEF CleanInv, Ordinary, Lasting, Stored, Has

LEMMA CleanDone ==
  ASSUME CleanInv, FamilyInv', NEW w \in Worker, Lasting(w), Neatened(w)
  PROVE  CleanInv'
BY CleanStep DEF Neatened

LEMMA TopSees ==
  ASSUME CleanInv, NEW w \in Worker, task[w] # <<>>
  PROVE  /\ In(Top(w), task[w]) /\ Fine(Top(w)) /\ Typed(Top(w)) /\ Sees(Top(w))
         /\ \A a \in Access : Carries(Top(w), a) => Carrier(w, a)
<1>1. Good(task[w])
  BY DEF CleanInv, FamilyInv
<1>2. In(Top(w), task[w])
  BY <1>1, HeadIn DEF Good, Top
<1>3. Fine(Top(w))
  BY Tops DEF CleanInv
<1>4. QED
  BY <1>2, <1>3 DEF CleanInv, Top, Carrier

(* Nothing comes out when the top frame makes way for one that sends none. *)
LEMMA OutSame ==
  ASSUME CleanInv, NEW w \in Worker, task[w] # <<>>, NEW x, Become(w, <<x>>), x.pc \notin Outgoing,
         held' = held, NEW a, Out(a)'
  PROVE  Out(a)
<1>1. PICK s, b, n : s = task[w] /\ b = <<x>> /\ n = b \o Tail(s)
  OBVIOUS
<1>2. Good(s) /\ s # <<>> /\ IsStack(b) /\ b # <<>> /\ b[1] = x
  BY <1>1, Tuples DEF CleanInv, FamilyInv
<1>3. Head(n) = x
  BY <1>1, <1>2, HeadPushed
<1>4. DOMAIN task = Worker /\ task' = [task EXCEPT ![w] = n]
  BY <1>1 DEF Become, CleanInv, FamilyInv, Shapes
<1>5. ASSUME NEW v \in Worker, Sent(v, a)' PROVE Sent(v, a)
  <2>1. CASE v = w
    <3>1. task'[v] = n
      BY <1>4, <2>1
    <3>2. QED
      BY <1>3, <1>5, <3>1 DEF Sent
  <2>2. CASE v # w
    <3>1. task'[v] = task[v]
      BY <1>4, <2>2
    <3>2. QED
      BY <1>5, <3>1 DEF Sent
  <2>3. QED
    BY <2>1, <2>2
<1>6. QED
  BY <1>5 DEF Out

(* A token done with is settled.                                           *)
LEMMA SettledLasts ==
  ASSUME CleanInv, NEW w \in Worker, NEW f, NEW b \in denied, issued' = [issued EXCEPT ![f] = Settled(@, b)],
         UNCHANGED <<family, link, settles, denied, held, drawn>>
  PROVE  Lasting(w)
<1>1. Stored
  BY DEF CleanInv
<1>2. /\ DOMAIN issued' = Family
      /\ \A g \in Family : g # f => issued'[g] = issued[g]
      /\ f \in Family => issued'[f] = [issued[f] EXCEPT !.awaiting = @ \ {b}]
  BY <1>1 DEF Stored, Settled
<1>3. f \in Family => /\ issued'[f].held = issued[f].held /\ issued'[f].awaiting = issued[f].awaiting \ {b}
                      /\ DOMAIN issued'[f] = {"held", "awaiting"}
  BY <1>1, <1>2 DEF Stored
<1>4. Stored'
  BY <1>1, <1>2, <1>3 DEF Stored
<1>5. ASSUME NEW g \in Family, NEW a \in Access, Has(g, a) PROVE Has(g, a)'
  BY <1>2, <1>3, <1>5 DEF Has
<1>6. ASSUME NEW g \in Family PROVE issued[g].awaiting \subseteq issued'[g].awaiting \cup denied'
  BY <1>2, <1>3
<1>7. QED
  BY <1>4, <1>5, <1>6 DEF Lasting, Dead

LEMMA NeatRevoking ==
  ASSUME CleanInv, NEW w \in Worker, task[w] # <<>>, Top(w).pc \in Revoking, Steady,
         NEW x, Become(w, <<x>>), x.pc \in Revoking, {"todo", "gone"} \subseteq DOMAIN x, Passes(x)'
  PROVE  Neatened(w)
<1>1. /\ Top(w).pc \notin Passers
      /\ x.pc \notin Alone \cup Carrying \cup Redeems \cup Uses \cup {"record.settle"}
  BY DEF Revoking, Marked, Passers, Alone, Carrying, Naming, Recording, Checked, Noting, Outgoing, Redeems,
         Uses
<1>2. Heirs(Top(w), x)
  BY <1>1, HeirsPlain
<1>3. Typed(x)' /\ Own(w, x)
  BY <1>1 DEF Typed, Own, Carries, Carrying
<1>4. Sees(x)' /\ x.pc \notin Outgoing
  BY <1>1 DEF Sees, Carrying, Naming, Recording
<1>5. QED
  BY <1>2, <1>3, <1>4, NeatOne DEF Frame, First

LEMMA RevokeClean ==
  ASSUME CleanInv, NEW w \in Worker, RevokeStep(w)
  PROVE  Lasting(w) /\ Neatened(w)
<1>0. PICK t, f : t = Top(w) /\ f = t.f
  OBVIOUS
<1> USE <1>0
<1>1. task[w] # <<>> /\ t.pc \in Revoking
  BY DEF RevokeStep, RevokeAdd, RevokeMark, RevokeSave, RevokeMembers, RevokeAwaiting, RevokeDeny,
         RevokeSettle, RevokeDone, Doing, Revoking, Marked
<1>2. Fine(t) /\ Typed(t) /\ Sees(t)
  BY <1>1, TopSees
<1>3. {"pc", "f", "todo", "gone"} \subseteq DOMAIN t /\ Passes(t) /\ t.gone \subseteq denied
      /\ (t.pc \in Marked /\ f \in Family => Dead(f))
  BY <1>1, <1>2 DEF Fine, Typed, Sees, Passes
<1>4. Stored /\ DOMAIN family = Family
  BY DEF CleanInv, FamilyInv, Shapes
<1>5. held' = held /\ drawn' = drawn
  BY DEF RevokeStep, RevokeAdd, RevokeMark, RevokeSave, RevokeMembers, RevokeAwaiting, RevokeDeny,
         RevokeSettle, RevokeDone, outsideVars
<1>6. ASSUME NEW x, Become(w, <<x>>), x.pc \in Revoking, {"todo", "gone"} \subseteq DOMAIN x, Passes(x)'
      PROVE  Neatened(w)
  BY <1>1, <1>5, <1>6, NeatRevoking DEF Steady
<1>7. ASSUME NEW p, NEW x, x = [t EXCEPT !.pc = p]
      PROVE  x.pc = p /\ x.f = f /\ x.todo = t.todo /\ x.gone = t.gone /\ {"todo", "gone"} \subseteq DOMAIN x
  BY <1>3, <1>7
<1>8. CASE RevokeAdd(w)
  <2>1. /\ UNCHANGED <<family, link, issued, denied>> /\ settles' = settles \cup {f}
        /\ To(w, "revoke.mark")
    BY <1>8 DEF RevokeAdd, familyVars, outsideVars
  <2>2. PICK x : x = [t EXCEPT !.pc = "revoke.mark"]
    OBVIOUS
  <2>3. Become(w, <<x>>) /\ x.pc = "revoke.mark" /\ x.f = f /\ x.gone = t.gone
        /\ {"todo", "gone"} \subseteq DOMAIN x
    BY <1>7, <2>1, <2>2 DEF To
  <2>4. Passes(x)'
    BY <1>3, <2>1, <2>3 DEF Passes
  <2>5. Ordinary
    BY <1>5, <2>1 DEF Ordinary, Dead
  <2>6. QED
    BY <1>6, <2>3, <2>4, <2>5, OrdinaryLasts DEF Revoking
<1>9. ASSUME NEW p, NEW x, x = [t EXCEPT !.pc = p], Become(w, <<x>>), UNCHANGED <<link, issued, denied, settles>>,
             t.pc \in {"revoke.mark", "revoke.save"},
             \/ p = "revoke.save" /\ UNCHANGED family
             \/ p = "revoke.members" /\ family' = [family EXCEPT ![f] = Revoked]
      PROVE  Lasting(w) /\ Neatened(w)
  <2>1. f \in Family => Dead(f) \/ f \in settles
    BY <1>3, <1>9 DEF Passes
  <2>2. x.pc = p /\ x.f = f /\ x.gone = t.gone /\ {"todo", "gone"} \subseteq DOMAIN x
    BY <1>7, <1>9
  <2>3. \A g \in Family : (Dead(g) => Dead(g)') /\ (Dead(g)' => Dead(g) \/ g \in settles')
    <3>1. ASSUME NEW g \in Family, g # f \/ UNCHANGED family PROVE Dead(g)' <=> Dead(g)
      BY <1>4, <1>9, <3>1 DEF Dead
    <3>2. f \in Family => (Dead(f)' <=> Dead(f)) \/ Dead(f)'
      BY <1>4, <1>9 DEF Dead
    <3>3. QED
      BY <1>9, <2>1, <3>1, <3>2
  <2>4. Ordinary
    BY <1>5, <1>9, <2>3 DEF Ordinary
  <2>5. f \in Family => Dead(f)' \/ f \in settles'
    BY <2>1, <2>3, <1>9
  <2>6. Passes(x)'
    BY <1>3, <1>9, <2>2, <2>5 DEF Passes
  <2>7. QED
    BY <1>6, <1>9, <2>2, <2>4, <2>6, OrdinaryLasts DEF Revoking, Marked
<1>10. CASE RevokeMark(w)
  <2>1. UNCHANGED <<link, issued, denied, settles>> /\ t.pc = "revoke.mark"
    BY <1>10 DEF RevokeMark, Doing, listVars, outsideVars
  <2>2. \/ Become(w, <<[t EXCEPT !.pc = "revoke.save"]>>) /\ UNCHANGED family
        \/ Become(w, <<[t EXCEPT !.pc = "revoke.members"]>>) /\ family' = [family EXCEPT ![f] = Revoked]
    BY <1>10 DEF RevokeMark, To
  <2>3. QED
    BY <1>9, <2>1, <2>2
<1>11. CASE RevokeSave(w)
  <2>1. UNCHANGED <<link, issued, denied, settles>> /\ t.pc = "revoke.save"
    BY <1>11 DEF RevokeSave, Doing, listVars, outsideVars
  <2>2. CASE Become(w, <<[t EXCEPT !.pc = "revoke.members"]>>) /\ family' = [family EXCEPT ![f] = Revoked]
    BY <1>9, <2>1, <2>2
  <2>3. CASE Throw(w) /\ UNCHANGED family
    <3>1. Ordinary
      BY <1>5, <2>1, <2>3 DEF Ordinary, Dead
    <3>2. QED
      BY <1>5, <2>3, <3>1, OrdinaryLasts, NeatThrow DEF Steady
  <2>4. QED
    BY <1>11, <2>2, <2>3 DEF RevokeSave, To
<1>12. CASE RevokeMembers(w)
  <2>1. UNCHANGED <<family, link, issued, denied, settles>> /\ t.pc = "revoke.members"
    BY <1>12 DEF RevokeMembers, Doing, familyVars, listVars, outsideVars
  <2>2. Ordinary
    BY <1>5, <2>1 DEF Ordinary, Dead
  <2>3. PICK x : x = [t EXCEPT !.pc = "revoke.awaiting", !.todo = issued[f].held]
    OBVIOUS
  <2>4. /\ Become(w, <<x>>) /\ x.pc = "revoke.awaiting" /\ x.f = f /\ x.todo = issued[f].held
        /\ x.gone = t.gone /\ {"todo", "gone"} \subseteq DOMAIN x
    BY <1>3, <1>12, <2>3 DEF RevokeMembers
  <2>5. f \in Family => Within(f, issued[f].held \cup issued[f].awaiting)'
    <3>1. SUFFICES ASSUME f \in Family, NEW a \in Access, Out(a)', link'[a] = f
                   PROVE  a \in issued[f].held \cup issued[f].awaiting \cup denied
      BY <2>1 DEF Within
    <3>2. Out(a)
      BY <1>1, <1>5, <2>4, <3>1, OutSame DEF Outgoing
    <3>3. Has(f, a)
      BY <2>1, <3>1, <3>2 DEF CleanInv, Covers
    <3>4. QED
      BY <3>3 DEF Has
  <2>6. Passes(x)'
    BY <1>3, <2>1, <2>4, <2>5 DEF Passes
  <2>7. QED
    BY <1>6, <2>2, <2>4, <2>6, OrdinaryLasts DEF Revoking, Marked
<1>13. ASSUME NEW x, Become(w, <<x>>), x.pc \in Revoking, UNCHANGED link, held' = held, denied \subseteq denied',
              NEW S, NEW T, S \subseteq T \cup denied', f \in Family, Within(f, S)
       PROVE  Within(f, T)'
  <2>1. SUFFICES ASSUME NEW a \in Access, Out(a)', link'[a] = f PROVE a \in T \cup denied'
    BY DEF Within
  <2>2. Out(a)
    BY <1>1, <1>13, <2>1, OutSame DEF Outgoing, Revoking, Marked
  <2>3. QED
    BY <1>13, <2>1, <2>2 DEF Within
<1>14. CASE RevokeAwaiting(w)
  <2>1. UNCHANGED <<family, link, issued, denied, settles>> /\ t.pc = "revoke.awaiting"
    BY <1>14 DEF RevokeAwaiting, Doing, familyVars, listVars, outsideVars
  <2>2. Ordinary
    BY <1>5, <2>1 DEF Ordinary, Dead
  <2>3. PICK x, S : x = [t EXCEPT !.pc = "revoke.deny", !.todo = @ \cup issued[f].awaiting]
                    /\ S = t.todo \cup issued[f].awaiting
    OBVIOUS
  <2>4. /\ Become(w, <<x>>) /\ x.pc = "revoke.deny" /\ x.f = f /\ x.todo = S
        /\ x.gone = t.gone /\ {"todo", "gone"} \subseteq DOMAIN x
    BY <1>3, <1>14, <2>3 DEF RevokeAwaiting
  <2>5. x.pc \in Revoking
    BY <2>4 DEF Revoking, Marked
  <2>6. f \in Family => Within(f, S)
    BY <1>3, <2>1, <2>3 DEF Passes
  <2>7. f \in Family => Within(f, S)'
    BY <1>5, <1>13, <2>1, <2>4, <2>5, <2>6
  <2>8. Passes(x)'
    BY <1>3, <2>1, <2>4, <2>7 DEF Passes
  <2>9. QED
    BY <1>6, <2>2, <2>4, <2>5, <2>8, OrdinaryLasts
<1>15. CASE RevokeDeny(w)
  <2>1. UNCHANGED <<family, link, issued, settles>> /\ t.pc = "revoke.deny" /\ denied \subseteq denied'
    BY <1>15 DEF RevokeDeny, Doing, familyVars, listVars
  <2>2. Ordinary
    BY <1>5, <2>1 DEF Ordinary, Dead
  <2>3. f \in Family => Within(f, t.todo)
    BY <1>3, <2>1 DEF Passes
  <2>4. CASE \E a \in t.todo : /\ denied' = denied \cup {a}
                               /\ Become(w, <<[t EXCEPT !.todo = @ \ {a}, !.gone = @ \cup {a}]>>)
    <3>1. PICK a \in t.todo : /\ denied' = denied \cup {a}
                              /\ Become(w, <<[t EXCEPT !.todo = @ \ {a}, !.gone = @ \cup {a}]>>)
      BY <2>4
    <3>2. PICK x, S, T : /\ x = [t EXCEPT !.todo = @ \ {a}, !.gone = @ \cup {a}]
                         /\ S = t.todo /\ T = t.todo \ {a}
      OBVIOUS
    <3>3. /\ Become(w, <<x>>) /\ x.pc = "revoke.deny" /\ x.f = f /\ x.todo = T
          /\ x.gone = t.gone \cup {a} /\ {"todo", "gone"} \subseteq DOMAIN x
      BY <1>3, <2>1, <3>1, <3>2
    <3>4. x.pc \in Revoking /\ S \subseteq T \cup denied'
      BY <3>1, <3>2, <3>3 DEF Revoking, Marked
    <3>5. f \in Family => Within(f, T)'
      BY <1>5, <1>13, <2>1, <2>3, <3>2, <3>3, <3>4
    <3>6. x.gone \subseteq denied'
      BY <1>3, <3>1, <3>3
    <3>7. Passes(x)'
      BY <3>3, <3>5, <3>6 DEF Passes
    <3>8. QED
      BY <1>6, <2>2, <3>3, <3>4, <3>7, OrdinaryLasts
  <2>5. CASE t.todo = {} /\ Become(w, <<[t EXCEPT !.pc = "revoke.settle", !.todo = issued[f].awaiting \cap t.gone]>>)
    <3>1. PICK x, S, T : /\ x = [t EXCEPT !.pc = "revoke.settle", !.todo = issued[f].awaiting \cap t.gone]
                         /\ S = t.todo /\ T = {}
      OBVIOUS
    <3>2. /\ Become(w, <<x>>) /\ x.pc = "revoke.settle" /\ x.f = f /\ x.todo = issued[f].awaiting \cap t.gone
          /\ x.gone = t.gone /\ {"todo", "gone"} \subseteq DOMAIN x
      BY <1>3, <2>5, <3>1
    <3>3. x.pc \in Revoking /\ S \subseteq T \cup denied'
      BY <2>5, <3>1, <3>2 DEF Revoking, Marked
    <3>4. f \in Family => Within(f, {})'
      BY <1>5, <1>13, <2>1, <2>3, <3>1, <3>2, <3>3
    <3>5. Passes(x)'
      BY <1>3, <2>1, <3>2, <3>4 DEF Passes
    <3>6. QED
      BY <1>6, <2>2, <3>2, <3>3, <3>5, OrdinaryLasts
  <2>6. QED
    BY <1>15, <2>4, <2>5 DEF RevokeDeny
<1>16. CASE RevokeSettle(w)
  <2>1. UNCHANGED <<family, link, denied, settles>> /\ t.pc = "revoke.settle"
    BY <1>16 DEF RevokeSettle, Doing, familyVars, outsideVars
  <2>2. t.todo \subseteq denied /\ (f \in Family => Within(f, {}))
    BY <1>3, <2>1 DEF Passes
  <2>3. CASE \E a \in t.todo : /\ issued' = [issued EXCEPT ![f] = Settled(@, a)]
                               /\ Become(w, <<[t EXCEPT !.todo = @ \ {a}]>>)
    <3>1. PICK a \in t.todo : /\ issued' = [issued EXCEPT ![f] = Settled(@, a)]
                              /\ Become(w, <<[t EXCEPT !.todo = @ \ {a}]>>)
      BY <2>3
    <3>2. PICK x, S, T : x = [t EXCEPT !.todo = @ \ {a}] /\ S = {} /\ T = {}
      OBVIOUS
    <3>3. /\ Become(w, <<x>>) /\ x.pc = "revoke.settle" /\ x.f = f /\ x.todo = t.todo \ {a}
          /\ x.gone = t.gone /\ {"todo", "gone"} \subseteq DOMAIN x
      BY <1>3, <2>1, <3>1, <3>2
    <3>4. x.pc \in Revoking
      BY <3>3 DEF Revoking, Marked
    <3>5. f \in Family => Within(f, {})'
      BY <1>5, <1>13, <2>1, <2>2, <3>2, <3>3, <3>4
    <3>6. Passes(x)'
      BY <1>3, <2>1, <2>2, <3>3, <3>5 DEF Passes
    <3>7. Lasting(w)
      BY <1>4, <1>5, <2>1, <2>2, <3>1, SettledLasts
    <3>8. QED
      BY <1>6, <3>3, <3>4, <3>6, <3>7
  <2>4. CASE t.todo = {} /\ To(w, "revoke.done") /\ UNCHANGED issued
    <3>1. PICK x, S, T : x = [t EXCEPT !.pc = "revoke.done"] /\ S = {} /\ T = {}
      OBVIOUS
    <3>2. /\ Become(w, <<x>>) /\ x.pc = "revoke.done" /\ x.f = f
          /\ x.gone = t.gone /\ {"todo", "gone"} \subseteq DOMAIN x
      BY <1>7, <2>4, <3>1 DEF To
    <3>3. x.pc \in Revoking
      BY <3>2 DEF Revoking, Marked
    <3>4. f \in Family => Within(f, {})'
      BY <1>5, <1>13, <2>1, <2>2, <3>1, <3>2, <3>3
    <3>5. Passes(x)'
      BY <1>3, <2>1, <3>2, <3>4 DEF Passes
    <3>6. Ordinary
      BY <1>5, <2>1, <2>4 DEF Ordinary, Dead
    <3>7. QED
      BY <1>6, <3>2, <3>3, <3>5, <3>6, OrdinaryLasts
  <2>5. QED
    BY <1>16, <2>3, <2>4 DEF RevokeSettle
<1>17. CASE RevokeDone(w)
  <2>1. /\ UNCHANGED <<family, link, issued, denied>> /\ t.pc = "revoke.done" /\ Return(w)
        /\ settles' = settles \ {f}
    BY <1>17 DEF RevokeDone, Doing, familyVars, outsideVars
  <2>2. t.pc \in Marked /\ (f \in Family => Within(f, {}) /\ Dead(f))
    BY <1>3, <2>1 DEF Passes, Marked
  <2>3. Lasting(w)
    BY <1>4, <1>5, <2>1, <2>2 DEF Lasting, Stored, Has, Dead
  <2>4. Neatened(w)
    BY <1>1, <1>5, <2>1, PlainReturn DEF Passers, Recording
  <2>5. QED
    BY <2>3, <2>4
<1>18. QED
  BY <1>8, <1>10, <1>11, <1>12, <1>14, <1>15, <1>16, <1>17 DEF RevokeStep

(* What a frame that carries a is to know when it goes on.                 *)
LEMMA CarryFrame ==
  ASSUME NEW w, NEW x, x.pc \in Carrying \ (Redeems \cup Uses), "a" \in DOMAIN x, x.a \in Access \cap drawn',
         x.pc \in Naming => "f" \in DOMAIN x /\ x.f \in Family, Carrier(w, x.a) \/ x.a \notin drawn
  PROVE  Frame(w, x)
<1>1. x.pc \notin Revoking
  BY DEF Carrying, Naming, Recording, Checked, Noting, Outgoing, Revoking, Marked
<1>2. QED
  BY <1>1 DEF Frame, Typed, Own, Carries

LEMMA RecordIs ==
  ASSUME NEW w, NEW f \in Family, NEW a \in Access \cap drawn', Carrier(w, a) \/ a \notin drawn
  PROVE  /\ Frame(w, Record(f, a)) /\ First(Record(f, a))
         /\ Record(f, a).pc = "record.link" /\ Record(f, a).f = f /\ Record(f, a).a = a
<1>1. PICK x : x = Record(f, a)
  OBVIOUS
<1>2. x.pc = "record.link" /\ x.f = f /\ x.a = a /\ {"f", "a"} \subseteq DOMAIN x
  BY <1>1 DEF Record
<1>3. x.pc \in Carrying \ (Redeems \cup Uses)
  BY <1>2 DEF Carrying, Naming, Recording, Redeems, Uses
<1>4. Frame(w, x)
  BY <1>2, <1>3, CarryFrame
<1>5. First(x)
  BY <1>2 DEF First, Sees, Passes, Checked, Noting, Outgoing, Revoking, Marked
<1>6. QED
  BY <1>1, <1>2, <1>4, <1>5

LEMMA RecordClean ==
  ASSUME CleanInv, NEW w \in Worker, RecordStep(w)
  PROVE  Lasting(w) /\ Neatened(w)
<1>0. PICK t, f, a : t = Top(w) /\ f = t.f /\ a = t.a
  OBVIOUS
<1> USE <1>0
<1>1. task[w] # <<>> /\ t.pc \in {"record.link", "record.add", "record.push", "record.settle"}
  BY DEF RecordStep, RecordLink, RecordAdd, RecordPush, RecordSettle, Doing
<1>2. "pc" \in DOMAIN t /\ Typed(t) /\ Sees(t) /\ \A b \in Access : Carries(t, b) => Carrier(w, b)
  BY <1>1, TopSees DEF Fine
<1>3. t.pc \in Recording => /\ {"f", "a"} \subseteq DOMAIN t /\ a \in Access \cap drawn /\ f \in Family
                            /\ Carrier(w, a)
  BY <1>2 DEF Typed, Carries, Carrying, Naming
<1>4. Stored
  BY DEF CleanInv
<1>5. held' = held /\ drawn' = drawn /\ Steady /\ UNCHANGED <<family, settles>>
  BY DEF RecordStep, RecordLink, RecordAdd, RecordPush, RecordSettle, outsideVars, listVars, familyVars,
         Steady
<1>6. CASE RecordLink(w)
  <2>1. /\ t.pc = "record.link" /\ t.pc \in Recording /\ link' = [link EXCEPT ![a] = f]
        /\ UNCHANGED <<issued, denied>> /\ To(w, "record.add")
    BY <1>6 DEF RecordLink, Doing, listVars, outsideVars, Recording
  <2>2. ~Out(a)
    <3>1. ~Sent(w, a)
      BY <2>1 DEF Sent, Outgoing, Top
    <3>2. QED
      BY <1>3, <2>1, <3>1, CarriedOut
  <2>3. link'[a] = f /\ \A b \in Access : b # a => link'[b] = link[b]
    BY <1>3, <1>4, <2>1 DEF Stored
  <2>4. Lasting(w)
    BY <1>3, <1>4, <1>5, <2>1, <2>2, <2>3 DEF Lasting, Stored, Has, Dead
  <2>5. PICK x : x = [t EXCEPT !.pc = "record.add"]
    OBVIOUS
  <2>6. Become(w, <<x>>) /\ x.pc = "record.add" /\ x.f = f /\ x.a = a /\ {"f", "a"} \subseteq DOMAIN x
    BY <1>2, <1>3, <2>1, <2>5 DEF To
  <2>7. x.pc \in Carrying \ (Redeems \cup Uses)
    BY <2>6 DEF Carrying, Naming, Recording, Redeems, Uses
  <2>8. Frame(w, x)
    BY <1>3, <1>5, <2>1, <2>6, <2>7, CarryFrame
  <2>9. First(x)
    BY <2>3, <2>6 DEF First, Sees, Passes, Checked, Noting, Outgoing, Revoking, Marked
  <2>10. Heirs(t, x)
    BY <2>1, <2>6 DEF Heirs, Rests, Recording, Uses, Carrying, Naming
  <2>11. QED
    BY <1>1, <1>5, <2>4, <2>6, <2>8, <2>9, <2>10, NeatOne
<1>7. CASE RecordAdd(w)
  <2>1. t.pc = "record.add" /\ t.pc \in Recording /\ UNCHANGED <<link, denied>> /\ link[a] = f
    BY <1>2, <1>7 DEF RecordAdd, Doing, familyVars, outsideVars, Recording, Sees
  <2>2. PICK out : /\ out \in OverCap(issued[f].held, a, load.tokensPerFamily)
                   /\ issued' = [issued EXCEPT ![f] = Added(@, a, out)]
                   /\ IF out = {} THEN Return(w) ELSE Become(w, <<PushedOut(f, out)>>)
    BY <1>7 DEF RecordAdd
  <2>3. out \subseteq issued[f].held \ {a}
    BY <2>2 DEF OverCap
  <2>4. PICK v : v = Added(issued[f], a, out)
    OBVIOUS
  <2>5. /\ v.held = (issued[f].held \cup {a}) \ out /\ v.awaiting = issued[f].awaiting \cup out
        /\ DOMAIN v = {"held", "awaiting"}
    BY <2>4 DEF Added
  <2>6. DOMAIN issued' = Family /\ issued'[f] = v /\ \A g \in Family : g # f => issued'[g] = issued[g]
    BY <1>3, <1>4, <2>1, <2>2, <2>4 DEF Stored
  <2>7. Stored'
    BY <1>4, <1>5, <2>1, <2>5, <2>6 DEF Stored
  <2>8. ASSUME NEW g \in Family, NEW b \in Access, Has(g, b) PROVE Has(g, b)'
    BY <2>1, <2>3, <2>5, <2>6, <2>8 DEF Has
  <2>9. ASSUME NEW g \in Family PROVE issued[g].awaiting \subseteq issued'[g].awaiting \cup denied'
    BY <2>5, <2>6
  <2>10. Lasting(w)
    BY <1>5, <2>1, <2>7, <2>8, <2>9 DEF Lasting, Dead
  <2>11. Has(f, a)'
    BY <2>3, <2>5, <2>6 DEF Has
  <2>12. CASE Return(w)
    <3>1. ASSUME NEW q, Over(t, q), Rests(t, q) PROVE First(q)
      <4>1. CASE q.pc \in {"found.confirm", "use.select", "adopt.check"}
        <5>1. q.f = f /\ q.a = a
          BY <2>1, <3>1, <4>1 DEF Rests
        <5>2. link'[q.a] = q.f /\ Has(q.f, q.a)'
          BY <2>1, <2>11, <5>1
        <5>3. QED
          BY <4>1, <5>2 DEF First, Sees, Passes, Recording, Noting, Outgoing, Revoking, Marked
      <4>2. CASE q.pc \notin {"found.confirm", "use.select", "adopt.check"}
        <5>1. q.pc \in Waits \ ({"found.confirm", "use.select", "adopt.check"} \cup Outgoing)
          BY <2>1, <3>1, <4>2 DEF Over, Rests
        <5>2. Bare(q)
          BY <5>1 DEF Waits, Bare, Carrying, Naming, Recording, Checked, Noting, Outgoing, Revoking, Marked,
               Redeems, Uses
        <5>3. QED
          BY <5>2, BareIs
      <4>3. QED
        BY <4>1, <4>2
    <3>2. QED
      BY <1>1, <1>5, <2>10, <2>12, <3>1, NeatReturn
  <2>13. CASE Become(w, <<PushedOut(f, out)>>)
    <3>1. PICK x : x = PushedOut(f, out)
      OBVIOUS
    <3>2. x.pc = "record.push" /\ Become(w, <<x>>)
      BY <2>13, <3>1 DEF PushedOut
    <3>3. Bare(x)
      BY <3>2 DEF Bare, Carrying, Naming, Recording, Checked, Noting, Outgoing, Revoking, Marked, Redeems, Uses
    <3>4. Heirs(t, x)
      BY <2>1, <3>2 DEF Heirs, Rests, Recording, Uses, Carrying, Naming
    <3>5. QED
      BY <1>1, <1>5, <2>10, <3>2, <3>3, <3>4, BareIs, NeatOne
  <2>14. QED
    BY <2>2, <2>12, <2>13
<1>8. CASE RecordPush(w)
  <2>1. t.pc = "record.push" /\ UNCHANGED <<link, issued>> /\ denied \subseteq denied'
    BY <1>8 DEF RecordPush, Doing, familyVars, listVars
  <2>2. Ordinary
    BY <1>5, <2>1 DEF Ordinary, Dead
  <2>3. CASE Throw(w)
    BY <1>5, <2>2, <2>3, NeatThrow, OrdinaryLasts
  <2>4. CASE \E b \in t.todo : /\ denied' = denied \cup {b}
                               /\ Become(w, <<[pc |-> "record.settle", f |-> f, a |-> b], PushedOut(f, t.todo \ {b})>>)
    <3>1. PICK b : /\ denied' = denied \cup {b}
                   /\ Become(w, <<[pc |-> "record.settle", f |-> f, a |-> b], PushedOut(f, t.todo \ {b})>>)
      BY <2>4
    <3>2. PICK x, y : x = [pc |-> "record.settle", f |-> f, a |-> b] /\ y = PushedOut(f, t.todo \ {b})
      OBVIOUS
    <3>3. x.pc = "record.settle" /\ x.a = b /\ y.pc = "record.push" /\ Become(w, <<x, y>>)
      BY <3>1, <3>2 DEF PushedOut
    <3>4. Frame(w, x)
      BY <3>3 DEF Frame, Typed, Own, Carries, Carrying, Naming, Recording, Checked, Noting, Outgoing, Revoking,
           Marked, Redeems, Uses
    <3>5. First(x)
      BY <3>1, <3>3 DEF First, Sees, Passes, Recording, Checked, Noting, Outgoing, Revoking, Marked
    <3>6. Bare(y)
      BY <3>3 DEF Bare, Carrying, Naming, Recording, Checked, Noting, Outgoing, Revoking, Marked, Redeems, Uses
    <3>7. Rests(x, y)
      BY <3>3 DEF Rests, Uses, Outgoing
    <3>8. Heirs(t, y)
      BY <2>1, <3>3 DEF Heirs, Rests, Recording, Uses, Carrying, Naming, Checked, Noting, Outgoing
    <3>9. QED
      BY <1>1, <1>5, <2>2, <3>3, <3>4, <3>5, <3>6, <3>7, <3>8, BareIs, OrdinaryLasts, NeatTwo
  <2>5. QED
    BY <1>8, <2>3, <2>4 DEF RecordPush
<1>9. CASE RecordSettle(w)
  <2>1. /\ t.pc = "record.settle" /\ UNCHANGED <<link, denied>> /\ Return(w)
        /\ issued' = [issued EXCEPT ![f] = Settled(@, a)]
    BY <1>9 DEF RecordSettle, Doing, familyVars, outsideVars
  <2>2. a \in denied
    BY <1>2, <2>1 DEF Sees
  <2>3. Lasting(w)
    BY <1>5, <2>1, <2>2, SettledLasts
  <2>4. Neatened(w)
    BY <1>1, <1>5, <2>1, PlainReturn DEF Passers, Recording
  <2>5. QED
    BY <2>3, <2>4
<1>10. QED
  BY <1>6, <1>7, <1>8, <1>9 DEF RecordStep

(* A frame that names its family and token goes on under another name.     *)
LEMMA StartFrames ==
  ASSUME NEW w, NEW x, {"f", "a"} \subseteq DOMAIN x, x.f \in Family, x.a \in Access \cap drawn',
         Carrier(w, x.a) \/ x.a \notin drawn,
         x.pc \in {"found.save", "start.name", "start.list", "start.enter", "adopt.read", "found.confirm",
                   "adopt.check"}
  PROVE  Frame(w, x) /\ (x.pc \notin Checked => First(x))
<1>1. x.pc \in Carrying \ (Redeems \cup Uses)
  BY DEF Carrying, Naming, Checked, Redeems, Uses
<1>2. Frame(w, x)
  BY <1>1, CarryFrame
<1>3. x.pc \notin Checked => First(x)
  BY DEF First, Sees, Passes, Checked, Noting, Outgoing, Revoking, Marked
<1>4. QED
  BY <1>2, <1>3

LEMMA NewFound ==
  ASSUME NEW w, NEW f \in Family, NEW s, NEW a \in Access \cap drawn', Carrier(w, a) \/ a \notin drawn
  PROVE  /\ Frame(w, Found(f, s, a)) /\ First(Found(f, s, a))
         /\ Found(f, s, a).pc = "found.save" /\ Found(f, s, a).f = f /\ Found(f, s, a).a = a
<1>1. PICK x : x = Found(f, s, a)
  OBVIOUS
<1>2. x.pc = "found.save" /\ {"f", "a"} \subseteq DOMAIN x /\ x.f = f /\ x.a = a
  BY <1>1 DEF Found
<1>3. Frame(w, x) /\ First(x)
  BY <1>2, StartFrames DEF Checked
<1>4. QED
  BY <1>1, <1>2, <1>3

LEMMA NewThrowing ==
  ASSUME NEW w, NEW f
  PROVE  Frame(w, Throwing) /\ Throwing.pc = "throw" /\ Rests(Revoke(f), Throwing)
<1>1. PICK x, y : x = Revoke(f) /\ y = Throwing
  OBVIOUS
<1>2. x.pc = "revoke.add" /\ y.pc = "throw"
  BY <1>1 DEF Revoke, Throwing
<1>3. Bare(y)
  BY <1>2 DEF Bare, Carrying, Naming, Recording, Checked, Noting, Outgoing, Revoking, Marked, Redeems, Uses
<1>4. Rests(x, y)
  BY <1>2 DEF Rests, Uses, Outgoing
<1>5. QED
  BY <1>1, <1>2, <1>3, <1>4, BareIs

(* What a revocation may be called from.                                   *)
LEMMA RestsRevoke ==
  ASSUME NEW f, NEW q, q.pc \notin {"found.confirm", "use.select", "adopt.check"} \cup Outgoing
  PROVE  Rests(Revoke(f), q)
BY DEF Rests, Revoke, Uses

LEMMA StartClean ==
  ASSUME CleanInv, NEW w \in Worker, StartStep(w)
  PROVE  Lasting(w) /\ Neatened(w)
<1>0. PICK t, f, a : t = Top(w) /\ f = t.f /\ a = t.a
  OBVIOUS
<1> USE <1>0
<1>1. task[w] # <<>> /\ t.pc \in {"found.save", "found.confirm", "start.name", "start.list", "start.drop",
         "session.settled", "start.enter", "take.mark", "take.read", "take.done"}
  BY DEF StartStep, FoundSave, FoundConfirm, StartName, StartList, StartDrop, SessionSettled, StartEnter,
         TakeMark, TakeRead, TakeDone, Doing
<1>2. "pc" \in DOMAIN t /\ Typed(t) /\ Sees(t) /\ \A b \in Access : Carries(t, b) => Carrier(w, b)
  BY <1>1, TopSees DEF Fine
<1>3. t.pc \in Naming => /\ {"f", "a"} \subseteq DOMAIN t /\ a \in Access \cap drawn /\ f \in Family
                         /\ Carrier(w, a)
  BY <1>2 DEF Typed, Carries, Carrying
<1>4. Stored /\ DOMAIN family = Family
  BY DEF CleanInv, FamilyInv, Shapes
<1>5. held' = held /\ drawn' = drawn /\ Steady /\ UNCHANGED <<link, issued, denied, settles>>
  BY DEF StartStep, FoundSave, FoundConfirm, StartName, StartList, StartDrop, SessionSettled, StartEnter,
         TakeMark, TakeRead, TakeDone, outsideVars, listVars, familyVars, Steady
<1>6. ASSUME UNCHANGED family PROVE Lasting(w)
  <2>1. Ordinary
    BY <1>5, <1>6 DEF Ordinary, Dead
  <2>2. QED
    BY <2>1, OrdinaryLasts
<1>7. ASSUME NEW p, NEW x, x = [t EXCEPT !.pc = p], t.pc \in Naming,
             p \in {"found.save", "start.list", "start.enter", "found.confirm"}
      PROVE  /\ x.pc = p /\ x.f = f /\ x.a = a /\ Frame(w, x) /\ (p \notin Checked => First(x))
  <2>1. x.pc = p /\ x.f = f /\ x.a = a /\ {"f", "a"} \subseteq DOMAIN x
    BY <1>2, <1>3, <1>7
  <2>2. QED
    BY <1>3, <1>5, <1>7, <2>1, StartFrames
<1>8. CASE FoundSave(w)
  <2>1. t.pc = "found.save" /\ t.pc \in Naming
    BY <1>8 DEF FoundSave, Doing, Naming
  <2>2. CASE Throw(w) /\ UNCHANGED family
    BY <1>5, <1>6, <2>2, NeatThrow
  <2>3. CASE /\ family[f] = NoFamily /\ family' = [family EXCEPT ![f] = LiveFamily(1, t.s)]
             /\ Become(w, <<Record(f, a), [t EXCEPT !.pc = "found.confirm"]>>)
    <3>1. \A g \in Family : g # f => family'[g] = family[g]
      BY <1>4, <2>3
    <3>2. ~Dead(f) /\ ~Dead(f)'
      BY <1>3, <1>4, <2>1, <2>3 DEF Dead, Revoked, NoFamily, LiveFamily
    <3>3. Ordinary
      BY <1>5, <3>1, <3>2 DEF Ordinary, Dead
    <3>4. PICK x, y : x = Record(f, a) /\ y = [t EXCEPT !.pc = "found.confirm"]
      OBVIOUS
    <3>5. Frame(w, x) /\ First(x) /\ x.pc = "record.link" /\ x.f = f /\ x.a = a
      BY <1>3, <1>5, <2>1, <3>4, RecordIs
    <3>6. y.pc = "found.confirm" /\ y.f = f /\ y.a = a /\ Frame(w, y)
      BY <1>7, <2>1, <3>4
    <3>7. Rests(x, y)
      BY <3>5, <3>6 DEF Rests, Recording, Uses, Outgoing
    <3>8. Heirs(t, y)
      BY <2>1, <3>6 DEF Heirs, Rests, Recording, Uses, Carrying, Naming, Checked
    <3>9. Become(w, <<x, y>>)
      BY <2>3, <3>4
    <3>10. QED
      BY <1>1, <1>5, <3>3, <3>5, <3>6, <3>7, <3>8, <3>9, OrdinaryLasts, NeatTwo
  <2>4. QED
    BY <1>8, <2>2, <2>3 DEF FoundSave
<1>9. ASSUME NEW g, Become(w, <<Revoke(g), Throwing>>), t.pc \in {"found.confirm", "start.enter"}
      PROVE  Neatened(w)
  <2>1. PICK x, y : x = Revoke(g) /\ y = Throwing
    OBVIOUS
  <2>2. Frame(w, x) /\ First(x) /\ Frame(w, y) /\ y.pc = "throw" /\ Rests(x, y)
    BY <2>1, NewRevoke, NewThrowing
  <2>3. Heirs(t, y)
    BY <1>9, <2>2 DEF Heirs, Rests, Recording, Uses, Carrying, Naming, Checked, Noting, Outgoing
  <2>4. Become(w, <<x, y>>)
    BY <1>9, <2>1
  <2>5. QED
    BY <1>1, <1>5, <2>2, <2>3, <2>4, NeatTwo
<1>10. CASE FoundConfirm(w)
  <2>1. t.pc = "found.confirm" /\ t.pc \in Naming \cap Checked /\ UNCHANGED family
    BY <1>10 DEF FoundConfirm, Doing, Naming, Checked, familyVars
  <2>2. CASE Alive(f) /\ Return(w)
    <3>1. link'[a] = f /\ Has(f, a)' /\ ~Dead(f)'
      BY <1>2, <1>5, <2>1, <2>2, States DEF Sees, Has, Dead
    <3>2. ASSUME NEW q, Over(t, q), Rests(t, q) PROVE First(q)
      <4>1. CASE q.pc \in Outgoing
        <5>1. q.a = a
          BY <2>1, <3>2, <4>1 DEF Rests, Carrying
        <5>2. Opens(q.a)'
          BY <3>1, <5>1 DEF Opens
        <5>3. QED
          BY <4>1, <5>2 DEF First, Sees, Passes, Checked, Noting, Outgoing, Revoking, Marked
      <4>2. CASE q.pc \notin Outgoing
        <5>1. q.pc \in Waits \ ({"found.confirm", "use.select", "adopt.check"} \cup Outgoing)
          BY <2>1, <3>2, <4>2 DEF Over, Rests, Recording
        <5>2. Bare(q)
          BY <5>1 DEF Waits, Bare, Carrying, Naming, Recording, Checked, Noting, Outgoing, Revoking, Marked,
               Redeems, Uses
        <5>3. QED
          BY <5>2, BareIs
      <4>3. QED
        BY <4>1, <4>2
    <3>3. QED
      BY <1>1, <1>5, <1>6, <2>1, <2>2, <3>2, NeatReturn
  <2>3. CASE Become(w, <<Revoke(f), Throwing>>)
    BY <1>6, <1>9, <2>1, <2>3
  <2>4. QED
    BY <1>10, <2>2, <2>3 DEF FoundConfirm
<1>11. ASSUME NEW p, To(w, p), t.pc \in {"start.name", "start.list"}, p \in {"start.list", "start.enter"}
       PROVE  Neatened(w)
  <2>1. PICK x : x = [t EXCEPT !.pc = p]
    OBVIOUS
  <2>2. t.pc \in Naming /\ p \notin Checked
    BY <1>11 DEF Naming, Checked
  <2>3. x.pc = p /\ x.f = f /\ x.a = a /\ Frame(w, x) /\ First(x) /\ Become(w, <<x>>)
    BY <1>7, <1>11, <2>1, <2>2 DEF To
  <2>4. Heirs(t, x)
    BY <1>11, <2>3 DEF Heirs, Rests, Recording, Uses, Carrying, Naming, Checked
  <2>5. QED
    BY <1>1, <1>5, <2>3, <2>4, NeatOne
<1>12. CASE StartName(w)
  <2>1. t.pc = "start.name" /\ UNCHANGED family
    BY <1>12 DEF StartName, Doing
  <2>2. QED
    BY <1>5, <1>6, <1>11, <1>12, <2>1, NeatThrow DEF StartName
<1>13. ASSUME NEW s, NEW out PROVE Bare(Dropping(s, out)) /\ Dropping(s, out).pc = "start.drop"
  BY DEF Dropping, Bare, Carrying, Naming, Recording, Checked, Noting, Outgoing, Revoking, Marked, Redeems, Uses
<1>14. CASE StartList(w)
  <2>1. t.pc = "start.list" /\ UNCHANGED family
    BY <1>14 DEF StartList, Doing, familyVars
  <2>2. ASSUME NEW out, Become(w, <<Dropping(t.s, out)>>) PROVE Neatened(w)
    <3>1. PICK x : x = Dropping(t.s, out)
      OBVIOUS
    <3>2. Bare(x) /\ x.pc = "start.drop"
      BY <1>13, <3>1
    <3>3. Heirs(t, x)
      BY <2>1, <3>2 DEF Heirs, Rests, Recording, Uses, Carrying, Naming, Checked, Noting, Outgoing
    <3>4. QED
      BY <1>1, <1>5, <2>2, <3>1, <3>2, <3>3, BareIs, NeatOne
  <2>3. QED
    BY <1>6, <1>11, <1>14, <2>1, <2>2 DEF StartList
<1>15. CASE StartDrop(w)
  <2>1. t.pc = "start.drop" /\ UNCHANGED family
    BY <1>15 DEF StartDrop, Doing, familyVars
  <2>2. ASSUME NEW g, Become(w, <<Revoke(g), [pc |-> "session.settled", s |-> t.s, f |-> g],
                                  Dropping(t.s, t.todo \ {g})>>)
        PROVE  Neatened(w)
    <3>1. PICK x, y, z : /\ x = Revoke(g) /\ y = [pc |-> "session.settled", s |-> t.s, f |-> g]
                         /\ z = Dropping(t.s, t.todo \ {g})
      OBVIOUS
    <3>2. Bare(z) /\ z.pc = "start.drop" /\ y.pc = "session.settled"
      BY <1>13, <3>1
    <3>3. Bare(y)
      BY <3>2 DEF Bare, Carrying, Naming, Recording, Checked, Noting, Outgoing, Revoking, Marked, Redeems, Uses
    <3>4. Rests(x, y)
      BY <3>1, <3>2, RestsRevoke DEF Outgoing
    <3>5. Rests(y, z)
      BY <3>2 DEF Rests, Uses, Outgoing
    <3>6. Heirs(t, z)
      BY <2>1, <3>2 DEF Heirs, Rests, Recording, Uses, Carrying, Naming, Checked, Noting, Outgoing
    <3>7. Frame(w, x) /\ First(x) /\ Frame(w, y) /\ Frame(w, z)
      BY <3>1, <3>2, <3>3, NewRevoke, BareIs
    <3>8. Become(w, <<x, y, z>>)
      BY <2>2, <3>1
    <3>9. QED
      BY <1>1, <1>5, <3>4, <3>5, <3>6, <3>7, <3>8, NeatThree
  <2>3. QED
    BY <1>5, <1>6, <1>15, <2>1, <2>2, NeatThrow DEF StartDrop
<1>16. CASE SessionSettled(w) \/ TakeDone(w)
  <2>1. t.pc \in {"session.settled", "take.done"} /\ UNCHANGED family /\ Return(w)
    BY <1>16 DEF SessionSettled, TakeDone, Doing, familyVars
  <2>2. QED
    BY <1>1, <1>5, <1>6, <2>1, PlainReturn DEF Passers, Recording
<1>17. CASE StartEnter(w)
  <2>1. t.pc = "start.enter" /\ t.pc \in Naming /\ UNCHANGED family
    BY <1>17 DEF StartEnter, Doing, familyVars, Naming
  <2>2. CASE Become(w, <<Found(f, t.s, a)>>)
    <3>1. PICK x : x = Found(f, t.s, a)
      OBVIOUS
    <3>2. Frame(w, x) /\ First(x) /\ x.pc = "found.save" /\ x.a = a /\ Become(w, <<x>>)
      BY <1>3, <1>5, <2>1, <2>2, <3>1, NewFound
    <3>3. Heirs(t, x)
      BY <2>1, <3>2 DEF Heirs, Rests, Recording, Uses, Carrying, Naming, Checked
    <3>4. QED
      BY <1>1, <1>5, <1>6, <2>1, <3>2, <3>3, NeatOne
  <2>3. CASE Become(w, <<Revoke(f), Throwing>>)
    BY <1>6, <1>9, <2>1, <2>3
  <2>4. QED
    BY <1>17, <2>2, <2>3 DEF StartEnter
<1>18. ASSUME NEW p, To(w, p), t.pc \in {"take.mark", "take.read"}, p \in {"take.read", "take.done"}
       PROVE  Neatened(w)
  <2>1. PICK x : x = [t EXCEPT !.pc = p]
    OBVIOUS
  <2>2. x.pc = p /\ Become(w, <<x>>)
    BY <1>2, <1>18, <2>1 DEF To
  <2>3. Bare(x) /\ Heirs(t, x)
    BY <1>18, <2>2, HeirsPlain DEF Bare, Carrying, Naming, Recording, Checked, Noting, Outgoing, Revoking,
       Marked, Redeems, Uses, Passers, Alone
  <2>4. QED
    BY <1>1, <1>5, <2>2, <2>3, BareIs, NeatOne
<1>19. CASE TakeMark(w)
  <2>1. t.pc = "take.mark" /\ UNCHANGED family
    BY <1>19 DEF TakeMark, Doing
  <2>2. QED
    BY <1>6, <1>18, <1>19, <2>1 DEF TakeMark
<1>20. CASE TakeRead(w)
  <2>1. t.pc = "take.read" /\ UNCHANGED family
    BY <1>20 DEF TakeRead, Doing, familyVars
  <2>2. ASSUME NEW g, Become(w, <<Revoke(g), [t EXCEPT !.pc = "take.done"]>>) PROVE Neatened(w)
    <3>1. PICK x, y : x = Revoke(g) /\ y = [t EXCEPT !.pc = "take.done"]
      OBVIOUS
    <3>2. y.pc = "take.done" /\ Become(w, <<x, y>>)
      BY <1>2, <2>2, <3>1
    <3>3. Bare(y) /\ Heirs(t, y)
      BY <2>1, <3>2, HeirsPlain DEF Bare, Carrying, Naming, Recording, Checked, Noting, Outgoing, Revoking,
         Marked, Redeems, Uses, Passers, Alone
    <3>4. Rests(x, y)
      BY <3>1, <3>2, RestsRevoke DEF Outgoing
    <3>5. QED
      BY <1>1, <1>5, <3>1, <3>2, <3>3, <3>4, BareIs, NewRevoke, NeatTwo
  <2>3. QED
    BY <1>6, <1>18, <1>20, <2>1, <2>2 DEF TakeRead
<1>21. QED
  BY <1>8, <1>10, <1>12, <1>14, <1>15, <1>16, <1>17, <1>19, <1>20 DEF StartStep

----------------------------------------------------------------------------
(* A round of the grant.                                                   *)
LEMMA UseFrame ==
  ASSUME NEW w, NEW x, x.pc \in Uses, {"f", "a"} \subseteq DOMAIN x, x.f \in Family,
         x.pc \in {"use.read", "use.valid"}
           \/ (x.a \in Access \cap drawn' /\ (Carrier(w, x.a) \/ x.a \notin drawn))
  PROVE  /\ Frame(w, x)
         /\ (x.pc \in {"use.read", "use.valid"} \/ (link'[x.a] = x.f /\ Has(x.f, x.a)')) => First(x)
<1>1. x.pc \notin Revoking \cup Outgoing \cup Noting \cup Recording \cup {"record.settle"}
      /\ (x.pc \in {"use.read", "use.valid"} => x.pc \notin Carrying \cup Checked)
  BY DEF Uses, Carrying, Naming, Recording, Checked, Noting, Outgoing, Revoking, Marked
<1>2. Typed(x)' /\ Own(w, x)
  BY <1>1 DEF Typed, Own, Carries
<1>3. Passes(x)'
  BY <1>1 DEF Passes, Revoking, Marked
<1>4. ASSUME x.pc \in {"use.read", "use.valid"} \/ (link'[x.a] = x.f /\ Has(x.f, x.a)')
      PROVE  First(x)
  BY <1>1, <1>3, <1>4 DEF First, Sees, Recording
<1>5. QED
  BY <1>2, <1>4 DEF Frame

LEMMA GivingIs ==
  ASSUME NEW w, NEW tokens, NEW a \in Access \cap drawn', Carrier(w, a) \/ a \notin drawn
  PROVE  /\ Frame(w, Giving(tokens, a)) /\ Giving(tokens, a).pc = "give" /\ Giving(tokens, a).a = a
         /\ Opens(a)' => First(Giving(tokens, a))
<1>1. PICK x : x = Giving(tokens, a)
  OBVIOUS
<1>2. x.pc = "give" /\ x.a = a /\ "a" \in DOMAIN x
  BY <1>1 DEF Giving
<1>3. x.pc \in Carrying \ (Redeems \cup Uses \cup Naming)
  BY <1>2 DEF Carrying, Naming, Recording, Checked, Outgoing, Redeems, Uses
<1>4. Frame(w, x)
  BY <1>2, <1>3, CarryFrame
<1>5. Opens(a)' => First(x)
  BY <1>2 DEF First, Sees, Passes, Checked, Noting, Outgoing, Revoking, Marked
<1>6. QED
  BY <1>1, <1>2, <1>4, <1>5

LEMMA RevokeAlone ==
  ASSUME CleanInv, NEW w \in Worker, task[w] # <<>>, Top(w).pc \in Alone, Steady, NEW f,
         Become(w, <<Revoke(f)>>)
  PROVE  Neatened(w)
<1>1. PICK x : x = Revoke(f)
  OBVIOUS
<1>2. Frame(w, x) /\ First(x) /\ Become(w, <<x>>)
  BY <1>1, NewRevoke
<1>3. Heirs(Top(w), x)
  BY HeirsAlone
<1>4. QED
  BY <1>2, <1>3, NeatOne

LEMMA UseClean ==
  ASSUME CleanInv, NEW w \in Worker, UseStep(w)
  PROVE  Lasting(w) /\ Neatened(w)
<1>0. PICK t, f, a : t = Top(w) /\ f = t.f /\ a = t.a
  OBVIOUS
<1> USE <1>0
<1>1. task[w] # <<>> /\ t.pc \in Uses \cup {"give"}
  BY DEF UseStep, Give, UseRead, UseValid, UseSelect, UseEnter, UseRotate, Doing, Uses
<1>2. "pc" \in DOMAIN t /\ Typed(t) /\ Sees(t) /\ \A b \in Access : Carries(t, b) => Carrier(w, b)
  BY <1>1, TopSees DEF Fine
<1>3. t.pc \in Uses => {"pc", "f", "a"} \subseteq DOMAIN t /\ f \in Family
  BY <1>1, <1>2, TopSees DEF Typed, Fine
<1>4. t.pc \in {"give", "use.select", "use.enter", "use.rotate"} => a \in Access \cap drawn /\ Carrier(w, a)
  BY <1>2 DEF Typed, Carries, Carrying, Naming, Checked, Outgoing
<1>5. t.pc \in {"use.select", "use.enter", "use.rotate"} => link[a] = f /\ Has(f, a)
  BY <1>2 DEF Sees, Checked
<1>6. Stored /\ DOMAIN family = Family
  BY DEF CleanInv, FamilyInv, Shapes
<1>7. t.pc \in Alone /\ t.pc \notin Passers
  BY <1>1 DEF Alone, Passers, Recording, Uses
<1>8. \A x : Heirs(t, x)
  BY <1>7, HeirsAlone
<1>9. UNCHANGED <<link, issued, settles>>
  BY DEF UseStep, Give, UseRead, UseValid, UseSelect, UseEnter, UseRotate, familyVars, listVars
<1>10. ASSUME UNCHANGED <<family, held>>, denied \subseteq denied', drawn \subseteq drawn'
       PROVE  Lasting(w) /\ Steady
  <2>1. Ordinary
    BY <1>9, <1>10 DEF Ordinary, Dead
  <2>2. QED
    BY <1>10, <2>1, OrdinaryLasts DEF Steady
<1>11. ASSUME NEW p, To(w, p), t.pc \in {"use.select", "use.enter"}, p \in {"use.enter", "use.rotate"},
              UNCHANGED denied, Steady
       PROVE  Neatened(w)
  <2>1. PICK x : x = [t EXCEPT !.pc = p]
    OBVIOUS
  <2>2. /\ x.pc = p /\ x.f = f /\ x.a = a /\ {"f", "a"} \subseteq DOMAIN x /\ Become(w, <<x>>)
        /\ t.pc \in Uses /\ x.pc \in Uses
    BY <1>3, <1>11, <2>1 DEF To, Uses
  <2>3. link'[a] = f /\ Has(f, a)'
    BY <1>5, <1>9, <1>11 DEF Has
  <2>4. Frame(w, x) /\ First(x)
    BY <1>3, <1>4, <1>11, <2>2, <2>3, UseFrame DEF Steady
  <2>5. QED
    BY <1>1, <1>8, <1>11, <2>2, <2>4, NeatOne
<1>12. CASE Give(w)
  <2>1. /\ t.pc = "give" /\ UNCHANGED <<family, denied, drawn>> /\ held' = held \cup {a} /\ Return(w)
    BY <1>12 DEF Give, Doing, familyVars
  <2>2. Sent(w, a)
    BY <1>1, <2>1 DEF Sent, Outgoing, Top
  <2>3. Lasting(w)
    BY <1>4, <1>6, <1>9, <2>1, <2>2 DEF Lasting, Stored, Has, Dead
  <2>4. Neatened(w)
    BY <1>1, <1>7, <2>1, PlainReturn
  <2>5. QED
    BY <2>3, <2>4
<1>13. CASE UseRead(w)
  <2>1. t.pc = "use.read" /\ Lasting(w) /\ Steady /\ t.pc \in Uses
    BY <1>10, <1>13 DEF UseRead, Doing, familyVars, outsideVars, Uses
  <2>2. CASE Return(w)
    BY <1>1, <1>7, <2>1, <2>2, PlainReturn DEF Steady
  <2>3. CASE Become(w, <<Revoke(f)>>)
    BY <1>1, <1>7, <2>1, <2>3, RevokeAlone
  <2>4. ASSUME NEW s, Become(w, <<[t EXCEPT !.pc = "use.valid", !.s = s]>>) PROVE Neatened(w)
    <3>1. PICK x : x = [t EXCEPT !.pc = "use.valid", !.s = s]
      OBVIOUS
    <3>2. x.pc = "use.valid" /\ x.f = f /\ {"f", "a"} \subseteq DOMAIN x /\ Become(w, <<x>>)
      BY <1>3, <2>1, <2>4, <3>1
    <3>3. Frame(w, x) /\ First(x)
      BY <1>3, <2>1, <3>2, UseFrame DEF Uses
    <3>4. QED
      BY <1>1, <1>8, <2>1, <3>2, <3>3, NeatOne
  <2>5. QED
    BY <1>13, <2>1, <2>2, <2>3, <2>4 DEF UseRead
<1>14. CASE UseValid(w)
  <2>1. t.pc = "use.valid" /\ Lasting(w) /\ Steady /\ t.pc \in Uses
    BY <1>10, <1>14 DEF UseValid, Doing, familyVars, Uses
  <2>2. CASE Return(w)
    BY <1>1, <1>7, <2>1, <2>2, PlainReturn DEF Steady
  <2>3. ASSUME NEW b \in Access \ drawn, drawn' = drawn \cup {b},
               Become(w, <<Record(f, b), [t EXCEPT !.pc = "use.select", !.a = b]>>)
        PROVE  Neatened(w)
    <3>1. PICK x, y : x = Record(f, b) /\ y = [t EXCEPT !.pc = "use.select", !.a = b]
      OBVIOUS
    <3>2. y.pc = "use.select" /\ y.f = f /\ y.a = b /\ {"f", "a"} \subseteq DOMAIN y /\ Become(w, <<x, y>>)
      BY <1>3, <2>1, <2>3, <3>1
    <3>3. b \in Access \cap drawn' /\ b \notin drawn /\ f \in Family
      BY <1>3, <2>1, <2>3
    <3>4. Frame(w, x) /\ First(x) /\ x.pc = "record.link" /\ x.f = f /\ x.a = b
      BY <3>1, <3>3, RecordIs
    <3>5. Frame(w, y)
      BY <3>2, <3>3, UseFrame DEF Uses
    <3>6. Rests(x, y)
      BY <3>2, <3>4 DEF Rests, Recording, Uses, Outgoing
    <3>7. QED
      BY <1>1, <1>8, <2>1, <3>2, <3>4, <3>5, <3>6, NeatTwo
  <2>4. QED
    BY <1>14, <2>1, <2>2, <2>3 DEF UseValid
<1>15. CASE UseSelect(w)
  <2>1. t.pc = "use.select" /\ Lasting(w) /\ Steady
    BY <1>10, <1>15 DEF UseSelect, Doing, familyVars
  <2>2. CASE Throw(w)
    BY <2>1, <2>2, NeatThrow
  <2>3. CASE To(w, "use.enter") /\ UNCHANGED denied
    BY <1>11, <2>1, <2>3
  <2>4. QED
    BY <1>15, <2>1, <2>2, <2>3 DEF UseSelect
<1>16. CASE UseEnter(w)
  <2>1. t.pc = "use.enter" /\ Lasting(w) /\ Steady
    BY <1>10, <1>16 DEF UseEnter, Doing, familyVars
  <2>2. CASE Return(w)
    BY <1>1, <1>7, <2>1, <2>2, PlainReturn DEF Steady
  <2>3. CASE To(w, "use.rotate") /\ UNCHANGED denied
    BY <1>11, <2>1, <2>3
  <2>4. QED
    BY <1>16, <2>1, <2>2, <2>3 DEF UseEnter
<1>17. CASE UseRotate(w)
  <2>1. t.pc = "use.rotate" /\ t.pc \in Uses /\ UNCHANGED <<denied, held, drawn>> /\ Steady
    BY <1>17 DEF UseRotate, Doing, outsideVars, Uses, Steady
  <2>2. CASE Become(w, <<Revoke(f)>>) /\ UNCHANGED family
    BY <1>1, <1>7, <1>10, <2>1, <2>2, RevokeAlone
  <2>3. ASSUME NEW n, Alive(f), family' = [family EXCEPT ![f].current = n],
               Become(w, <<Giving({<<f, n>>}, a)>>)
        PROVE  Lasting(w) /\ Neatened(w)
    <3>1. {"state", "current"} \subseteq DOMAIN family[f]
      BY <1>3, <2>1, <2>3, States DEF CleanInv, FamilyInv, Shapes, FamilyFine
    <3>2. family'[f].state = "live" /\ \A g \in Family : g # f => family'[g] = family[g]
      BY <1>3, <1>6, <2>1, <2>3, <3>1 DEF Alive
    <3>3. Alive(f)' /\ ~Dead(f) /\ ~Dead(f)'
      BY <2>3, <3>2, States, StatesNext DEF Alive
    <3>4. Ordinary
      BY <1>9, <2>1, <3>2, <3>3 DEF Ordinary, Dead
    <3>5. Opens(a)'
      BY <1>5, <1>9, <2>1, <3>3 DEF Opens, Has
    <3>6. PICK x : x = Giving({<<f, n>>}, a)
      OBVIOUS
    <3>7. Frame(w, x) /\ First(x) /\ Become(w, <<x>>)
      BY <1>4, <2>1, <2>3, <3>5, <3>6, GivingIs
    <3>8. QED
      BY <1>1, <1>8, <2>1, <3>4, <3>7, OrdinaryLasts, NeatOne
  <2>4. QED
    BY <1>17, <2>2, <2>3 DEF UseRotate
<1>18. QED
  BY <1>12, <1>13, <1>14, <1>15, <1>16, <1>17 DEF UseStep

----------------------------------------------------------------------------
(* What ends families, and what joins one.                                 *)
LEMMA RevokeNext ==
  ASSUME CleanInv, NEW w \in Worker, task[w] # <<>>, Top(w).pc \notin Passers, Steady, NEW f, NEW y,
         Bare(y), y.pc \notin {"give", "found.confirm", "use.select", "adopt.read", "adopt.check"},
         Become(w, <<Revoke(f), y>>)
  PROVE  Neatened(w)
<1>1. PICK x : x = Revoke(f)
  OBVIOUS
<1>2. Frame(w, x) /\ First(x) /\ Become(w, <<x, y>>) /\ Frame(w, y)
  BY <1>1, NewRevoke, BareIs
<1>3. y.pc \notin {"found.confirm", "use.select", "adopt.check"} \cup Outgoing \cup Alone
  BY DEF Bare, Outgoing, Alone, Carrying
<1>4. Rests(x, y) /\ Heirs(Top(w), y)
  BY <1>1, <1>3, RestsRevoke, HeirsPlain
<1>5. QED
  BY <1>2, <1>4, NeatTwo

LEMMA EndClean ==
  ASSUME CleanInv, NEW w \in Worker, EndStep(w)
  PROVE  Lasting(w) /\ Neatened(w)
<1>0. PICK t, f, a : t = Top(w) /\ f = t.f /\ a = t.a
  OBVIOUS
<1> USE <1>0
<1>1. task[w] # <<>> /\ t.pc \in Closing \cup {"sweep", "control.read", "adopt.read", "adopt.check"}
  BY DEF EndStep, CloseMembers, CloseEach, CloseRest, SweepNext, ControlRead, AdoptRead, AdoptCheck, Doing,
         Closing
<1>2. "pc" \in DOMAIN t /\ Typed(t) /\ Sees(t) /\ \A b \in Access : Carries(t, b) => Carrier(w, b)
  BY <1>1, TopSees DEF Fine
<1>3. t.pc \in {"adopt.read", "adopt.check"} =>
        {"f", "a"} \subseteq DOMAIN t /\ f \in Family /\ a \in Access \cap drawn /\ Carrier(w, a)
  BY <1>2 DEF Typed, Carries, Carrying, Naming, Checked
<1>4. t.pc \notin Passers
  BY <1>1 DEF Closing, Passers, Recording
<1>5. Lasting(w) /\ Steady
  <2>1. UNCHANGED <<link, issued, family, settles, held, drawn>> /\ denied \subseteq denied'
    BY DEF EndStep, CloseMembers, CloseEach, CloseRest, SweepNext, ControlRead, AdoptRead, AdoptCheck,
           familyVars, listVars, outsideVars
  <2>2. Ordinary
    BY <2>1 DEF Ordinary, Dead
  <2>3. QED
    BY <2>1, <2>2, OrdinaryLasts DEF Steady
<1>6. CASE Return(w)
  BY <1>1, <1>4, <1>5, <1>6, PlainReturn DEF Steady
<1>7. ASSUME NEW x, x.pc \in {"close.each", "close.rest", "sweep", "session.settled"}
      PROVE  Bare(x) /\ x.pc \notin {"give", "found.confirm", "use.select", "adopt.read", "adopt.check"}
             /\ Heirs(t, x)
  <2>1. Bare(x) /\ x.pc \notin Alone
    BY <1>7 DEF Bare, Alone, Carrying, Naming, Recording, Checked, Noting, Outgoing, Revoking, Marked, Redeems,
       Uses
  <2>2. QED
    BY <1>4, <1>7, <2>1, HeirsPlain
<1>8. ASSUME NEW x, x.pc \in {"close.each", "close.rest"}, Become(w, <<x>>)
      PROVE  Neatened(w)
  BY <1>1, <1>5, <1>7, <1>8, BareIs, NeatOne
<1>9. CASE CloseMembers(w)
  <2>1. PICK x : x = [t EXCEPT !.pc = "close.each", !.todo = bySession[t.s].held]
    OBVIOUS
  <2>2. x.pc = "close.each" /\ Become(w, <<x>>)
    BY <1>2, <1>9, <2>1 DEF CloseMembers
  <2>3. QED
    BY <1>5, <1>8, <2>2
<1>10. ASSUME NEW g, Become(w, <<Revoke(g), [t EXCEPT !.todo = @ \ {g}]>>), t.pc \in {"close.each", "sweep"}
       PROVE  Neatened(w)
  <2>1. PICK y : y = [t EXCEPT !.todo = @ \ {g}]
    OBVIOUS
  <2>2. y.pc = t.pc /\ Become(w, <<Revoke(g), y>>)
    BY <1>2, <1>10, <2>1
  <2>3. QED
    BY <1>1, <1>4, <1>5, <1>7, <1>10, <2>2, RevokeNext
<1>11. CASE CloseEach(w)
  <2>1. t.pc = "close.each"
    BY <1>11 DEF CloseEach, Doing
  <2>2. CASE Become(w, <<[t EXCEPT !.pc = "close.rest", !.todo = bySession[t.s].awaiting]>>)
    <3>1. PICK x : x = [t EXCEPT !.pc = "close.rest", !.todo = bySession[t.s].awaiting]
      OBVIOUS
    <3>2. x.pc = "close.rest" /\ Become(w, <<x>>)
      BY <1>2, <2>2, <3>1
    <3>3. QED
      BY <1>5, <1>8, <3>2
  <2>3. QED
    BY <1>5, <1>10, <1>11, <2>1, <2>2 DEF CloseEach
<1>12. CASE CloseRest(w)
  <2>1. t.pc = "close.rest"
    BY <1>12 DEF CloseRest, Doing
  <2>2. ASSUME NEW g, Become(w, <<Revoke(g), [pc |-> "session.settled", s |-> t.s, f |-> g],
                                  [t EXCEPT !.todo = @ \ {g}]>>)
        PROVE  Neatened(w)
    <3>1. PICK x, y, z : /\ x = Revoke(g) /\ y = [pc |-> "session.settled", s |-> t.s, f |-> g]
                         /\ z = [t EXCEPT !.todo = @ \ {g}]
      OBVIOUS
    <3>2. z.pc = "close.rest" /\ y.pc = "session.settled" /\ Become(w, <<x, y, z>>)
      BY <1>2, <2>1, <2>2, <3>1
    <3>3. Bare(y) /\ Bare(z) /\ Heirs(t, z)
      BY <1>7, <3>2
    <3>4. Frame(w, x) /\ First(x) /\ Frame(w, y) /\ Frame(w, z)
      BY <3>1, <3>3, NewRevoke, BareIs
    <3>5. Rests(x, y)
      BY <3>1, <3>2, RestsRevoke DEF Outgoing
    <3>6. Rests(y, z)
      BY <3>2 DEF Rests, Uses, Outgoing
    <3>7. QED
      BY <1>1, <1>5, <3>2, <3>3, <3>4, <3>5, <3>6, NeatThree
  <2>3. QED
    BY <1>5, <1>6, <1>12, <2>2 DEF CloseRest
<1>13. CASE SweepNext(w)
  <2>1. t.pc = "sweep"
    BY <1>13 DEF SweepNext, Doing
  <2>2. QED
    BY <1>5, <1>6, <1>10, <1>13, <2>1 DEF SweepNext
<1>14. ASSUME NEW g, Become(w, <<Revoke(g)>>) PROVE Neatened(w)
  <2>1. PICK x : x = Revoke(g)
    OBVIOUS
  <2>2. Frame(w, x) /\ First(x) /\ Become(w, <<x>>) /\ x.pc = "revoke.add"
    BY <1>14, <2>1, NewRevoke
  <2>3. Heirs(t, x)
    BY <1>4, <2>2, HeirsPlain DEF Alone, Uses
  <2>4. QED
    BY <1>1, <1>5, <2>2, <2>3, NeatOne
<1>15. CASE ControlRead(w)
  BY <1>5, <1>6, <1>14, <1>15 DEF ControlRead
<1>16. CASE AdoptRead(w)
  <2>1. t.pc = "adopt.read"
    BY <1>16 DEF AdoptRead, Doing
  <2>2. CASE Become(w, <<Record(f, a), [t EXCEPT !.pc = "adopt.check"]>>)
    <3>1. PICK x, y : x = Record(f, a) /\ y = [t EXCEPT !.pc = "adopt.check"]
      OBVIOUS
    <3>2. y.pc = "adopt.check" /\ y.f = f /\ y.a = a /\ {"f", "a"} \subseteq DOMAIN y /\ Become(w, <<x, y>>)
      BY <1>2, <1>3, <2>1, <2>2, <3>1
    <3>3. a \in Access \cap drawn' /\ f \in Family /\ Carrier(w, a)
      BY <1>3, <1>5, <2>1 DEF Steady
    <3>4. Frame(w, x) /\ First(x) /\ x.pc = "record.link" /\ x.f = f /\ x.a = a
      BY <3>1, <3>3, RecordIs
    <3>5. Frame(w, y)
      BY <3>2, <3>3, StartFrames
    <3>6. Rests(x, y)
      BY <3>2, <3>4 DEF Rests, Recording, Uses, Outgoing
    <3>7. Heirs(t, y)
      BY <2>1, HeirsAlone DEF Alone
    <3>8. QED
      BY <1>1, <1>5, <3>2, <3>4, <3>5, <3>6, <3>7, NeatTwo
  <2>3. QED
    BY <1>5, <1>6, <1>16, <2>2 DEF AdoptRead
<1>17. CASE AdoptCheck(w)
  <2>1. t.pc = "adopt.check" /\ UNCHANGED <<family, link, issued, denied>>
    BY <1>17 DEF AdoptCheck, Doing, familyVars, listVars, outsideVars
  <2>2. CASE Alive(f) /\ Become(w, <<Giving({}, a)>>)
    <3>1. link[a] = f /\ Has(f, a)
      BY <1>2, <2>1 DEF Sees, Checked
    <3>2. Opens(a)'
      BY <2>1, <2>2, <3>1, States DEF Opens, Has, Dead
    <3>3. PICK x : x = Giving({}, a)
      OBVIOUS
    <3>4. a \in Access \cap drawn' /\ Carrier(w, a)
      BY <1>3, <1>5, <2>1 DEF Steady
    <3>5. Frame(w, x) /\ First(x) /\ Become(w, <<x>>)
      BY <2>2, <3>2, <3>3, <3>4, GivingIs
    <3>6. Heirs(t, x)
      BY <2>1, HeirsAlone DEF Alone
    <3>7. QED
      BY <1>1, <1>5, <3>5, <3>6, NeatOne
  <2>3. QED
    BY <1>5, <1>14, <1>17, <2>2 DEF AdoptCheck
<1>18. QED
  BY <1>9, <1>11, <1>12, <1>13, <1>15, <1>16, <1>17 DEF EndStep

----------------------------------------------------------------------------
(* What a worker takes up, and what stops it.                              *)
LEMMA BareBegun ==
  ASSUME CleanInv, NEW w \in Worker, NEW x, Bare(x), task' = [task EXCEPT ![w] = <<x>>], Ordinary
  PROVE  Lasting(w) /\ Neatened(w)
<1>1. held' = held
  BY DEF Ordinary
<1>2. QED
  BY <1>1, OrdinaryLasts, BareIs, NeatBegun

LEMMA BegunBare ==
  ASSUME NEW x, x.pc \in {"close.members", "sweep", "control.read", "code.save", "redeem.use", "voids"}
  PROVE  Bare(x)
BY DEF Bare, Carrying, Naming, Recording, Checked, Noting, Outgoing, Revoking, Marked, Redeems, Uses

LEMMA BeginClean ==
  ASSUME CleanInv, NEW w \in Worker, Beginning(w)
  PROVE  Lasting(w) /\ Neatened(w)
<1>1. UNCHANGED <<link, issued, family, settles, held, denied>> /\ drawn \subseteq drawn'
  BY DEF Beginning, BeginStart, BeginUse, BeginClose, BeginSweep, BeginControl, BeginAdopt, familyVars,
         listVars, outsideVars
<1>2. Ordinary /\ Lasting(w)
  <2>1. Ordinary
    BY <1>1 DEF Ordinary, Dead
  <2>2. QED
    BY <2>1, OrdinaryLasts
<1>3. CASE BeginStart(w)
  <2>1. PICK f \in load.families \ drawn, a \in Access \ drawn :
          /\ drawn' = drawn \cup {f, a}
          /\ Begin(w, "start", <<Found(f, NoSession, a), Giving({<<f, 1>>}, a)>>)
    BY <1>3 DEF BeginStart
  <2>2. f \in Family /\ a \in Access \cap drawn' /\ a \notin drawn
    BY <2>1, FamiliesAssumption DEF CleanInv, FamilyInv, Shapes
  <2>3. PICK x, y : x = Found(f, NoSession, a) /\ y = Giving({<<f, 1>>}, a)
    OBVIOUS
  <2>4. Frame(w, x) /\ First(x) /\ x.pc = "found.save" /\ x.a = a
    BY <2>2, <2>3, NewFound
  <2>5. Frame(w, y) /\ y.pc = "give" /\ y.a = a
    BY <2>2, <2>3, GivingIs
  <2>6. Rests(x, y)
    BY <2>4, <2>5 DEF Rests, Uses, Outgoing
  <2>7. task' = [task EXCEPT ![w] = <<x, y>>]
    BY <2>1, <2>3 DEF Begin
  <2>8. QED
    BY <1>1, <1>2, <2>4, <2>5, <2>6, <2>7, NeatBoth
<1>4. CASE BeginUse(w)
  <2>1. PICK u \in given : Begin(w, "use", <<Using(u[1], u[2])>>)
    BY <1>4 DEF BeginUse
  <2>2. PICK x : x = Using(u[1], u[2])
    OBVIOUS
  <2>3. x.pc = "use.read" /\ {"f", "a"} \subseteq DOMAIN x /\ x.f = u[1]
    BY <2>2 DEF Using
  <2>4. x.f \in Family
    BY <2>1, <2>3 DEF CleanInv, FamilyInv
  <2>5. Frame(w, x) /\ First(x)
    BY <2>3, <2>4, UseFrame DEF Uses
  <2>6. task' = [task EXCEPT ![w] = <<x>>]
    BY <2>1, <2>2 DEF Begin
  <2>7. QED
    BY <1>1, <1>2, <2>5, <2>6, NeatBegun
<1>5. CASE BeginClose(w)
  <2>1. PICK s : Begin(w, "close", <<[pc |-> "close.members", s |-> s, todo |-> {}]>>)
    BY <1>5 DEF BeginClose
  <2>2. PICK x : x = [pc |-> "close.members", s |-> s, todo |-> {}]
    OBVIOUS
  <2>3. x.pc = "close.members" /\ Bare(x) /\ task' = [task EXCEPT ![w] = <<x>>]
    BY <2>1, <2>2, BegunBare DEF Begin
  <2>4. QED
    BY <1>2, <2>3, BareBegun
<1>6. CASE BeginSweep(w)
  <2>1. PICK x : x = [pc |-> "sweep", todo |-> settles]
    OBVIOUS
  <2>2. x.pc = "sweep" /\ Bare(x) /\ task' = [task EXCEPT ![w] = <<x>>]
    BY <1>6, <2>1, BegunBare DEF BeginSweep, Begin
  <2>3. QED
    BY <1>2, <2>2, BareBegun
<1>7. CASE BeginControl(w)
  <2>1. PICK u : Begin(w, "control", <<[pc |-> "control.read", f |-> u]>>)
    BY <1>7 DEF BeginControl
  <2>2. PICK x : x = [pc |-> "control.read", f |-> u]
    OBVIOUS
  <2>3. x.pc = "control.read" /\ Bare(x) /\ task' = [task EXCEPT ![w] = <<x>>]
    BY <2>1, <2>2, BegunBare DEF Begin
  <2>4. QED
    BY <1>2, <2>3, BareBegun
<1>8. CASE BeginAdopt(w)
  <2>1. PICK b \in held, a \in Access \ drawn :
          /\ link[b] \in Family
          /\ drawn' = drawn \cup {a}
          /\ Begin(w, "adopt", <<[pc |-> "adopt.read", f |-> link[b], a |-> a]>>)
    BY <1>8 DEF BeginAdopt
  <2>2. PICK x : x = [pc |-> "adopt.read", f |-> link[b], a |-> a]
    OBVIOUS
  <2>3. x.pc = "adopt.read" /\ {"f", "a"} \subseteq DOMAIN x /\ x.f \in Family /\ x.a = a
        /\ task' = [task EXCEPT ![w] = <<x>>]
    BY <2>1, <2>2 DEF Begin
  <2>4. a \in Access \cap drawn' /\ a \notin drawn
    BY <2>1
  <2>5. Frame(w, x) /\ First(x)
    BY <2>3, <2>4, StartFrames DEF Checked
  <2>6. QED
    BY <1>1, <1>2, <2>3, <2>5, NeatBegun
<1>9. QED
  BY <1>3, <1>4, <1>5, <1>6, <1>7, <1>8 DEF Beginning

LEMMA StopClean ==
  ASSUME CleanInv, NEW w \in Worker, Rethrow(w) \/ Fails(w) \/ Crash(w)
  PROVE  Lasting(w) /\ Neatened(w)
<1>1. UNCHANGED <<link, issued, family, settles, held, denied, drawn>>
  BY DEF Rethrow, Fails, Crash, familyVars, listVars, outsideVars
<1>2. Ordinary
  BY <1>1 DEF Ordinary, Dead
<1>3. Steady
  BY <1>1 DEF Steady
<1>4. CASE Throw(w)
  BY <1>2, <1>3, <1>4, NeatThrow, OrdinaryLasts
<1>5. CASE Crash(w)
  BY <1>2, <1>5, NeatCrash, OrdinaryLasts
<1>6. QED
  BY <1>4, <1>5 DEF Rethrow, Fails

----------------------------------------------------------------------------
(* A code's redemption, and its voiding.                                   *)
LEMMA BareCode ==
  ASSUME NEW x, x.pc \in Settles \cup {"voids", "take.mark", "throw"}
  PROVE  Bare(x) /\ x.pc \notin Alone
BY DEF Bare, Alone, Carrying, Naming, Recording, Checked, Noting, Outgoing, Revoking, Marked, Redeems, Uses,
   Settles

LEMMA NewSettling ==
  ASSUME NEW c
  PROVE  Settling(c).pc = "settle.add" /\ Bare(Settling(c)) /\ Settling(c).pc \notin Alone
<1>1. PICK x : x = Settling(c)
  OBVIOUS
<1>2. x.pc = "settle.add"
  BY <1>1 DEF Settling
<1>3. QED
  BY <1>1, <1>2, BareCode DEF Settles

LEMMA BareOne ==
  ASSUME CleanInv, NEW w \in Worker, task[w] # <<>>, Top(w).pc \notin Passers, Steady, NEW x,
         Bare(x), x.pc \notin Alone, Become(w, <<x>>)
  PROVE  Neatened(w)
BY HeirsPlain, BareIs, NeatOne

LEMMA BareTwo ==
  ASSUME CleanInv, NEW w \in Worker, task[w] # <<>>, Top(w).pc \notin Passers, Steady, NEW x, NEW y,
         Bare(x), Bare(y), x.pc \notin Alone, y.pc \notin Alone, y.pc # "found.confirm", Become(w, <<x, y>>)
  PROVE  Neatened(w)
<1>1. Frame(w, x) /\ First(x) /\ Frame(w, y) /\ Heirs(Top(w), y)
  BY HeirsPlain, BareIs
<1>2. Rests(x, y)
  BY DEF Rests, Bare, Alone, Outgoing, Carrying, Uses
<1>3. QED
  BY <1>1, <1>2, NeatTwo

LEMMA SettleClean ==
  ASSUME CleanInv, NEW w \in Worker, SettleStep(w) \/ VoidsNext(w)
  PROVE  Lasting(w) /\ Neatened(w)
<1>0. PICK t : t = Top(w)
  OBVIOUS
<1> USE <1>0
<1>1. task[w] # <<>> /\ t.pc \in Settles \cup {"voids"}
  BY DEF SettleStep, SettleAdd, SettleMark, SettleDeny, SettleDone, VoidsNext, Doing, Settles
<1>2. "pc" \in DOMAIN t /\ t.pc \notin Passers
  BY <1>1, TopSees DEF Fine, Settles, Passers, Recording
<1>3. Lasting(w) /\ Steady
  <2>1. UNCHANGED <<link, issued, family, settles, held, drawn>> /\ denied \subseteq denied'
    BY DEF SettleStep, SettleAdd, SettleMark, SettleDeny, SettleDone, VoidsNext, familyVars, listVars,
           outsideVars
  <2>2. Ordinary
    BY <2>1 DEF Ordinary, Dead
  <2>3. QED
    BY <2>1, <2>2, OrdinaryLasts DEF Steady
<1>4. CASE Return(w)
  BY <1>1, <1>2, <1>3, <1>4, PlainReturn DEF Steady
<1>5. ASSUME NEW p \in Settles, To(w, p) PROVE Neatened(w)
  <2>1. PICK x : x = [t EXCEPT !.pc = p]
    OBVIOUS
  <2>2. x.pc = p /\ Become(w, <<x>>)
    BY <1>2, <1>5, <2>1 DEF To
  <2>3. Bare(x) /\ x.pc \notin Alone
    BY <2>2, BareCode
  <2>4. QED
    BY <1>1, <1>2, <1>3, <2>2, <2>3, BareOne
<1>6. ASSUME NEW c, Become(w, <<TakingBack(c), [t EXCEPT !.pc = "settle.done"]>>) PROVE Neatened(w)
  <2>1. PICK x, y : x = TakingBack(c) /\ y = [t EXCEPT !.pc = "settle.done"]
    OBVIOUS
  <2>2. x.pc = "take.mark" /\ y.pc = "settle.done" /\ Become(w, <<x, y>>)
    BY <1>2, <1>6, <2>1 DEF TakingBack
  <2>3. Bare(x) /\ Bare(y) /\ x.pc \notin Alone /\ y.pc \notin Alone
    BY <2>2, BareCode DEF Settles
  <2>4. QED
    BY <1>1, <1>2, <1>3, <2>2, <2>3, BareTwo
<1>7. CASE SettleAdd(w)
  BY <1>3, <1>5, <1>7 DEF SettleAdd, Settles
<1>8. CASE SettleMark(w)
  BY <1>3, <1>4, <1>5, <1>6, <1>8 DEF SettleMark, Settles
<1>9. CASE SettleDeny(w)
  BY <1>3, <1>6, <1>9 DEF SettleDeny
<1>10. CASE SettleDone(w)
  BY <1>3, <1>4, <1>10 DEF SettleDone
<1>11. CASE VoidsNext(w)
  <2>1. t.pc = "voids"
    BY <1>11 DEF VoidsNext, Doing
  <2>2. ASSUME NEW c, Become(w, <<Settling(c), [t EXCEPT !.todo = @ \ {c}]>>) PROVE Neatened(w)
    <3>1. PICK x, y : x = Settling(c) /\ y = [t EXCEPT !.todo = @ \ {c}]
      OBVIOUS
    <3>2. y.pc = "voids" /\ Become(w, <<x, y>>)
      BY <1>2, <2>1, <2>2, <3>1
    <3>3. Bare(x) /\ Bare(y) /\ x.pc \notin Alone /\ y.pc \notin Alone
      BY <3>1, <3>2, NewSettling, BareCode
    <3>4. QED
      BY <1>1, <1>2, <1>3, <3>2, <3>3, BareTwo
  <2>3. QED
    BY <1>3, <1>4, <1>11, <2>2 DEF VoidsNext
<1>12. QED
  BY <1>7, <1>8, <1>9, <1>10, <1>11 DEF SettleStep

LEMMA RedeemFrame ==
  ASSUME NEW w, NEW x, x.pc \in Redeems, "a" \in DOMAIN x,
         x.pc \in Noting \cup {"redeem.hooks"} =>
           /\ x.a \in Access \cap drawn' /\ (Carrier(w, x.a) \/ x.a \notin drawn)
  PROVE  /\ Frame(w, x)
         /\ (x.pc \in Noting \cup {"redeem.hooks"} => link'[x.a] = "none") => First(x)
<1>1. /\ x.pc \notin Naming \cup Checked \cup Revoking \cup {"record.add", "record.settle"}
      /\ (x.pc \in Carrying => x.pc \in Noting \cup {"redeem.hooks"})
      /\ (x.pc \in Outgoing => x.pc = "redeem.hooks")
  BY DEF Redeems, Carrying, Naming, Recording, Checked, Noting, Outgoing, Revoking, Marked
<1>2. Typed(x)' /\ Own(w, x)
  BY <1>1 DEF Typed, Own, Carries
<1>3. Passes(x)'
  BY <1>1 DEF Passes, Revoking, Marked
<1>4. ASSUME x.pc \in Noting \cup {"redeem.hooks"} => link'[x.a] = "none"
      PROVE  First(x)
  BY <1>1, <1>3, <1>4, FamiliesAssumption DEF First, Sees, Opens
<1>5. QED
  BY <1>2, <1>4 DEF Frame

LEMMA RedeemClean ==
  ASSUME CleanInv, NEW w \in Worker, RedeemStep(w)
  PROVE  Lasting(w) /\ Neatened(w)
<1>0. PICK t, a : t = Top(w) /\ a = t.a
  OBVIOUS
<1> USE <1>0
<1>1. task[w] # <<>> /\ t.pc \in Coded
  BY DEF RedeemStep, CodeIssue, RedeemUse, RedeemEnter, RedeemPin, RedeemIssue, RedeemNote, RedeemSession,
         RedeemCheck, RedeemAdd, RedeemHooks, RedeemVoid, Doing, Coded, Redeems
<1>2. "pc" \in DOMAIN t /\ Typed(t) /\ Sees(t) /\ \A b \in Access : Carries(t, b) => Carrier(w, b)
  BY <1>1, TopSees DEF Fine
<1>3. /\ t.pc \in Redeems => "a" \in DOMAIN t
      /\ t.pc \in Noting \cup {"redeem.hooks"} => a \in Access \cap drawn /\ Carrier(w, a)
  BY <1>2 DEF Typed, Carries, Carrying, Outgoing
<1>4. t.pc \in Noting => link[a] = "none"
  BY <1>2 DEF Sees
<1>5. t.pc \notin Passers /\ t.pc \in Bases
  BY <1>1 DEF Passers, Recording, Bases, Coded, Redeems
<1>6. \A x : Heirs(t, x)
  BY <1>5, HeirsAlone
<1>7. Stored /\ UNCHANGED <<link, issued, family, settles>> /\ denied \subseteq denied' /\ drawn \subseteq drawn'
  BY DEF CleanInv, RedeemStep, CodeIssue, RedeemUse, RedeemEnter, RedeemPin, RedeemIssue, RedeemNote,
         RedeemSession, RedeemCheck, RedeemAdd, RedeemHooks, RedeemVoid, familyVars, listVars, outsideVars
<1>8. ASSUME UNCHANGED held PROVE Lasting(w) /\ Steady
  <2>1. Ordinary
    BY <1>7, <1>8 DEF Ordinary, Dead
  <2>2. QED
    BY <1>7, <1>8, <2>1, OrdinaryLasts DEF Steady
<1>9. ASSUME Return(w) PROVE Neatened(w)
  <2>1. held' = held \/ Top(w).pc \in Bases \cup {"give"}
    BY <1>5
  <2>2. Top(w).pc \notin Passers /\ task[w] # <<>> /\ drawn \subseteq drawn'
    BY <1>1, <1>5, <1>7
  <2>3. Neatened(w)
    BY <1>9, <2>1, <2>2, PlainReturn
  <2>4. QED
    BY <2>3
<1>10. ASSUME NEW x, Become(w, <<x>>), Frame(w, x), First(x), Steady PROVE Neatened(w)
  BY <1>1, <1>6, <1>10, NeatOne
<1>11. ASSUME NEW p, To(w, p), t.pc \in Redeems, p \in Redeems, Steady,
              p \in Noting \cup {"redeem.hooks"} => t.pc \in Noting
       PROVE  Neatened(w)
  <2>1. PICK x : x = [t EXCEPT !.pc = p]
    OBVIOUS
  <2>2. x.pc = p /\ x.a = a /\ "a" \in DOMAIN x /\ Become(w, <<x>>)
    BY <1>2, <1>3, <1>11, <2>1 DEF To, Noting
  <2>3. x.pc \in Noting \cup {"redeem.hooks"} =>
          x.a \in Access \cap drawn' /\ Carrier(w, x.a) /\ link'[x.a] = "none"
    BY <1>3, <1>4, <1>7, <1>11, <2>2
  <2>4. Frame(w, x) /\ First(x)
    BY <1>11, <2>2, <2>3, RedeemFrame
  <2>5. QED
    BY <1>10, <1>11, <2>2, <2>4
<1>12. ASSUME NEW c, Become(w, <<Settling(c)>>), Steady PROVE Neatened(w)
  <2>1. PICK x : x = Settling(c)
    OBVIOUS
  <2>2. Bare(x) /\ Become(w, <<x>>)
    BY <1>12, <2>1, NewSettling
  <2>3. QED
    BY <1>10, <1>12, <2>2, BareIs
<1>13. CASE CodeIssue(w)
  BY <1>8, <1>9, <1>13 DEF CodeIssue, outsideVars
<1>14. CASE RedeemUse(w)
  <2>1. Lasting(w) /\ Steady
    BY <1>8, <1>14 DEF RedeemUse, outsideVars
  <2>2. ASSUME NEW c, NEW s, Become(w, <<Redeeming(c, s)>>) PROVE Neatened(w)
    <3>1. PICK x : x = Redeeming(c, s)
      OBVIOUS
    <3>2. x.pc = "redeem.enter" /\ "a" \in DOMAIN x /\ Become(w, <<x>>)
      BY <2>2, <3>1 DEF Redeeming
    <3>3. Frame(w, x) /\ First(x)
      BY <3>2, RedeemFrame DEF Redeems, Noting
    <3>4. QED
      BY <1>10, <2>1, <3>2, <3>3
  <2>3. QED
    BY <1>9, <1>12, <1>14, <2>1, <2>2 DEF RedeemUse
<1>15. CASE RedeemEnter(w)
  <2>1. Lasting(w) /\ Steady /\ t.pc = "redeem.enter"
    BY <1>8, <1>15 DEF RedeemEnter, Doing, outsideVars
  <2>2. QED
    BY <1>9, <1>11, <1>15, <2>1 DEF RedeemEnter, Redeems, Noting
<1>16. CASE RedeemPin(w)
  <2>1. Lasting(w) /\ Steady /\ t.pc = "redeem.pin"
    BY <1>8, <1>16 DEF RedeemPin, Doing, outsideVars
  <2>2. QED
    BY <1>11, <1>16, <2>1 DEF RedeemPin, Redeems, Noting
<1>17. CASE RedeemIssue(w)
  <2>1. Lasting(w) /\ Steady /\ t.pc = "redeem.issue"
    BY <1>8, <1>17 DEF RedeemIssue, Doing
  <2>2. ASSUME NEW b \in Access \ drawn, drawn' = drawn \cup {b},
               Become(w, <<[t EXCEPT !.pc = "redeem.note", !.a = b]>>)
        PROVE  Neatened(w)
    <3>1. PICK x : x = [t EXCEPT !.pc = "redeem.note", !.a = b]
      OBVIOUS
    <3>2. x.pc = "redeem.note" /\ x.a = b /\ "a" \in DOMAIN x /\ Become(w, <<x>>)
      BY <1>2, <1>3, <2>1, <2>2, <3>1 DEF Redeems
    <3>3. b \in Access \cap drawn' /\ b \notin drawn /\ link'[b] = "none"
      BY <1>7, <2>2 DEF Stored
    <3>4. Frame(w, x) /\ First(x)
      BY <3>2, <3>3, RedeemFrame DEF Redeems
    <3>5. QED
      BY <1>10, <2>1, <3>2, <3>4
  <2>3. QED
    BY <1>9, <1>17, <2>1, <2>2 DEF RedeemIssue
<1>18. CASE RedeemNote(w)
  <2>1. Lasting(w) /\ Steady /\ t.pc = "redeem.note" /\ t.pc \in Noting /\ t.pc \in Redeems
    BY <1>8, <1>18 DEF RedeemNote, Doing, outsideVars, Noting, Redeems
  <2>2. ASSUME NEW v, Become(w, <<[t EXCEPT !.pc = "redeem.session", !.void = v]>>)
        PROVE  Neatened(w)
    <3>1. PICK x : x = [t EXCEPT !.pc = "redeem.session", !.void = v]
      OBVIOUS
    <3>2. x.pc = "redeem.session" /\ x.a = a /\ "a" \in DOMAIN x /\ Become(w, <<x>>)
      BY <1>2, <1>3, <2>1, <2>2, <3>1
    <3>3. a \in Access \cap drawn' /\ Carrier(w, a) /\ link'[a] = "none"
      BY <1>3, <1>4, <1>7, <2>1
    <3>4. Frame(w, x) /\ First(x)
      BY <3>2, <3>3, RedeemFrame DEF Redeems
    <3>5. QED
      BY <1>10, <2>1, <3>2, <3>4
  <2>3. QED
    BY <1>9, <1>18, <2>1, <2>2 DEF RedeemNote
<1>19. CASE RedeemSession(w)
  <2>1. Lasting(w) /\ Steady /\ t.pc = "redeem.session"
    BY <1>8, <1>19 DEF RedeemSession, Doing, outsideVars
  <2>2. QED
    BY <1>11, <1>19, <2>1 DEF RedeemSession, Redeems, Noting
<1>20. CASE RedeemCheck(w)
  <2>1. Lasting(w) /\ Steady /\ t.pc = "redeem.check"
    BY <1>8, <1>20 DEF RedeemCheck, Doing, outsideVars
  <2>2. CASE To(w, "redeem.add")
    BY <1>11, <2>1, <2>2 DEF Redeems, Noting
  <2>3. QED
    BY <1>12, <1>20, <2>1, <2>2 DEF RedeemCheck
<1>21. CASE RedeemAdd(w)
  <2>1. Lasting(w) /\ Steady /\ t.pc = "redeem.add" /\ t.pc \in Noting /\ t.pc \in Redeems
    BY <1>8, <1>21 DEF RedeemAdd, Doing, Noting, Redeems
  <2>2. CASE To(w, "redeem.hooks")
    BY <1>11, <2>1, <2>2 DEF Redeems
  <2>3. ASSUME NEW f \in load.families,
               Become(w, <<Starting(t.c, f, t.s, a), [t EXCEPT !.pc = "redeem.hooks", !.tokens = {<<f, 1>>}]>>)
        PROVE  Neatened(w)
    <3>1. PICK x, y : /\ x = Starting(t.c, f, t.s, a)
                      /\ y = [t EXCEPT !.pc = "redeem.hooks", !.tokens = {<<f, 1>>}]
      OBVIOUS
    <3>2. y.pc = "redeem.hooks" /\ y.a = a /\ "a" \in DOMAIN y /\ Become(w, <<x, y>>)
      BY <1>2, <1>3, <2>1, <2>3, <3>1
    <3>3. a \in Access \cap drawn' /\ Carrier(w, a) /\ f \in Family
      BY <1>3, <1>7, <2>1, <2>3, FamiliesAssumption DEF CleanInv, FamilyInv, Shapes
    <3>4. x.pc = "start.name" /\ x.f = f /\ x.a = a /\ {"f", "a"} \subseteq DOMAIN x
      BY <3>1 DEF Starting
    <3>5. Frame(w, x) /\ First(x)
      BY <3>3, <3>4, StartFrames DEF Checked
    <3>6. Frame(w, y)
      BY <3>2, <3>3, RedeemFrame DEF Redeems
    <3>7. Rests(x, y)
      BY <3>2, <3>4 DEF Rests, Uses
    <3>8. QED
      BY <1>1, <1>6, <2>1, <3>2, <3>5, <3>6, <3>7, NeatTwo
  <2>4. QED
    BY <1>21, <2>1, <2>2, <2>3 DEF RedeemAdd
<1>22. CASE RedeemHooks(w)
  <2>1. /\ t.pc = "redeem.hooks" /\ UNCHANGED <<denied, drawn>> /\ held' = held \cup {a} /\ Return(w)
    BY <1>22 DEF RedeemHooks, Doing
  <2>2. Sent(w, a)
    BY <1>1, <2>1 DEF Sent, Outgoing, Top
  <2>3. Lasting(w)
    BY <1>3, <1>7, <2>1, <2>2 DEF Lasting, Stored, Has, Dead
  <2>4. QED
    BY <1>9, <2>1, <2>3
<1>23. CASE RedeemVoid(w)
  <2>1. Lasting(w) /\ Steady /\ t.pc = "redeem.void"
    BY <1>8, <1>23 DEF RedeemVoid, Doing, outsideVars
  <2>2. PICK x, y : x = Settling(t.c) /\ y = Throwing
    OBVIOUS
  <2>3. y.pc = "throw" /\ Become(w, <<x, y>>)
    BY <1>23, <2>2 DEF RedeemVoid, Throwing
  <2>4. Bare(x) /\ Bare(y) /\ x.pc \notin Alone /\ y.pc \notin Alone
    BY <2>2, <2>3, NewSettling, BareCode
  <2>5. QED
    BY <1>1, <1>5, <2>1, <2>3, <2>4, BareTwo
<1>24. QED
  BY <1>13, <1>14, <1>15, <1>16, <1>17, <1>18, <1>19, <1>20, <1>21, <1>22, <1>23 DEF RedeemStep

LEMMA CodeBeginClean ==
  ASSUME CleanInv, NEW w \in Worker, BeginCode(w) \/ BeginRedeem(w) \/ BeginVoids(w)
  PROVE  Lasting(w) /\ Neatened(w)
<1>1. Ordinary
  <2>1. UNCHANGED <<link, issued, family, settles, held, denied, drawn>>
    BY DEF BeginCode, BeginRedeem, BeginVoids, familyVars, listVars, outsideVars
  <2>2. QED
    BY <2>1 DEF Ordinary, Dead
<1>2. CASE BeginCode(w)
  <2>1. PICK c, s : Begin(w, "code", <<[pc |-> "code.save", c |-> c, s |-> s]>>)
    BY <1>2 DEF BeginCode
  <2>2. PICK x : x = [pc |-> "code.save", c |-> c, s |-> s]
    OBVIOUS
  <2>3. x.pc = "code.save" /\ Bare(x) /\ task' = [task EXCEPT ![w] = <<x>>]
    BY <2>1, <2>2, BegunBare DEF Begin
  <2>4. QED
    BY <1>1, <2>3, BareBegun
<1>3. CASE BeginRedeem(w)
  <2>1. PICK c : Begin(w, "redeem", <<[pc |-> "redeem.use", c |-> c]>>)
    BY <1>3 DEF BeginRedeem
  <2>2. PICK x : x = [pc |-> "redeem.use", c |-> c]
    OBVIOUS
  <2>3. x.pc = "redeem.use" /\ Bare(x) /\ task' = [task EXCEPT ![w] = <<x>>]
    BY <2>1, <2>2, BegunBare DEF Begin
  <2>4. QED
    BY <1>1, <2>3, BareBegun
<1>4. CASE BeginVoids(w)
  <2>1. PICK x : x = [pc |-> "voids", todo |-> voids]
    OBVIOUS
  <2>2. x.pc = "voids" /\ Bare(x) /\ task' = [task EXCEPT ![w] = <<x>>]
    BY <1>4, <2>1, BegunBare DEF BeginVoids, Begin
  <2>3. QED
    BY <1>1, <2>2, BareBegun
<1>5. QED
  BY <1>2, <1>3, <1>4

----------------------------------------------------------------------------
LEMMA CleanIdle ==
  ASSUME CleanInv, FamilyInv', UNCHANGED <<task, family, issued, link, settles, denied, drawn, held>>
  PROVE  CleanInv'
<1>1. \A q : (Typed(q)' <=> Typed(q)) /\ (Sees(q)' <=> Sees(q))
  BY DEF Typed, Sees, Passes, Has, Within, Out, Sent, Dead
<1>2. \A a : (Out(a)' <=> Out(a)) /\ (Covers(a)' <=> Covers(a))
  BY DEF Out, Sent, Covers, Has, Dead
<1>3. Stored'
  BY DEF CleanInv, Stored
<1>4. QED
  BY <1>1, <1>2, <1>3 DEF CleanInv, Carrier

LEMMA CleanInit == Init => CleanInv
<1> SUFFICES ASSUME Init PROVE CleanInv
  OBVIOUS
<1>1. FamilyInv
  BY FamilyInit
<1>2. /\ link = [a \in Access |-> "none"] /\ issued = [f \in Family |-> NoMembers]
      /\ held = {} /\ task = [w \in Worker |-> <<>>]
  BY DEF Init, FamiliesInit
<1>3. Stored
  BY <1>2 DEF Stored, NoMembers
<1>5. \A w \in Worker : task[w] = <<>>
  BY <1>2
<1>6. \A r : ~In(r, <<>>)
  BY InTuples
<1>7. \A a : ~Out(a)
  BY <1>2, <1>5 DEF Out, Sent
<1>8. Neatly(<<>>)
  <2>1. Len(<<>>) = 0
    BY Tuples
  <2>2. QED
    BY <2>1 DEF Neatly
<1>9. \A w \in Worker, a \in Access : ~Carrier(w, a)
  BY <1>5, <1>6 DEF Carrier
<1>10. QED
  BY <1>1, <1>2, <1>3, <1>5, <1>6, <1>7, <1>8, <1>9 DEF CleanInv

LEMMA CleanNext == CleanInv /\ [Next]_allVars => CleanInv'
<1> SUFFICES ASSUME CleanInv, [Next]_allVars PROVE CleanInv'
  OBVIOUS
<1>1. FamilyInv'
  BY FamilyStep DEF CleanInv
<1>2. CASE UNCHANGED allVars
  BY <1>1, <1>2, CleanIdle DEF allVars, vars, familyVars, listVars, outsideVars
<1>3. ASSUME NEW w \in Worker, Work(w) \/ Beginning(w) \/ Fails(w) \/ Crash(w) PROVE CleanInv'
  <2>1. Lasting(w) /\ Neatened(w)
    BY <1>3, RevokeClean, RecordClean, StartClean, UseClean, EndClean, BeginClean, StopClean DEF Work
  <2>2. QED
    BY <1>1, <2>1, CleanDone
<1>4. ASSUME NEW w \in Worker, CodeWork(w) \/ BeginCode(w) \/ BeginRedeem(w) \/ BeginVoids(w)
      PROVE  CleanInv'
  <2>1. Lasting(w) /\ Neatened(w)
    BY <1>4, SettleClean, RedeemClean, CodeBeginClean DEF CodeWork
  <2>2. QED
    BY <1>1, <2>1, CleanDone
<1>5. ASSUME NEW c \in Redemption, CodeDrops(c) PROVE CleanInv'
  BY <1>1, <1>5, CleanIdle DEF CodeDrops, familyVars, listVars, outsideVars
<1>6. QED
  BY <1>2, <1>3, <1>4, <1>5 DEF Next, FamiliesNext

LEMMA CleanAlways == Spec => []CleanInv
<1>1. QED
  BY CleanInit, CleanNext, PTL DEF Spec

(* Once a revocation of a family is off the settle list, every access      *)
(* token of it that a client holds is denied: one its list kept, one its   *)
(* cap pushed out, and one that joined it while the revocation ran         *)
(* (settle.ts revokeFamily, recordAccess; lineage.ts adopt).               *)
THEOREM CleanedForGood == Spec => []CleanupReachesAll
<1>1. CleanInv => CleanupReachesAll
  <2> SUFFICES ASSUME CleanInv, NEW a \in held, link[a] \in Family, family[link[a]] = Revoked,
                      link[a] \notin settles
               PROVE  a \in denied
    BY DEF CleanupReachesAll
  <2>1. a \in Access /\ Out(a)
    BY DEF CleanInv, Stored, Out
  <2>2. QED
    BY <2>1 DEF CleanInv, Covers, Dead
<1>2. QED
  BY <1>1, CleanAlways, PTL

----------------------------------------------------------------------------
(***************************************************************************)
(* Types, and how deep a stack grows: a frame that is called is of a lower *)
(* rank than the one that called it, and a code is settled at the bottom   *)
(* of its stack, or one above.                                             *)
(***************************************************************************)
Rank(r) ==
  IF r.pc \in Revoking \cup {"record.settle"} THEN 0
  ELSE IF r.pc \in Recording \cup Taking \cup {"record.push", "session.settled"} THEN 1
  ELSE IF r.pc \in Settles THEN 2
  ELSE IF r.pc \in Starts \cup {"found.confirm", "start.drop", "throw"} THEN 3 ELSE 4

Stacked(s) ==
  \A i \in 1 .. Len(s) :
    /\ i < Len(s) => Rank(s[i]) < Rank(s[i + 1])
    /\ s[i].pc \in Settles => i >= Len(s) - 1

TasksFine == task \in [Worker -> Seq(Frames)] /\ \A w \in Worker : Stacked(task[w])

TypesInv == FamiliesTypeOK /\ CodesTypeOK /\ TasksFine

----------------------------------------------------------------------------
LEMMA Ranks ==
  ASSUME NEW r
  PROVE  /\ Rank(r) \in 0 .. 4
         /\ Rank(r) = 2 => r.pc \in Settles
BY DEF Rank

(* A stack is of four frames at most.                                      *)
LEMMA StackedShort ==
  ASSUME NEW s \in Seq(Frames), Stacked(s)
  PROVE  Len(s) <= 4
<1>1. PICK l : l = Len(s)
  OBVIOUS
<1>2. l \in Nat
  BY <1>1
<1>3. SUFFICES ASSUME l > 4 PROVE FALSE
  BY <1>1, <1>2
<1>4. /\ Rank(s[1]) < Rank(s[1 + 1]) /\ Rank(s[2]) < Rank(s[2 + 1]) /\ Rank(s[3]) < Rank(s[3 + 1])
      /\ Rank(s[4]) < Rank(s[4 + 1])
  BY <1>1, <1>2, <1>3 DEF Stacked
<1>5. ~(s[3].pc \in Settles) \/ 3 >= l - 1
  BY <1>1, <1>2, <1>3 DEF Stacked
<1>6. Rank(s[3]) = 2
  BY <1>4, Ranks
<1>7. QED
  BY <1>2, <1>3, <1>5, <1>6, Ranks

LEMMA TypesCorrect == TypesInv => TypeOK
<1>1. ASSUME TasksFine, NEW w \in Worker PROVE Len(task[w]) <= 4
  <2>1. task[w] \in Seq(Frames) /\ Stacked(task[w])
    BY <1>1 DEF TasksFine
  <2>2. QED
    BY <2>1, StackedShort
<1>2. QED
  BY <1>1 DEF TypesInv, TasksFine, TypeOK

(* The frames of a stack that makes way, over what waits below.            *)
Lower(a, s) ==
  \A i \in 1 .. Len(a) :
    /\ Rank(a[i]) <= Rank(s[1])
    /\ a[i].pc \in Settles => \/ s[1].pc \in Settles /\ i = Len(a)
                              \/ Len(s) = 1 /\ i >= Len(a) - 1

LEMMA StackedPushed ==
  ASSUME NEW s \in Seq(Frames), s # <<>>, Stacked(s), NEW a \in Seq(Frames), Lower(a, s),
         \A i \in 1 .. Len(a) : i < Len(a) => Rank(a[i]) < Rank(a[i + 1])
  PROVE  a \o Tail(s) \in Seq(Frames) /\ Stacked(a \o Tail(s))
<1> DEFINE n == a \o Tail(s)
           k == Len(a)
           l == Len(s)
<1>0. IsStack(s) /\ IsStack(a)
  BY DEF IsStack
<1>1. l \in Nat \ {0} /\ k \in Nat /\ n \in Seq(Frames)
  BY <1>0, IsStackParts
<1>2. Len(n) = k + l - 1 /\ \A i \in 1 .. Len(n) : n[i] = IF i <= k THEN a[i] ELSE s[i - k + 1]
  BY <1>0, Made
<1>3. /\ \A i \in 1 .. l : i < l => Rank(s[i]) < Rank(s[i + 1])
      /\ \A i \in 1 .. l : s[i].pc \in Settles => i >= l - 1
      /\ \A i \in 1 .. k : i < k => Rank(a[i]) < Rank(a[i + 1])
      /\ \A i \in 1 .. k : Rank(a[i]) <= Rank(s[1])
      /\ \A i \in 1 .. k : a[i].pc \in Settles => (s[1].pc \in Settles /\ i = k) \/ (l = 1 /\ i >= k - 1)
  BY DEF Stacked, Lower
<1> HIDE DEF n, k, l
<1>4. ASSUME NEW i \in 1 .. Len(n), i < Len(n) PROVE Rank(n[i]) < Rank(n[i + 1])
  <2>0. i \in Nat /\ i >= 1 /\ i < k + l - 1 /\ i + 1 \in 1 .. Len(n)
    BY <1>1, <1>2, <1>4
  <2>1. CASE i < k
    <3>1. n[i] = a[i] /\ n[i + 1] = a[i + 1]
      BY <1>1, <1>2, <2>0, <2>1
    <3>2. QED
      BY <1>1, <1>3, <2>0, <2>1, <3>1
  <2>2. CASE i = k
    <3>1. n[i] = a[i] /\ n[i + 1] = s[2] /\ 1 \in 1 .. l /\ 1 < l
      BY <1>1, <1>2, <2>0, <2>2
    <3>2. Rank(s[1]) < Rank(s[1 + 1]) /\ Rank(a[i]) <= Rank(s[1])
      BY <1>1, <1>3, <2>0, <2>2, <3>1
    <3>3. QED
      BY <3>1, <3>2, Ranks
  <2>3. CASE i > k
    <3>1. PICK j : j = i - k + 1
      OBVIOUS
    <3>2. j \in 1 .. l /\ j < l /\ n[i] = s[j] /\ n[i + 1] = s[j + 1]
      BY <1>1, <1>2, <2>0, <2>3, <3>1
    <3>3. QED
      BY <1>3, <3>2
  <2>4. QED
    BY <1>1, <2>0, <2>1, <2>2, <2>3
<1>5. ASSUME NEW i \in 1 .. Len(n), n[i].pc \in Settles PROVE i >= Len(n) - 1
  <2>1. CASE i <= k
    <3>1. n[i] = a[i] /\ i \in 1 .. k
      BY <1>1, <1>2, <2>1
    <3>2. (s[1].pc \in Settles /\ i = k) \/ (l = 1 /\ i >= k - 1)
      BY <1>3, <1>5, <3>1
    <3>3. s[1].pc \in Settles => l <= 2
      BY <1>1, <1>3
    <3>4. QED
      BY <1>1, <1>2, <3>2, <3>3
  <2>2. CASE i > k
    <3>1. PICK j : j = i - k + 1
      OBVIOUS
    <3>2. j \in 1 .. l /\ n[i] = s[j]
      BY <1>1, <1>2, <2>2, <3>1
    <3>3. j >= l - 1
      BY <1>3, <1>5, <3>2
    <3>4. QED
      BY <1>1, <1>2, <2>2, <3>1, <3>3
  <2>3. QED
    BY <1>1, <2>1, <2>2
<1>6. QED
  BY <1>1, <1>4, <1>5 DEF Stacked, n

LEMMA StackedOne ==
  ASSUME NEW x \in Frames
  PROVE  <<x>> \in Seq(Frames) /\ Stacked(<<x>>) /\ <<>> \in Seq(Frames) /\ Stacked(<<>>)
<1>1. PICK s, e : s = <<x>> /\ e = <<>>
  OBVIOUS
<1>2. Len(s) = 1 /\ Len(e) = 0 /\ s \in Seq(Frames) /\ e \in Seq(Frames)
  BY <1>1
<1>3. Stacked(s) /\ Stacked(e)
  BY <1>2 DEF Stacked
<1>4. QED
  BY <1>1, <1>2, <1>3

(* A step of w, and what it leaves on its stack.                           *)
LEMMA TasksStep ==
  ASSUME TasksFine, NEW w \in Worker, NEW n \in Seq(Frames), Stacked(n), task' = [task EXCEPT ![w] = n]
  PROVE  TasksFine'
<1>1. task' \in [Worker -> Seq(Frames)] /\ task'[w] = n /\ \A v \in Worker \ {w} : task'[v] = task[v]
  BY DEF TasksFine
<1>2. \A v \in Worker : Stacked(task[v])
  BY DEF TasksFine
<1>3. ASSUME NEW v \in Worker PROVE Stacked(task'[v])
  BY <1>1, <1>2
<1>4. Frames' = Frames
  BY DEF Frames, FamilyFrames, CodeFrames
<1>5. QED
  BY <1>1, <1>3, <1>4 DEF TasksFine

LEMMA TopFrame ==
  ASSUME TasksFine, NEW w \in Worker, task[w] # <<>>
  PROVE  task[w] \in Seq(Frames) /\ Stacked(task[w]) /\ Top(w) = task[w][1] /\ Top(w) \in Frames
<1>1. PICK s : s = task[w]
  OBVIOUS
<1>2. s \in Seq(Frames) /\ s # <<>> /\ Stacked(s)
  BY <1>1 DEF TasksFine
<1>3. Head(s) = s[1] /\ Head(s) \in Frames
  BY <1>2
<1>4. QED
  BY <1>1, <1>2, <1>3 DEF Top

LEMMA TasksPush ==
  ASSUME TasksFine, NEW w \in Worker, task[w] # <<>>, NEW a \in Seq(Frames), Become(w, a), Lower(a, task[w]),
         \A i \in 1 .. Len(a) : i < Len(a) => Rank(a[i]) < Rank(a[i + 1])
  PROVE  TasksFine'
<1>1. PICK s, n : s = task[w] /\ n = a \o Tail(s)
  OBVIOUS
<1>2. n \in Seq(Frames) /\ Stacked(n)
  BY <1>1, TopFrame, StackedPushed
<1>3. QED
  BY <1>1, <1>2, TasksStep DEF Become

LEMMA TasksReturn ==
  ASSUME TasksFine, NEW w \in Worker, task[w] # <<>>, Return(w)
  PROVE  TasksFine'
<1>1. PICK a : a = <<>>
  OBVIOUS
<1>2. a \in Seq(Frames) /\ Become(w, a) /\ Len(a) = 0
  BY <1>1 DEF Return
<1>3. \A i \in 1 .. Len(a) : FALSE
  BY <1>2
<1>4. Lower(a, task[w])
  BY <1>3 DEF Lower
<1>5. QED
  BY <1>2, <1>3, <1>4, TasksPush

(* One frame, that goes on for the top one; or two, or three.              *)
LEMMA TasksOne ==
  ASSUME TasksFine, NEW w \in Worker, task[w] # <<>>, NEW x \in Frames, Become(w, <<x>>),
         Rank(x) <= Rank(Top(w)), x.pc \in Settles => Top(w).pc \in Settles \/ Len(task[w]) = 1
  PROVE  TasksFine'
<1>1. PICK a : a = <<x>>
  OBVIOUS
<1>2. a \in Seq(Frames) /\ Become(w, a) /\ Len(a) = 1 /\ a[1] = x
  BY <1>1
<1>3. Top(w) = task[w][1]
  BY TopFrame
<1>4. Lower(a, task[w])
  BY <1>2, <1>3 DEF Lower
<1>5. QED
  BY <1>2, <1>4, TasksPush

LEMMA TasksTwo ==
  ASSUME TasksFine, NEW w \in Worker, task[w] # <<>>, NEW x \in Frames, NEW y \in Frames, Become(w, <<x, y>>),
         Rank(x) < Rank(y), Rank(y) <= Rank(Top(w)), x.pc \in Settles => Len(task[w]) = 1,
         y.pc \in Settles => Top(w).pc \in Settles
  PROVE  TasksFine'
<1>1. PICK a : a = <<x, y>>
  OBVIOUS
<1>2. a \in Seq(Frames) /\ Become(w, a) /\ Len(a) = 2 /\ a[1] = x /\ a[2] = y
  BY <1>1
<1>3. Top(w) = task[w][1] /\ Rank(x) <= Rank(Top(w))
  BY TopFrame, Ranks
<1>4. Lower(a, task[w])
  <2>1. ASSUME NEW i \in 1 .. 2
        PROVE  /\ Rank(a[i]) <= Rank(task[w][1])
               /\ a[i].pc \in Settles => \/ task[w][1].pc \in Settles /\ i = 2
                                         \/ Len(task[w]) = 1 /\ i >= 1
    BY <1>2, <1>3
  <2>2. QED
    BY <1>2, <2>1 DEF Lower
<1>5. \A i \in 1 .. Len(a) : i < Len(a) => Rank(a[i]) < Rank(a[i + 1])
  <2>1. \A i \in 1 .. 2 : i < 2 => i = 1
    OBVIOUS
  <2>2. QED
    BY <1>2, <2>1
<1>6. QED
  BY <1>2, <1>4, <1>5, TasksPush

LEMMA TasksThree ==
  ASSUME TasksFine, NEW w \in Worker, task[w] # <<>>, NEW x \in Frames, NEW y \in Frames, NEW z \in Frames,
         Become(w, <<x, y, z>>), Rank(x) < Rank(y), Rank(y) < Rank(z), Rank(z) <= Rank(Top(w)),
         {x.pc, y.pc, z.pc} \cap Settles = {}
  PROVE  TasksFine'
<1>1. PICK a : a = <<x, y, z>>
  OBVIOUS
<1>2. a \in Seq(Frames) /\ Become(w, a) /\ Len(a) = 3 /\ a[1] = x /\ a[2] = y /\ a[3] = z
  BY <1>1
<1>3. Top(w) = task[w][1] /\ Rank(x) <= Rank(Top(w)) /\ Rank(y) <= Rank(Top(w))
  BY TopFrame, Ranks
<1>4. Lower(a, task[w])
  <2>1. \A i \in 1 .. 3 : Rank(a[i]) <= Rank(task[w][1]) /\ a[i].pc \notin Settles
    BY <1>2, <1>3
  <2>2. QED
    BY <1>2, <2>1 DEF Lower
<1>5. \A i \in 1 .. Len(a) : i < Len(a) => Rank(a[i]) < Rank(a[i + 1])
  <2>1. \A i \in 1 .. 3 : i < 3 => i = 1 \/ i = 2
    OBVIOUS
  <2>2. QED
    BY <1>2, <2>1
<1>6. QED
  BY <1>2, <1>4, <1>5, TasksPush

LEMMA TasksTo ==
  ASSUME TasksFine, NEW w \in Worker, task[w] # <<>>, NEW pc, To(w, pc), [Top(w) EXCEPT !.pc = pc] \in Frames,
         Rank([pc |-> pc]) <= Rank(Top(w)), pc \in Settles => Top(w).pc \in Settles
  PROVE  TasksFine'
<1>1. PICK t, x : t = Top(w) /\ x = [t EXCEPT !.pc = pc]
  OBVIOUS
<1>2. t \in Frames /\ x \in Frames /\ Become(w, <<x>>)
  BY <1>1, TopFrame DEF To
<1>3. "pc" \in DOMAIN t
  BY <1>2 DEF Frames, FamilyFrames, CodeFrames
<1>4. x.pc = pc
  BY <1>1, <1>3
<1>5. Rank(x) = Rank([pc |-> pc])
  BY <1>4 DEF Rank
<1>6. QED
  BY <1>1, <1>2, <1>4, <1>5, TasksOne

LEMMA TasksThrow ==
  ASSUME FamilyInv, TasksFine, NEW w \in Worker, Throw(w)
  PROVE  TasksFine'
<1>1. PICK s, n : s = task[w] /\ n = Unwound(s)
  OBVIOUS
<1>2. Good(s) /\ s \in Seq(Frames) /\ task' = [task EXCEPT ![w] = n]
  BY <1>1 DEF FamilyInv, TasksFine, Throw
<1>3. n \in Seq(Frames) /\ Stacked(n)
  <2>1. CASE n = <<>>
    <3>1. PICK x : x = [pc |-> "throw"]
      OBVIOUS
    <3>2. x \in Frames
      BY <3>1 DEF Frames, FamilyFrames
    <3>3. QED
      BY <2>1, <3>2, StackedOne
  <2>2. CASE n # <<>>
    <3>1. PICK q : /\ q = s[Len(s)] /\ Len(s) \in 1 .. Len(s) /\ n = <<Resumed(q)>>
                   /\ q.pc \in VoidIfFails \cup {"sweep", "voids"}
      BY <1>1, <1>2, <2>2, Unwinds
    <3>2. q \in Frames
      BY <1>2, <3>1
    <3>3. Resumed(q) \in Frames
      BY <3>1, <3>2 DEF Resumed, VoidIfFails, Frames, FamilyFrames, CodeFrames
    <3>4. QED
      BY <3>1, <3>3, StackedOne
  <2>3. QED
    BY <2>1, <2>2
<1>4. QED
  BY <1>2, <1>3, TasksStep

----------------------------------------------------------------------------
SameFamilies == UNCHANGED <<load, familyVars, listVars, outsideVars>>

LEMMA FamiliesSame ==
  ASSUME FamiliesTypeOK, SameFamilies
  PROVE  FamiliesTypeOK'
BY DEF FamiliesTypeOK, SameFamilies, familyVars, listVars, outsideVars

Sets(S) == [held : SUBSET S, awaiting : SUBSET S]

LEMMA AddedFine ==
  ASSUME NEW S, NEW set \in Sets(S), NEW m \in S, NEW cap, NEW out \in OverCap(set.held, m, cap)
  PROVE  out \subseteq S /\ Added(set, m, out) \in Sets(S)
BY DEF Sets, OverCap, Added

LEMMA SettledSet ==
  ASSUME NEW S, NEW set \in Sets(S), NEW m
  PROVE  Settled(set, m) \in Sets(S)
BY DEF Sets, Settled

RevokeFrame == [pc : Revoking, f : Family, todo : SUBSET Access, gone : SUBSET Access]

LEMMA RevokeIs ==
  /\ RevokeFrame \subseteq Frames
  /\ \A t \in Frames : t.pc \in Revoking => t \in RevokeFrame
  /\ \A f \in Family : Revoke(f) \in RevokeFrame /\ Revoke(f).pc = "revoke.add" /\ Rank(Revoke(f)) = 0
BY DEF RevokeFrame, Frames, FamilyFrames, CodeFrames, Revoking, Marked, Revoke, Rank

LEMMA RevokeTypes ==
  ASSUME FamilyInv, FamiliesTypeOK, TasksFine, load' = load, NEW w \in Worker, RevokeStep(w)
  PROVE  FamiliesTypeOK' /\ TasksFine'
<1>1. PICK t : t = Top(w)
  OBVIOUS
<1>2. task[w] # <<>> /\ t.pc \in Revoking
  BY <1>1 DEF RevokeStep, RevokeAdd, RevokeMark, RevokeSave, RevokeMembers, RevokeAwaiting, RevokeDeny, RevokeSettle,
              RevokeDone, Doing, Revoking, Marked
<1>3. t \in RevokeFrame /\ t.f \in Family /\ t.todo \subseteq Access
  BY <1>1, <1>2, TopFrame, RevokeIs DEF RevokeFrame
<1>4. ASSUME NEW x \in RevokeFrame, Become(w, <<x>>) PROVE TasksFine'
  <2>1. x \in Frames /\ x.pc \in Revoking
    BY RevokeIs DEF RevokeFrame
  <2>2. Rank(x) <= Rank(t) /\ x.pc \notin Settles
    BY <1>2, <2>1 DEF Rank, Revoking, Marked, Settles
  <2>3. QED
    BY <1>1, <1>2, <1>4, <2>1, <2>2, TasksOne
<1>5. ASSUME NEW pc \in Revoking, To(w, pc) PROVE TasksFine'
  <2>1. PICK x : x = [t EXCEPT !.pc = pc]
    OBVIOUS
  <2>2. x \in RevokeFrame
    BY <1>3, <2>1 DEF RevokeFrame
  <2>3. QED
    BY <1>1, <1>4, <1>5, <2>1, <2>2 DEF To
<1>6. {"revoke.mark", "revoke.save", "revoke.members", "revoke.deny", "revoke.done"} \subseteq Revoking
  BY DEF Revoking, Marked
<1>7. CASE RevokeAdd(w)
  <2>1. /\ To(w, "revoke.mark") /\ settles' = settles \cup {t.f}
        /\ UNCHANGED <<familyVars, bySession, issued, outsideVars>>
    BY <1>1, <1>7 DEF RevokeAdd
  <2>2. FamiliesTypeOK'
    BY <1>3, <2>1 DEF FamiliesTypeOK, familyVars, outsideVars
  <2>3. QED
    BY <1>5, <1>6, <2>1, <2>2
<1>8. CASE RevokeMark(w)
  <2>1. /\ family' = family \/ family' = [family EXCEPT ![t.f] = Revoked]
        /\ \E pc \in Revoking : To(w, pc)
        /\ UNCHANGED <<begun, link, secrets, spent, listVars, outsideVars>>
    BY <1>1, <1>6, <1>8 DEF RevokeMark
  <2>2. FamiliesTypeOK'
    BY <1>3, <2>1 DEF FamiliesTypeOK, listVars, outsideVars
  <2>3. QED
    BY <1>5, <2>1, <2>2
<1>9. CASE RevokeSave(w)
  <2>1. /\ family' = family \/ family' = [family EXCEPT ![t.f] = Revoked]
        /\ To(w, "revoke.members") \/ Throw(w)
        /\ UNCHANGED <<begun, link, secrets, spent, listVars, outsideVars>>
    BY <1>1, <1>9 DEF RevokeSave
  <2>2. FamiliesTypeOK'
    BY <1>3, <2>1 DEF FamiliesTypeOK, listVars, outsideVars
  <2>3. QED
    BY <1>5, <1>6, <2>1, <2>2, TasksThrow
<1>10. CASE RevokeMembers(w)
  <2>1. PICK x : x = [t EXCEPT !.pc = "revoke.awaiting", !.todo = issued[t.f].held] /\ Become(w, <<x>>)
    BY <1>1, <1>10 DEF RevokeMembers
  <2>2. issued[t.f].held \subseteq Access
    BY <1>3 DEF FamiliesTypeOK
  <2>3. x \in RevokeFrame
    BY <1>3, <2>1, <2>2 DEF RevokeFrame, Revoking, Marked
  <2>4. QED
    BY <1>4, <1>10, <2>1, <2>3, FamiliesSame DEF RevokeMembers, SameFamilies
<1>11. CASE RevokeAwaiting(w)
  <2>1. PICK x : x = [t EXCEPT !.pc = "revoke.deny", !.todo = @ \cup issued[t.f].awaiting] /\ Become(w, <<x>>)
    BY <1>1, <1>11 DEF RevokeAwaiting
  <2>2. issued[t.f].awaiting \subseteq Access
    BY <1>3 DEF FamiliesTypeOK
  <2>3. x \in RevokeFrame
    BY <1>3, <2>1, <2>2 DEF RevokeFrame, Revoking, Marked
  <2>4. QED
    BY <1>4, <1>11, <2>1, <2>3, FamiliesSame DEF RevokeAwaiting, SameFamilies
<1>12. CASE RevokeDeny(w)
  <2>1. ASSUME NEW a \in t.todo, denied' = denied \cup {a},
               Become(w, <<[t EXCEPT !.todo = @ \ {a}, !.gone = @ \cup {a}]>>)
        PROVE  denied' \subseteq Access /\ TasksFine'
    <3>1. PICK x : x = [t EXCEPT !.todo = @ \ {a}, !.gone = @ \cup {a}]
      OBVIOUS
    <3>2. x \in RevokeFrame
      BY <1>3, <3>1 DEF RevokeFrame
    <3>3. QED
      BY <1>3, <1>4, <2>1, <3>1, <3>2 DEF FamiliesTypeOK
  <2>2. ASSUME UNCHANGED denied,
               Become(w, <<[t EXCEPT !.pc = "revoke.settle", !.todo = issued[t.f].awaiting \cap t.gone]>>)
        PROVE  denied' \subseteq Access /\ TasksFine'
    <3>1. PICK x : x = [t EXCEPT !.pc = "revoke.settle", !.todo = issued[t.f].awaiting \cap t.gone]
      OBVIOUS
    <3>2. issued[t.f].awaiting \subseteq Access
      BY <1>3 DEF FamiliesTypeOK
    <3>3. x \in RevokeFrame
      BY <1>3, <3>1, <3>2 DEF RevokeFrame, Revoking, Marked
    <3>4. QED
      BY <1>4, <2>2, <3>1, <3>3 DEF FamiliesTypeOK
  <2>3. denied' \subseteq Access /\ TasksFine'
    BY <1>1, <1>12, <2>1, <2>2 DEF RevokeDeny
  <2>4. UNCHANGED <<familyVars, listVars, entering, drawn, given, held, finished, takenBack>>
    BY <1>12 DEF RevokeDeny
  <2>5. FamiliesTypeOK'
    BY <2>3, <2>4 DEF FamiliesTypeOK, familyVars, listVars
  <2>6. QED
    BY <2>3, <2>5
<1>13. CASE RevokeSettle(w)
  <2>1. issued[t.f] \in Sets(Access)
    BY <1>3 DEF FamiliesTypeOK, Sets
  <2>2. ASSUME NEW a \in t.todo, issued' = [issued EXCEPT ![t.f] = Settled(@, a)],
               Become(w, <<[t EXCEPT !.todo = @ \ {a}]>>)
        PROVE  issued' \in [Family -> Sets(Access)] /\ TasksFine'
    <3>1. PICK x : x = [t EXCEPT !.todo = @ \ {a}]
      OBVIOUS
    <3>2. x \in RevokeFrame
      BY <1>3, <3>1 DEF RevokeFrame
    <3>3. Settled(issued[t.f], a) \in Sets(Access)
      BY <2>1, SettledSet
    <3>4. issued' \in [Family -> Sets(Access)]
      BY <1>3, <2>2, <3>3 DEF FamiliesTypeOK, Sets
    <3>5. QED
      BY <1>4, <2>2, <3>1, <3>2, <3>4
  <2>3. ASSUME UNCHANGED issued, To(w, "revoke.done")
        PROVE  issued' \in [Family -> Sets(Access)] /\ TasksFine'
    BY <1>5, <1>6, <2>3 DEF FamiliesTypeOK, Sets
  <2>4. issued' \in [Family -> Sets(Access)] /\ TasksFine'
    BY <1>1, <1>13, <2>2, <2>3 DEF RevokeSettle
  <2>5. UNCHANGED <<familyVars, bySession, settles, outsideVars>>
    BY <1>13 DEF RevokeSettle
  <2>6. FamiliesTypeOK'
    BY <2>4, <2>5 DEF FamiliesTypeOK, Sets, familyVars, outsideVars
  <2>7. QED
    BY <2>4, <2>6
<1>14. CASE RevokeDone(w)
  <2>1. settles' = settles \ {t.f} /\ Return(w) /\ UNCHANGED <<familyVars, bySession, issued, outsideVars>>
    BY <1>1, <1>14 DEF RevokeDone
  <2>2. FamiliesTypeOK'
    BY <2>1 DEF FamiliesTypeOK, familyVars, outsideVars
  <2>3. QED
    BY <1>2, <2>1, <2>2, TasksReturn
<1>15. QED
  BY <1>7, <1>8, <1>9, <1>10, <1>11, <1>12, <1>13, <1>14 DEF RevokeStep

----------------------------------------------------------------------------
RecordFrame == [pc : {"record.link", "record.add", "record.settle"}, f : Family, a : Access]
PushFrame == [pc : {"record.push"}, f : Family, todo : SUBSET Access]

LEMMA RecordKinds ==
  /\ RecordFrame \subseteq Frames /\ PushFrame \subseteq Frames
  /\ \A t \in Frames : t.pc \in Recording \cup {"record.settle"} => t \in RecordFrame
  /\ \A t \in Frames : t.pc = "record.push" => t \in PushFrame
  /\ \A f \in Family, a \in Access :
       Record(f, a) \in RecordFrame /\ Record(f, a).pc = "record.link" /\ Rank(Record(f, a)) = 1
BY DEF RecordFrame, PushFrame, Frames, FamilyFrames, CodeFrames, Recording, Revoking, Marked, Taking, Record, Rank

LEMMA RecordTypes ==
  ASSUME FamilyInv, FamiliesTypeOK, TasksFine, load' = load, NEW w \in Worker, RecordStep(w)
  PROVE  FamiliesTypeOK' /\ TasksFine'
<1>1. PICK t : t = Top(w)
  OBVIOUS
<1>2. task[w] # <<>> /\ t \in Frames
  BY <1>1, TopFrame DEF RecordStep, RecordLink, RecordAdd, RecordPush, RecordSettle, Doing
<1>3. CASE RecordLink(w)
  <2>1. /\ t.pc = "record.link" /\ link' = [link EXCEPT ![t.a] = t.f] /\ To(w, "record.add")
        /\ UNCHANGED <<family, begun, secrets, spent, listVars, outsideVars>>
    BY <1>1, <1>3 DEF RecordLink, Doing
  <2>2. t \in RecordFrame
    BY <1>2, <2>1, RecordKinds DEF Recording
  <2>3. FamiliesTypeOK'
    BY <2>1, <2>2 DEF FamiliesTypeOK, RecordFrame, listVars, outsideVars
  <2>4. [t EXCEPT !.pc = "record.add"] \in Frames
    BY <2>2 DEF RecordFrame, Frames, FamilyFrames
  <2>5. Rank([pc |-> "record.add"]) <= Rank(t) /\ "record.add" \notin Settles
    BY <2>1 DEF Rank, Revoking, Marked, Recording, Settles
  <2>6. QED
    BY <1>1, <1>2, <2>1, <2>3, <2>4, <2>5, TasksTo
<1>4. CASE RecordAdd(w)
  <2>1. PICK out \in OverCap(issued[t.f].held, t.a, load.tokensPerFamily) :
          /\ issued' = [issued EXCEPT ![t.f] = Added(@, t.a, out)]
          /\ Return(w) \/ Become(w, <<PushedOut(t.f, out)>>)
    BY <1>1, <1>4 DEF RecordAdd
  <2>2. t.pc = "record.add" /\ UNCHANGED <<familyVars, bySession, settles, outsideVars>>
    BY <1>1, <1>4 DEF RecordAdd, Doing
  <2>3. t \in RecordFrame /\ t.f \in Family /\ t.a \in Access
    BY <1>2, <2>2, RecordKinds DEF Recording, RecordFrame
  <2>4. issued[t.f] \in Sets(Access) /\ issued \in [Family -> Sets(Access)]
    BY <2>3 DEF FamiliesTypeOK, Sets
  <2>5. out \subseteq Access /\ Added(issued[t.f], t.a, out) \in Sets(Access)
    BY <2>1, <2>3, <2>4, AddedFine
  <2>6. issued' \in [Family -> Sets(Access)]
    BY <2>1, <2>3, <2>4, <2>5
  <2>7. FamiliesTypeOK'
    BY <2>2, <2>6 DEF FamiliesTypeOK, Sets, familyVars, outsideVars
  <2>8. PICK x : x = PushedOut(t.f, out)
    OBVIOUS
  <2>9. x \in Frames /\ x.pc = "record.push"
    BY <2>3, <2>5, <2>8 DEF PushedOut, Frames, FamilyFrames
  <2>10. Rank(x) <= Rank(t) /\ x.pc \notin Settles
    BY <2>2, <2>9 DEF Rank, Revoking, Marked, Recording, Settles
  <2>11. TasksFine'
    BY <1>1, <1>2, <2>1, <2>8, <2>9, <2>10, TasksReturn, TasksOne
  <2>12. QED
    BY <2>7, <2>11
<1>5. CASE RecordPush(w)
  <2>1. t.pc = "record.push" /\ UNCHANGED <<familyVars, listVars, entering, drawn, given, held, finished, takenBack>>
    BY <1>1, <1>5 DEF RecordPush, Doing
  <2>2. t.f \in Family /\ t.todo \subseteq Access
    BY <1>2, <2>1, RecordKinds DEF PushFrame
  <2>3. ASSUME NEW a \in t.todo, denied' = denied \cup {a},
               Become(w, <<[pc |-> "record.settle", f |-> t.f, a |-> a], PushedOut(t.f, t.todo \ {a})>>)
        PROVE  denied' \subseteq Access /\ TasksFine'
    <3>1. PICK x, y : x = [pc |-> "record.settle", f |-> t.f, a |-> a] /\ y = PushedOut(t.f, t.todo \ {a})
      OBVIOUS
    <3>2. x \in Frames /\ x.pc = "record.settle"
      BY <2>2, <2>3, <3>1 DEF Frames, FamilyFrames
    <3>3. y \in Frames /\ y.pc = "record.push"
      BY <2>2, <3>1 DEF PushedOut, Frames, FamilyFrames
    <3>4. Rank(x) < Rank(y) /\ Rank(y) <= Rank(t) /\ x.pc \notin Settles /\ y.pc \notin Settles
      BY <2>1, <3>2, <3>3 DEF Rank, Revoking, Marked, Recording, Settles
    <3>5. TasksFine'
      BY <1>1, <1>2, <2>3, <3>1, <3>2, <3>3, <3>4, TasksTwo
    <3>6. QED
      BY <2>2, <2>3, <3>5 DEF FamiliesTypeOK
  <2>4. ASSUME UNCHANGED denied, Throw(w) PROVE denied' \subseteq Access /\ TasksFine'
    BY <2>4, TasksThrow DEF FamiliesTypeOK
  <2>5. denied' \subseteq Access /\ TasksFine'
    BY <1>1, <1>5, <2>3, <2>4 DEF RecordPush
  <2>6. FamiliesTypeOK'
    BY <2>1, <2>5 DEF FamiliesTypeOK, familyVars, listVars
  <2>7. QED
    BY <2>5, <2>6
<1>6. CASE RecordSettle(w)
  <2>1. /\ t.pc = "record.settle" /\ issued' = [issued EXCEPT ![t.f] = Settled(@, t.a)] /\ Return(w)
        /\ UNCHANGED <<familyVars, bySession, settles, outsideVars>>
    BY <1>1, <1>6 DEF RecordSettle, Doing
  <2>2. t.f \in Family
    BY <1>2, <2>1, RecordKinds DEF RecordFrame
  <2>3. issued[t.f] \in Sets(Access) /\ issued \in [Family -> Sets(Access)]
    BY <2>2 DEF FamiliesTypeOK, Sets
  <2>4. issued' \in [Family -> Sets(Access)]
    BY <2>1, <2>2, <2>3, SettledSet
  <2>5. FamiliesTypeOK'
    BY <2>1, <2>4 DEF FamiliesTypeOK, Sets, familyVars, outsideVars
  <2>6. QED
    BY <1>2, <2>1, <2>5, TasksReturn
<1>7. QED
  BY <1>3, <1>4, <1>5, <1>6 DEF RecordStep

----------------------------------------------------------------------------
(* A family's record, live.                                                *)
FamilyKinds ==
  {NoFamily, Revoked} \cup {LiveFamily(n, s) : n \in 1 .. MaxSecrets, s \in Session \cup {NoSession}}

LEMMA LiveFine ==
  ASSUME FamiliesTypeOK, NEW f \in Family, NEW n \in 1 .. MaxSecrets, NEW s \in Session \cup {NoSession},
         family' = [family EXCEPT ![f] = LiveFamily(n, s)], secrets' = [secrets EXCEPT ![f] = n]
  PROVE  family' \in [Family -> FamilyKinds] /\ secrets' \in [Family -> 0 .. MaxSecrets]
BY FamiliesAssumption DEF FamiliesTypeOK, FamilyKinds

FoundFrame == [pc : {"found.save", "found.confirm"}, f : Family, s : Session \cup {NoSession}, a : Access]
StartFrame ==
  [pc : {"start.name", "start.list", "start.enter"}, r : Redemption, f : Family, s : Session, a : Access]
TakeFrame == [pc : Taking, r : Redemption]

LEMMA FoundIs ==
  /\ FoundFrame \subseteq Frames /\ StartFrame \subseteq Frames /\ TakeFrame \subseteq Frames
  /\ \A t \in Frames :
       /\ t.pc \in {"found.save", "found.confirm"} => t \in FoundFrame
       /\ t.pc \in {"start.name", "start.list", "start.enter"} => t \in StartFrame
       /\ t.pc \in Taking => t \in TakeFrame
       /\ t.pc = "start.drop" => t.s \in Session /\ t.todo \subseteq Family
       /\ t.pc = "session.settled" => t.s \in Session /\ t.f \in Family
  /\ Throwing \in Frames /\ Throwing.pc = "throw" /\ Rank(Throwing) = 3
BY DEF FoundFrame, StartFrame, TakeFrame, Frames, FamilyFrames, CodeFrames, Taking, Starts, Revoking, Marked,
       Recording, Settles, Throwing, Rank

(* A family that ends, for one that was to start.                          *)
LEMMA RevokeThrows ==
  ASSUME TasksFine, NEW w \in Worker, task[w] # <<>>, NEW f \in Family, Become(w, <<Revoke(f), Throwing>>),
         Rank(Top(w)) >= 3
  PROVE  TasksFine'
<1>1. PICK x, y : x = Revoke(f) /\ y = Throwing
  OBVIOUS
<1>2. x \in Frames /\ x.pc = "revoke.add" /\ Rank(x) = 0
  BY <1>1, RevokeIs
<1>3. y \in Frames /\ y.pc = "throw" /\ Rank(y) = 3
  BY <1>1, FoundIs
<1>4. x.pc \notin Settles /\ y.pc \notin Settles
  BY <1>2, <1>3 DEF Settles
<1>5. Rank(x) < Rank(y) /\ Rank(y) <= Rank(Top(w))
  BY <1>2, <1>3, Ranks
<1>6. QED
  BY <1>1, <1>2, <1>3, <1>4, <1>5, TasksTwo

LEMMA FoundTypes ==
  ASSUME FamilyInv, FamiliesTypeOK, TasksFine, load' = load, NEW w \in Worker, FoundSave(w) \/ FoundConfirm(w)
  PROVE  FamiliesTypeOK' /\ TasksFine'
<1>1. PICK t : t = Top(w)
  OBVIOUS
<1>2. task[w] # <<>> /\ t \in Frames /\ t.pc \in {"found.save", "found.confirm"}
  BY <1>1, TopFrame DEF FoundSave, FoundConfirm, Doing
<1>3. t \in FoundFrame /\ t.f \in Family /\ t.s \in Session \cup {NoSession} /\ t.a \in Access
  BY <1>2, FoundIs DEF FoundFrame
<1>4. Rank(t) = 3
  BY <1>2 DEF Rank, Revoking, Marked, Recording, Taking, Settles, Starts
<1>5. CASE FoundSave(w)
  <2>1. UNCHANGED <<begun, link, spent, listVars, outsideVars>>
    BY <1>5 DEF FoundSave
  <2>2. ASSUME family' = [family EXCEPT ![t.f] = LiveFamily(1, t.s)], secrets' = [secrets EXCEPT ![t.f] = 1],
               Become(w, <<Record(t.f, t.a), [t EXCEPT !.pc = "found.confirm"]>>)
        PROVE  FamiliesTypeOK' /\ TasksFine'
    <3>1. PICK x, y : x = Record(t.f, t.a) /\ y = [t EXCEPT !.pc = "found.confirm"]
      OBVIOUS
    <3>2. x \in Frames /\ x.pc = "record.link" /\ Rank(x) = 1
      BY <1>3, <3>1, RecordKinds
    <3>3. y \in FoundFrame /\ y.pc = "found.confirm"
      BY <1>3, <3>1 DEF FoundFrame
    <3>4. y \in Frames
      BY <3>3, FoundIs
    <3>5. Rank(y) = 3
      BY <3>3 DEF Rank, Revoking, Marked, Recording, Taking, Settles
    <3>6. Rank(x) < Rank(y) /\ Rank(y) <= Rank(t) /\ x.pc \notin Settles /\ y.pc \notin Settles
      BY <1>4, <3>2, <3>3, <3>5 DEF Settles
    <3>7. TasksFine'
      BY <1>1, <1>2, <2>2, <3>1, <3>2, <3>4, <3>6, TasksTwo
    <3>8. PICK f \in Family, n \in 1 .. MaxSecrets, q \in Session \cup {NoSession} :
            family' = [family EXCEPT ![f] = LiveFamily(n, q)] /\ secrets' = [secrets EXCEPT ![f] = n]
      <4>1. 1 \in 1 .. MaxSecrets
        BY FamiliesAssumption
      <4>2. QED
        BY <1>3, <2>2, <4>1
    <3>9. family' \in [Family -> FamilyKinds] /\ secrets' \in [Family -> 0 .. MaxSecrets]
      BY <3>8, LiveFine
    <3>10. FamiliesTypeOK'
      BY <2>1, <3>9 DEF FamiliesTypeOK, FamilyKinds, listVars, outsideVars
    <3>11. QED
      BY <3>7, <3>10
  <2>3. ASSUME Throw(w), UNCHANGED <<family, secrets>> PROVE FamiliesTypeOK' /\ TasksFine'
    <3>1. FamiliesTypeOK'
      BY <2>1, <2>3 DEF FamiliesTypeOK, listVars, outsideVars
    <3>2. QED
      BY <2>3, <3>1, TasksThrow
  <2>4. QED
    BY <1>1, <1>5, <2>2, <2>3 DEF FoundSave
<1>6. CASE FoundConfirm(w)
  <2>1. Return(w) \/ Become(w, <<Revoke(t.f), Throwing>>)
    BY <1>1, <1>6 DEF FoundConfirm
  <2>2. TasksFine'
    BY <1>1, <1>2, <1>3, <1>4, <2>1, TasksReturn, RevokeThrows
  <2>3. FamiliesTypeOK'
    BY <1>6, FamiliesSame DEF FoundConfirm, SameFamilies
  <2>4. QED
    BY <2>2, <2>3
<1>7. QED
  BY <1>5, <1>6

LEMMA StartTypes ==
  ASSUME FamilyInv, FamiliesTypeOK, TasksFine, load' = load, NEW w \in Worker,
         StartName(w) \/ StartList(w) \/ StartEnter(w)
  PROVE  FamiliesTypeOK' /\ TasksFine'
<1>1. PICK t : t = Top(w)
  OBVIOUS
<1>2. task[w] # <<>> /\ t \in Frames /\ t.pc \in {"start.name", "start.list", "start.enter"}
  BY <1>1, TopFrame DEF StartName, StartList, StartEnter, Doing
<1>3. t \in StartFrame /\ t.r \in Redemption /\ t.f \in Family /\ t.s \in Session /\ t.a \in Access
  BY <1>2, FoundIs DEF StartFrame
<1>4. Rank(t) = 3
  BY <1>2 DEF Rank, Revoking, Marked, Recording, Taking, Settles, Starts
<1>5. ASSUME NEW pc \in {"start.list", "start.enter"}, To(w, pc) PROVE TasksFine'
  <2>1. [t EXCEPT !.pc = pc] \in Frames
    <3>1. [t EXCEPT !.pc = pc] \in StartFrame
      BY <1>3 DEF StartFrame
    <3>2. QED
      BY <3>1, FoundIs
  <2>2. Rank([pc |-> pc]) <= Rank(t) /\ pc \notin Settles
    BY <1>4 DEF Rank, Revoking, Marked, Recording, Taking, Settles, Starts
  <2>3. QED
    BY <1>1, <1>2, <1>5, <2>1, <2>2, TasksTo
<1>6. CASE StartName(w)
  <2>1. UNCHANGED <<family, link, secrets, spent, listVars, outsideVars>>
    BY <1>6 DEF StartName
  <2>2. \/ begun' = [begun EXCEPT ![t.r] = t.f] /\ To(w, "start.list")
        \/ begun' = begun /\ Throw(w)
    BY <1>1, <1>6 DEF StartName
  <2>3. begun' \in [Redemption -> Family \cup {"none", "taken"}]
    BY <1>3, <2>2 DEF FamiliesTypeOK
  <2>4. FamiliesTypeOK'
    BY <2>1, <2>3 DEF FamiliesTypeOK, listVars, outsideVars
  <2>5. QED
    BY <1>5, <2>2, <2>4, TasksThrow
<1>7. CASE StartList(w)
  <2>1. PICK out \in OverCap(bySession[t.s].held, t.f, load.familiesPerSession) :
          /\ bySession' = [bySession EXCEPT ![t.s] = Added(@, t.f, out)]
          /\ To(w, "start.enter") \/ Become(w, <<Dropping(t.s, out)>>)
    BY <1>1, <1>7 DEF StartList
  <2>2. UNCHANGED <<familyVars, issued, settles, outsideVars>>
    BY <1>7 DEF StartList
  <2>3. bySession[t.s] \in Sets(Family) /\ bySession \in [Session -> Sets(Family)]
    BY <1>3 DEF FamiliesTypeOK, Sets
  <2>4. out \subseteq Family /\ Added(bySession[t.s], t.f, out) \in Sets(Family)
    BY <1>3, <2>1, <2>3, AddedFine
  <2>5. bySession' \in [Session -> Sets(Family)]
    BY <1>3, <2>1, <2>3, <2>4
  <2>6. FamiliesTypeOK'
    BY <2>2, <2>5 DEF FamiliesTypeOK, Sets, familyVars, outsideVars
  <2>7. PICK x : x = Dropping(t.s, out)
    OBVIOUS
  <2>8. x \in Frames /\ x.pc = "start.drop"
    BY <1>3, <2>4, <2>7 DEF Dropping, Frames, FamilyFrames
  <2>9. Rank(x) <= Rank(t) /\ x.pc \notin Settles
    BY <1>4, <2>8 DEF Rank, Revoking, Marked, Recording, Taking, Settles, Starts
  <2>10. TasksFine'
    BY <1>1, <1>2, <1>5, <2>1, <2>7, <2>8, <2>9, TasksOne
  <2>11. QED
    BY <2>6, <2>10
<1>8. CASE StartEnter(w)
  <2>1. Become(w, <<Found(t.f, t.s, t.a)>>) \/ Become(w, <<Revoke(t.f), Throwing>>)
    BY <1>1, <1>8 DEF StartEnter
  <2>2. PICK x : x = Found(t.f, t.s, t.a)
    OBVIOUS
  <2>3. x \in Frames /\ x.pc = "found.save"
    BY <1>3, <2>2 DEF Found, Frames, FamilyFrames
  <2>4. Rank(x) <= Rank(t) /\ x.pc \notin Settles
    BY <1>4, <2>3 DEF Rank, Revoking, Marked, Recording, Taking, Settles, Starts
  <2>5. TasksFine'
    BY <1>1, <1>2, <1>3, <1>4, <2>1, <2>2, <2>3, <2>4, TasksOne, RevokeThrows
  <2>6. FamiliesTypeOK'
    BY <1>8, FamiliesSame DEF StartEnter, SameFamilies
  <2>7. QED
    BY <2>5, <2>6
<1>9. QED
  BY <1>6, <1>7, <1>8

(* A family to be revoked, and settled in its session's list, before the   *)
(* frame that goes on.                                                     *)
LEMMA RevokeSettles ==
  ASSUME TasksFine, NEW w \in Worker, task[w] # <<>>, NEW s \in Session, NEW f \in Family, NEW z \in Frames,
         Become(w, <<Revoke(f), [pc |-> "session.settled", s |-> s, f |-> f], z>>),
         Rank(z) > 1, Rank(z) <= Rank(Top(w)), z.pc \notin Settles
  PROVE  TasksFine'
<1>1. PICK x, y : x = Revoke(f) /\ y = [pc |-> "session.settled", s |-> s, f |-> f]
  OBVIOUS
<1>2. x \in Frames /\ x.pc = "revoke.add" /\ Rank(x) = 0
  BY <1>1, RevokeIs
<1>3. y \in Frames /\ y.pc = "session.settled"
  BY <1>1 DEF Frames, FamilyFrames
<1>4. Rank(y) = 1
  BY <1>3 DEF Rank, Revoking, Marked
<1>5. {x.pc, y.pc, z.pc} \cap Settles = {}
  BY <1>2, <1>3 DEF Settles
<1>6. Rank(x) < Rank(y) /\ Rank(y) < Rank(z)
  BY <1>2, <1>4, Ranks
<1>7. QED
  BY <1>1, <1>2, <1>3, <1>5, <1>6, TasksThree

LEMMA DropTypes ==
  ASSUME FamilyInv, FamiliesTypeOK, TasksFine, load' = load, NEW w \in Worker,
         StartDrop(w) \/ SessionSettled(w)
  PROVE  FamiliesTypeOK' /\ TasksFine'
<1>1. PICK t : t = Top(w)
  OBVIOUS
<1>2. task[w] # <<>> /\ t \in Frames
  BY <1>1, TopFrame DEF StartDrop, SessionSettled, Doing
<1>3. CASE StartDrop(w)
  <2>1. t.pc = "start.drop"
    BY <1>1, <1>3 DEF StartDrop, Doing
  <2>2. t.s \in Session /\ t.todo \subseteq Family
    BY <1>2, <2>1, FoundIs
  <2>3. ASSUME NEW f \in t.todo,
               Become(w, <<Revoke(f), [pc |-> "session.settled", s |-> t.s, f |-> f], Dropping(t.s, t.todo \ {f})>>)
        PROVE  TasksFine'
    <3>1. PICK s, z : s = t.s /\ z = Dropping(t.s, t.todo \ {f})
      OBVIOUS
    <3>2. z \in Frames /\ z.pc = "start.drop"
      BY <2>2, <3>1 DEF Dropping, Frames, FamilyFrames
    <3>3. Rank(z) > 1 /\ Rank(z) <= Rank(t) /\ z.pc \notin Settles
      BY <2>1, <3>2 DEF Rank, Revoking, Marked, Recording, Taking, Settles, Starts
    <3>4. QED
      BY <1>1, <1>2, <2>2, <2>3, <3>1, <3>2, <3>3, RevokeSettles
  <2>4. TasksFine'
    BY <1>1, <1>3, <2>3, TasksThrow DEF StartDrop
  <2>5. FamiliesTypeOK'
    BY <1>3, FamiliesSame DEF StartDrop, SameFamilies
  <2>6. QED
    BY <2>4, <2>5
<1>4. CASE SessionSettled(w)
  <2>1. /\ t.pc = "session.settled" /\ bySession' = [bySession EXCEPT ![t.s] = Settled(@, t.f)] /\ Return(w)
        /\ UNCHANGED <<familyVars, issued, settles, outsideVars>>
    BY <1>1, <1>4 DEF SessionSettled, Doing
  <2>2. t.s \in Session
    BY <1>2, <2>1, FoundIs
  <2>3. bySession[t.s] \in Sets(Family) /\ bySession \in [Session -> Sets(Family)]
    BY <2>2 DEF FamiliesTypeOK, Sets
  <2>4. bySession' \in [Session -> Sets(Family)]
    BY <2>1, <2>2, <2>3, SettledSet
  <2>5. FamiliesTypeOK'
    BY <2>1, <2>4 DEF FamiliesTypeOK, Sets, familyVars, outsideVars
  <2>6. QED
    BY <1>2, <2>1, <2>5, TasksReturn
<1>5. QED
  BY <1>3, <1>4

LEMMA TakeTypes ==
  ASSUME FamilyInv, FamiliesTypeOK, TasksFine, load' = load, NEW w \in Worker,
         TakeMark(w) \/ TakeRead(w) \/ TakeDone(w)
  PROVE  FamiliesTypeOK' /\ TasksFine'
<1>1. PICK t : t = Top(w)
  OBVIOUS
<1>2. task[w] # <<>> /\ t \in Frames /\ t.pc \in Taking
  BY <1>1, TopFrame DEF TakeMark, TakeRead, TakeDone, Doing, Taking
<1>3. t \in TakeFrame /\ t.r \in Redemption
  BY <1>2, FoundIs DEF TakeFrame
<1>4. Rank(t) = 1
  BY <1>2 DEF Rank, Revoking, Marked, Taking
<1>5. ASSUME NEW pc \in Taking PROVE [t EXCEPT !.pc = pc] \in TakeFrame
  BY <1>3 DEF TakeFrame
<1>6. ASSUME NEW pc \in Taking, To(w, pc) PROVE TasksFine'
  <2>1. [t EXCEPT !.pc = pc] \in Frames
    BY <1>5, FoundIs
  <2>2. Rank([pc |-> pc]) <= Rank(t) /\ pc \notin Settles
    BY <1>4 DEF Rank, Revoking, Marked, Taking, Settles
  <2>3. QED
    BY <1>1, <1>2, <1>6, <2>1, <2>2, TasksTo
<1>7. {"take.read", "take.done"} \subseteq Taking
  BY DEF Taking
<1>8. CASE TakeMark(w)
  <2>1. begun' = [begun EXCEPT ![t.r] = IF @ = "none" THEN "taken" ELSE @] /\ To(w, "take.read")
    BY <1>1, <1>8 DEF TakeMark
  <2>2. UNCHANGED <<family, link, secrets, spent, listVars, outsideVars>>
    BY <1>8 DEF TakeMark
  <2>3. begun' \in [Redemption -> Family \cup {"none", "taken"}]
    BY <1>3, <2>1 DEF FamiliesTypeOK
  <2>4. FamiliesTypeOK'
    BY <2>2, <2>3 DEF FamiliesTypeOK, listVars, outsideVars
  <2>5. QED
    BY <1>6, <1>7, <2>1, <2>4
<1>9. CASE TakeRead(w)
  <2>1. \/ begun[t.r] \in Family /\ Become(w, <<Revoke(begun[t.r]), [t EXCEPT !.pc = "take.done"]>>)
        \/ To(w, "take.done")
    BY <1>1, <1>9 DEF TakeRead
  <2>2. ASSUME begun[t.r] \in Family, Become(w, <<Revoke(begun[t.r]), [t EXCEPT !.pc = "take.done"]>>)
        PROVE  TasksFine'
    <3>1. PICK x, y : x = Revoke(begun[t.r]) /\ y = [t EXCEPT !.pc = "take.done"]
      OBVIOUS
    <3>2. x \in Frames /\ x.pc = "revoke.add" /\ Rank(x) = 0
      BY <2>2, <3>1, RevokeIs
    <3>3. y \in Frames /\ y.pc = "take.done"
      BY <1>3, <1>5, <1>7, <3>1, FoundIs DEF TakeFrame
    <3>4. Rank(y) = 1
      BY <3>3 DEF Rank, Revoking, Marked, Taking
    <3>5. x.pc \notin Settles /\ y.pc \notin Settles
      BY <3>2, <3>3 DEF Settles
    <3>6. Rank(x) < Rank(y) /\ Rank(y) <= Rank(Top(w))
      BY <1>1, <1>4, <3>2, <3>4
    <3>7. Become(w, <<x, y>>)
      BY <2>2, <3>1
    <3>8. QED
      BY <1>2, <3>2, <3>3, <3>5, <3>6, <3>7, TasksTwo
  <2>3. FamiliesTypeOK'
    BY <1>9, FamiliesSame DEF TakeRead, SameFamilies
  <2>4. QED
    BY <1>6, <1>7, <2>1, <2>2, <2>3
<1>10. CASE TakeDone(w)
  <2>1. takenBack' = takenBack \cup {t.r} /\ Return(w)
    BY <1>1, <1>10 DEF TakeDone
  <2>2. UNCHANGED <<familyVars, listVars, denied, entering, drawn, given, held, finished>>
    BY <1>10 DEF TakeDone
  <2>3. FamiliesTypeOK'
    BY <1>3, <2>1, <2>2 DEF FamiliesTypeOK, familyVars, listVars
  <2>4. QED
    BY <1>2, <2>1, <2>3, TasksReturn
<1>11. QED
  BY <1>8, <1>9, <1>10

----------------------------------------------------------------------------
Pairs == Family \X (1 .. MaxSecrets)
GiveFrame == [pc : {"give"}, tokens : SUBSET Pairs, a : Access]
UsesNow == {"use.select", "use.enter", "use.rotate"}
UsingFrame == [pc : Uses, f : Family, n : 1 .. MaxSecrets - 1, s : Session \cup {NoSession}, a : Access \cup {"none"}]
UsingFrames == {t \in UsingFrame : t.a \in IF t.pc \in UsesNow THEN Access ELSE {"none"}}

LEMMA UseIs ==
  /\ UsingFrames \subseteq Frames /\ GiveFrame \subseteq Frames
  /\ \A t \in Frames : (t.pc \in Uses => t \in UsingFrames) /\ (t.pc = "give" => t \in GiveFrame)
BY DEF UsingFrames, UsingFrame, UsesNow, GiveFrame, Pairs, Frames, FamilyFrames, CodeFrames, Uses

(* The last of a call, which no frame waits for but those of rank 4.       *)
LEMMA TasksLast ==
  ASSUME TasksFine, NEW w \in Worker, task[w] # <<>>, Rank(Top(w)) = 4, NEW x \in Frames, x.pc \notin Settles,
         Become(w, <<x>>)
  PROVE  TasksFine'
<1>1. Rank(x) <= Rank(Top(w))
  BY Ranks
<1>2. QED
  BY <1>1, TasksOne

LEMMA TasksCalls ==
  ASSUME TasksFine, NEW w \in Worker, task[w] # <<>>, Rank(Top(w)) = 4,
         NEW x \in Frames, NEW y \in Frames, x.pc \notin Settles, Rank(x) < 4, Rank(y) = 4, Become(w, <<x, y>>)
  PROVE  TasksFine'
<1>1. y.pc \notin Settles
  BY DEF Rank, Revoking, Marked, Recording, Taking, Settles
<1>2. Rank(x) < Rank(y) /\ Rank(y) <= Rank(Top(w))
  OBVIOUS
<1>3. QED
  BY <1>1, <1>2, TasksTwo

LEMMA UseRank ==
  ASSUME NEW r, r.pc \in Uses \cup Closing \cup {"give", "sweep", "control.read", "adopt.read", "adopt.check"}
  PROVE  Rank(r) = 4 /\ r.pc \notin Settles
BY DEF Rank, Revoking, Marked, Recording, Taking, Settles, Starts, Uses, Closing

LEMMA UseTypes ==
  ASSUME FamilyInv, FamiliesTypeOK, TasksFine, load' = load, NEW w \in Worker,
         Give(w) \/ UseRead(w) \/ UseValid(w) \/ UseSelect(w) \/ UseEnter(w)
  PROVE  FamiliesTypeOK' /\ TasksFine'
<1>1. PICK t : t = Top(w)
  OBVIOUS
<1>2. task[w] # <<>> /\ t \in Frames
  BY <1>1, TopFrame DEF Give, UseRead, UseValid, UseSelect, UseEnter, Doing
<1>3. ASSUME t.pc \in Uses
      PROVE  /\ t \in UsingFrames /\ t.f \in Family /\ t.n \in 1 .. MaxSecrets - 1 /\ Rank(t) = 4
             /\ t.a \in IF t.pc \in UsesNow THEN Access ELSE {"none"}
  BY <1>2, <1>3, UseIs, UseRank DEF UsingFrames, UsingFrame
<1>4. ASSUME t.pc \in UsesNow, NEW pc \in UsesNow, To(w, pc) PROVE TasksFine'
  <2>1. PICK x : x = [t EXCEPT !.pc = pc]
    OBVIOUS
  <2>2. t.pc \in Uses /\ pc \in Uses
    BY <1>4 DEF Uses, UsesNow
  <2>3. x \in UsingFrames /\ x.pc = pc
    BY <1>3, <1>4, <2>1, <2>2 DEF UsingFrames, UsingFrame
  <2>4. QED
    BY <1>1, <1>2, <1>3, <1>4, <2>1, <2>2, <2>3, UseIs, UseRank, TasksLast DEF To
<1>5. CASE Give(w)
  <2>1. /\ t.pc = "give" /\ given' = given \cup t.tokens /\ held' = held \cup {t.a} /\ Return(w)
        /\ UNCHANGED <<familyVars, listVars, denied, entering, drawn, finished, takenBack>>
    BY <1>1, <1>5 DEF Give, Doing
  <2>2. t.tokens \subseteq Family \X (1 .. MaxSecrets) /\ t.a \in Access
    BY <1>2, <2>1, UseIs DEF GiveFrame, Pairs
  <2>3. FamiliesTypeOK'
    BY <2>1, <2>2 DEF FamiliesTypeOK, familyVars, listVars
  <2>4. QED
    BY <1>2, <2>1, <2>3, TasksReturn
<1>6. CASE UseRead(w)
  <2>1. t.pc \in Uses /\ t.pc = "use.read"
    BY <1>1, <1>6 DEF UseRead, Doing, Uses
  <2>2. ASSUME Become(w, <<Revoke(t.f)>>) PROVE TasksFine'
    <3>1. PICK x : x = Revoke(t.f)
      OBVIOUS
    <3>2. x \in Frames /\ x.pc = "revoke.add"
      BY <1>3, <2>1, <3>1, RevokeIs
    <3>3. x.pc \notin Settles
      BY <3>2 DEF Settles
    <3>4. QED
      BY <1>1, <1>2, <1>3, <2>1, <2>2, <3>1, <3>2, <3>3, TasksLast
  <2>3. ASSUME Alive(t.f), Become(w, <<[t EXCEPT !.pc = "use.valid", !.s = family[t.f].session]>>) PROVE TasksFine'
    <3>1. PICK q : q = family[t.f].session
      OBVIOUS
    <3>2. q \in Session \cup {NoSession}
      <4>1. family[t.f] \in FamilyKinds
        BY <1>3, <2>1 DEF FamiliesTypeOK, FamilyKinds
      <4>2. family[t.f] \notin {NoFamily, Revoked}
        BY <2>3 DEF Alive, NoFamily, Revoked
      <4>3. PICK n, s : s \in Session \cup {NoSession} /\ family[t.f] = LiveFamily(n, s)
        BY <4>1, <4>2 DEF FamilyKinds
      <4>4. QED
        BY <3>1, <4>3 DEF LiveFamily
    <3>3. PICK x : x = [t EXCEPT !.pc = "use.valid", !.s = q]
      OBVIOUS
    <3>4. x \in UsingFrames /\ x.pc \in Uses
      BY <1>3, <2>1, <3>2, <3>3 DEF UsingFrames, UsingFrame, Uses, UsesNow
    <3>5. QED
      BY <1>1, <1>2, <1>3, <2>1, <2>3, <3>1, <3>3, <3>4, UseIs, UseRank, TasksLast
  <2>4. FamiliesTypeOK'
    BY <1>6, FamiliesSame DEF UseRead, SameFamilies
  <2>5. QED
    BY <1>1, <1>2, <1>6, <2>2, <2>3, <2>4, TasksReturn DEF UseRead
<1>7. CASE UseValid(w)
  <2>1. t.pc \in Uses
    BY <1>1, <1>7 DEF UseValid, Doing, Uses
  <2>2. UNCHANGED <<familyVars, listVars, denied, entering, given, held, finished, takenBack>>
    BY <1>7 DEF UseValid
  <2>3. ASSUME NEW a \in Access, Become(w, <<Record(t.f, a), [t EXCEPT !.pc = "use.select", !.a = a]>>)
        PROVE  TasksFine'
    <3>1. PICK x, y : x = Record(t.f, a) /\ y = [t EXCEPT !.pc = "use.select", !.a = a]
      OBVIOUS
    <3>2. x \in Frames /\ x.pc = "record.link" /\ Rank(x) = 1
      BY <1>3, <2>1, <3>1, RecordKinds
    <3>3. y \in UsingFrames /\ y.pc \in Uses
      BY <1>3, <2>1, <2>3, <3>1 DEF UsingFrames, UsingFrame, Uses, UsesNow
    <3>4. y \in Frames /\ Rank(y) = 4 /\ x.pc \notin Settles /\ Rank(x) < 4
      BY <3>2, <3>3, UseIs, UseRank DEF Settles
    <3>5. QED
      BY <1>1, <1>2, <1>3, <2>1, <2>3, <3>1, <3>2, <3>4, TasksCalls
  <2>4. \/ Return(w) /\ UNCHANGED drawn
        \/ \E a \in Access : /\ drawn' = drawn \cup {a}
                             /\ Become(w, <<Record(t.f, a), [t EXCEPT !.pc = "use.select", !.a = a]>>)
    BY <1>1, <1>7 DEF UseValid
  <2>5. drawn' = drawn \/ \E a \in Access : drawn' = drawn \cup {a}
    BY <2>4
  <2>6. drawn' \subseteq Access \cup Family
    BY <2>5 DEF FamiliesTypeOK
  <2>7. FamiliesTypeOK'
    BY <2>2, <2>6 DEF FamiliesTypeOK, familyVars, listVars
  <2>8. QED
    BY <1>2, <2>3, <2>4, <2>7, TasksReturn
<1>8. CASE UseSelect(w) \/ UseEnter(w)
  <2>1. t.pc \in UsesNow /\ t.pc \in Uses
    BY <1>1, <1>8 DEF UseSelect, UseEnter, Doing, Uses, UsesNow
  <2>2. UNCHANGED <<familyVars, listVars, entering, drawn, given, held, finished, takenBack>>
    BY <1>8 DEF UseSelect, UseEnter
  <2>3. \/ denied' = denied /\ \E pc \in UsesNow : To(w, pc)
        \/ denied' = denied \cup {t.a} /\ (Throw(w) \/ Return(w))
    BY <1>1, <1>8 DEF UseSelect, UseEnter, UsesNow
  <2>4. denied' \subseteq Access
    <3>1. denied' = denied \/ denied' = denied \cup {t.a}
      BY <2>3
    <3>2. t.a \in Access
      BY <1>3, <2>1
    <3>3. QED
      BY <3>1, <3>2 DEF FamiliesTypeOK
  <2>5. FamiliesTypeOK'
    BY <2>2, <2>4 DEF FamiliesTypeOK, familyVars, listVars
  <2>6. QED
    BY <1>2, <1>4, <2>1, <2>3, <2>5, TasksReturn, TasksThrow
<1>9. QED
  BY <1>5, <1>6, <1>7, <1>8

(* A secret is drawn only for a use of one that is not the last: the next  *)
(* is within the bound.                                                    *)
LEMMA RotateTypes ==
  ASSUME FamilyInv, FamiliesTypeOK, TasksFine, load' = load, NEW w \in Worker, UseRotate(w)
  PROVE  FamiliesTypeOK' /\ TasksFine'
<1>1. PICK t, next : t = Top(w) /\ next = secrets[t.f] + 1
  OBVIOUS
<1>2. task[w] # <<>> /\ t \in Frames /\ t.pc = "use.rotate"
  BY <1>1, TopFrame DEF UseRotate, Doing
<1>3. t \in UsingFrames /\ t.f \in Family /\ t.n \in 1 .. MaxSecrets - 1 /\ t.a \in Access /\ Rank(t) = 4
  BY <1>2, UseIs, UseRank DEF UsingFrames, UsingFrame, Uses, UsesNow
<1>4. UNCHANGED <<begun, link, listVars, outsideVars>>
  BY DEF UseRotate
<1>5. CASE Alive(t.f) /\ family[t.f].current = t.n
  <2>1. /\ family' = [family EXCEPT ![t.f].current = next]
        /\ secrets' = [secrets EXCEPT ![t.f] = next]
        /\ spent' = spent \cup {[family |-> t.f, from |-> t.n, to |-> next]}
        /\ Become(w, <<Giving({<<t.f, next>>}, t.a)>>)
    BY <1>1, <1>5 DEF UseRotate
  <2>2. secrets[t.f] = t.n
    BY <1>3, <1>5 DEF FamilyInv, SpentFine
  <2>3. next \in 1 .. MaxSecrets /\ t.n \in 1 .. MaxSecrets
    BY <1>1, <1>3, <2>2, FamiliesAssumption
  <2>4. PICK m, q : q \in Session \cup {NoSession} /\ family[t.f] = LiveFamily(m, q)
    <3>1. family[t.f] \in FamilyKinds
      BY <1>3 DEF FamiliesTypeOK, FamilyKinds
    <3>2. family[t.f] \notin {NoFamily, Revoked}
      BY <1>5 DEF Alive, NoFamily, Revoked
    <3>3. QED
      BY <3>1, <3>2 DEF FamilyKinds
  <2>5. PICK f, n : f = t.f /\ n = next
    OBVIOUS
  <2>6. family' = [family EXCEPT ![f] = LiveFamily(n, q)]
    <3>1. [family[f] EXCEPT !.current = n] = LiveFamily(n, q)
      BY <2>4, <2>5 DEF LiveFamily
    <3>2. QED
      BY <2>1, <2>5, <3>1
  <2>7. f \in Family /\ n \in 1 .. MaxSecrets /\ secrets' = [secrets EXCEPT ![f] = n]
    BY <1>3, <2>1, <2>3, <2>5
  <2>8. family' \in [Family -> FamilyKinds] /\ secrets' \in [Family -> 0 .. MaxSecrets]
    BY <2>4, <2>6, <2>7, LiveFine
  <2>9. spent' \subseteq [family : Family, from : 1 .. MaxSecrets, to : 1 .. MaxSecrets]
    BY <1>3, <2>1, <2>3 DEF FamiliesTypeOK
  <2>10. FamiliesTypeOK'
    BY <1>4, <2>8, <2>9 DEF FamiliesTypeOK, FamilyKinds, listVars, outsideVars
  <2>11. PICK x : x = Giving({<<t.f, next>>}, t.a)
    OBVIOUS
  <2>12. x \in GiveFrame /\ x.pc = "give"
    BY <1>3, <2>3, <2>11 DEF Giving, GiveFrame, Pairs
  <2>13. x \in Frames /\ x.pc \notin Settles
    BY <2>12, UseIs DEF Settles
  <2>14. TasksFine'
    BY <1>1, <1>2, <1>3, <2>1, <2>11, <2>13, TasksLast
  <2>15. QED
    BY <2>10, <2>14
<1>6. CASE ~(Alive(t.f) /\ family[t.f].current = t.n)
  <2>1. Become(w, <<Revoke(t.f)>>) /\ UNCHANGED <<family, secrets, spent>>
    BY <1>1, <1>6 DEF UseRotate
  <2>2. FamiliesTypeOK'
    BY <1>4, <2>1 DEF FamiliesTypeOK, listVars, outsideVars
  <2>3. PICK x : x = Revoke(t.f)
    OBVIOUS
  <2>4. x \in Frames /\ x.pc = "revoke.add"
    BY <1>3, <2>3, RevokeIs
  <2>5. x.pc \notin Settles
    BY <2>4 DEF Settles
  <2>6. QED
    BY <1>1, <1>2, <1>3, <2>1, <2>2, <2>3, <2>4, <2>5, TasksLast
<1>7. QED
  BY <1>5, <1>6

----------------------------------------------------------------------------
CloseFrame == [pc : Closing, s : Session, todo : SUBSET Family]
SweepFrame == [pc : {"sweep"}, todo : SUBSET Family]
AdoptFrame == [pc : {"adopt.read", "adopt.check"}, f : Family, a : Access]

LEMMA EndIs ==
  /\ CloseFrame \subseteq Frames /\ SweepFrame \subseteq Frames /\ AdoptFrame \subseteq Frames
  /\ \A t \in Frames :
       /\ t.pc \in Closing => t \in CloseFrame
       /\ t.pc = "sweep" => t \in SweepFrame
       /\ t.pc = "control.read" => t.f \in Family
       /\ t.pc \in {"adopt.read", "adopt.check"} => t \in AdoptFrame
BY DEF CloseFrame, SweepFrame, AdoptFrame, Frames, FamilyFrames, CodeFrames, Closing

(* A family revoked, last or before the frame that goes on.                *)
LEMMA RevokeLast ==
  ASSUME TasksFine, NEW w \in Worker, task[w] # <<>>, Rank(Top(w)) = 4, NEW f \in Family,
         \/ Become(w, <<Revoke(f)>>)
         \/ \E y \in Frames : Rank(y) = 4 /\ Become(w, <<Revoke(f), y>>)
  PROVE  TasksFine'
<1>1. PICK x : x = Revoke(f)
  OBVIOUS
<1>2. x \in Frames /\ x.pc = "revoke.add" /\ Rank(x) = 0
  BY <1>1, RevokeIs
<1>3. x.pc \notin Settles /\ Rank(x) < 4
  BY <1>2 DEF Settles
<1>4. QED
  BY <1>1, <1>2, <1>3, TasksLast, TasksCalls

LEMMA CloseTypes ==
  ASSUME FamilyInv, FamiliesTypeOK, TasksFine, load' = load, NEW w \in Worker,
         CloseMembers(w) \/ CloseEach(w) \/ CloseRest(w)
  PROVE  FamiliesTypeOK' /\ TasksFine'
<1>1. PICK t : t = Top(w)
  OBVIOUS
<1>2. task[w] # <<>> /\ t \in Frames /\ t.pc \in Closing
  BY <1>1, TopFrame DEF CloseMembers, CloseEach, CloseRest, Doing, Closing
<1>3. t \in CloseFrame /\ t.s \in Session /\ t.todo \subseteq Family /\ Rank(t) = 4
  BY <1>2, EndIs, UseRank DEF CloseFrame
<1>4. bySession[t.s].held \subseteq Family /\ bySession[t.s].awaiting \subseteq Family
  BY <1>3 DEF FamiliesTypeOK
<1>5. ASSUME NEW x \in CloseFrame PROVE x \in Frames /\ Rank(x) = 4 /\ x.pc \notin Settles
  BY EndIs, UseRank DEF CloseFrame
<1>6. ASSUME NEW x \in CloseFrame, Become(w, <<x>>) PROVE TasksFine'
  BY <1>1, <1>2, <1>3, <1>5, <1>6, TasksLast
<1>7. {"close.each", "close.rest"} \subseteq Closing
  BY DEF Closing
<1>8. ASSUME NEW f PROVE [t EXCEPT !.todo = @ \ {f}] \in CloseFrame
  BY <1>3 DEF CloseFrame
<1>9. CASE CloseMembers(w)
  <2>1. PICK x : x = [t EXCEPT !.pc = "close.each", !.todo = bySession[t.s].held] /\ Become(w, <<x>>)
    BY <1>1, <1>9 DEF CloseMembers
  <2>2. x \in CloseFrame
    BY <1>3, <1>4, <1>7, <2>1 DEF CloseFrame
  <2>3. QED
    BY <1>6, <1>9, <2>1, <2>2, FamiliesSame DEF CloseMembers, SameFamilies
<1>10. CASE CloseEach(w)
  <2>1. ASSUME NEW f \in t.todo, Become(w, <<Revoke(f), [t EXCEPT !.todo = @ \ {f}]>>) PROVE TasksFine'
    BY <1>1, <1>2, <1>3, <1>5, <1>8, <2>1, RevokeLast
  <2>2. ASSUME Become(w, <<[t EXCEPT !.pc = "close.rest", !.todo = bySession[t.s].awaiting]>>) PROVE TasksFine'
    <3>1. PICK x : x = [t EXCEPT !.pc = "close.rest", !.todo = bySession[t.s].awaiting]
      OBVIOUS
    <3>2. x \in CloseFrame
      BY <1>3, <1>4, <1>7, <3>1 DEF CloseFrame
    <3>3. QED
      BY <1>6, <2>2, <3>1, <3>2
  <2>3. QED
    BY <1>1, <1>10, <2>1, <2>2, FamiliesSame DEF CloseEach, SameFamilies
<1>11. CASE CloseRest(w)
  <2>1. ASSUME NEW f \in t.todo,
               Become(w, <<Revoke(f), [pc |-> "session.settled", s |-> t.s, f |-> f], [t EXCEPT !.todo = @ \ {f}]>>)
        PROVE  TasksFine'
    <3>1. PICK s, z : s = t.s /\ z = [t EXCEPT !.todo = @ \ {f}]
      OBVIOUS
    <3>2. z \in Frames /\ Rank(z) = 4 /\ z.pc \notin Settles
      BY <1>5, <1>8, <3>1
    <3>3. Rank(z) > 1 /\ Rank(z) <= Rank(Top(w))
      BY <1>1, <1>3, <3>2
    <3>4. QED
      BY <1>2, <1>3, <2>1, <3>1, <3>2, <3>3, RevokeSettles
  <2>2. UNCHANGED <<familyVars, listVars, denied, entering, drawn, given, held, takenBack>>
    BY <1>11 DEF CloseRest
  <2>3. \/ finished' = finished /\ TasksFine'
        \/ finished' = finished \cup {t.s} /\ Return(w)
    BY <1>1, <1>11, <2>1 DEF CloseRest
  <2>4. finished' \subseteq Session
    BY <1>3, <2>3 DEF FamiliesTypeOK
  <2>5. FamiliesTypeOK'
    BY <2>2, <2>4 DEF FamiliesTypeOK, familyVars, listVars
  <2>6. QED
    BY <1>2, <2>3, <2>5, TasksReturn
<1>12. QED
  BY <1>9, <1>10, <1>11

LEMMA EndTypes ==
  ASSUME FamilyInv, FamiliesTypeOK, TasksFine, load' = load, NEW w \in Worker,
         SweepNext(w) \/ ControlRead(w) \/ AdoptRead(w) \/ AdoptCheck(w)
  PROVE  FamiliesTypeOK' /\ TasksFine'
<1>1. PICK t : t = Top(w)
  OBVIOUS
<1>2. task[w] # <<>> /\ t \in Frames /\ Rank(t) = 4
  BY <1>1, TopFrame, UseRank DEF SweepNext, ControlRead, AdoptRead, AdoptCheck, Doing
<1>3. CASE SweepNext(w)
  <2>1. t \in SweepFrame
    BY <1>1, <1>2, <1>3, EndIs DEF SweepNext, Doing
  <2>2. ASSUME NEW f \in t.todo, Become(w, <<Revoke(f), [t EXCEPT !.todo = @ \ {f}]>>) PROVE TasksFine'
    <3>1. PICK y : y = [t EXCEPT !.todo = @ \ {f}]
      OBVIOUS
    <3>2. y \in SweepFrame /\ y.pc = "sweep" /\ f \in Family
      BY <2>1, <2>2, <3>1 DEF SweepFrame
    <3>3. y \in Frames /\ Rank(y) = 4
      BY <3>2, EndIs, UseRank
    <3>4. QED
      BY <1>1, <1>2, <2>2, <3>1, <3>2, <3>3, RevokeLast
  <2>3. QED
    BY <1>1, <1>2, <1>3, <2>2, TasksReturn, FamiliesSame DEF SweepNext, SameFamilies
<1>4. CASE ControlRead(w)
  <2>1. t.f \in Family
    BY <1>1, <1>2, <1>4, EndIs DEF ControlRead, Doing
  <2>2. Return(w) \/ Become(w, <<Revoke(t.f)>>)
    BY <1>1, <1>4 DEF ControlRead
  <2>3. QED
    BY <1>1, <1>2, <1>4, <2>1, <2>2, TasksReturn, RevokeLast, FamiliesSame DEF ControlRead, SameFamilies
<1>5. CASE AdoptRead(w)
  <2>1. t \in AdoptFrame /\ t.f \in Family /\ t.a \in Access
    BY <1>1, <1>2, <1>5, EndIs DEF AdoptRead, Doing, AdoptFrame
  <2>2. UNCHANGED <<familyVars, listVars, entering, drawn, given, held, finished, takenBack>>
    BY <1>5 DEF AdoptRead
  <2>3. \/ Become(w, <<Record(t.f, t.a), [t EXCEPT !.pc = "adopt.check"]>>) /\ denied' = denied
        \/ Return(w) /\ denied' = denied \cup {t.a}
    BY <1>1, <1>5 DEF AdoptRead
  <2>4. ASSUME Become(w, <<Record(t.f, t.a), [t EXCEPT !.pc = "adopt.check"]>>) PROVE TasksFine'
    <3>1. PICK x, y : x = Record(t.f, t.a) /\ y = [t EXCEPT !.pc = "adopt.check"]
      OBVIOUS
    <3>2. x \in Frames /\ x.pc = "record.link" /\ Rank(x) = 1
      BY <2>1, <3>1, RecordKinds
    <3>3. y \in AdoptFrame /\ y.pc = "adopt.check"
      BY <2>1, <3>1 DEF AdoptFrame
    <3>4. y \in Frames /\ Rank(y) = 4 /\ x.pc \notin Settles /\ Rank(x) < 4
      BY <3>2, <3>3, EndIs, UseRank DEF Settles
    <3>5. Become(w, <<x, y>>)
      BY <2>4, <3>1
    <3>6. QED
      BY <1>1, <1>2, <3>2, <3>4, <3>5, TasksCalls
  <2>5. denied' = denied \/ denied' = denied \cup {t.a}
    BY <2>3
  <2>6. FamiliesTypeOK'
    BY <2>1, <2>2, <2>5 DEF FamiliesTypeOK, familyVars, listVars
  <2>7. QED
    BY <1>2, <2>3, <2>4, <2>6, TasksReturn
<1>6. CASE AdoptCheck(w)
  <2>1. t.f \in Family /\ t.a \in Access
    BY <1>1, <1>2, <1>6, EndIs DEF AdoptCheck, Doing, AdoptFrame
  <2>2. Become(w, <<Giving({}, t.a)>>) \/ Become(w, <<Revoke(t.f)>>)
    BY <1>1, <1>6 DEF AdoptCheck
  <2>3. PICK x : x = Giving({}, t.a)
    OBVIOUS
  <2>4. x \in GiveFrame /\ x.pc = "give"
    BY <2>1, <2>3 DEF Giving, GiveFrame, Pairs
  <2>5. x \in Frames /\ x.pc \notin Settles
    BY <2>4, UseIs DEF Settles
  <2>6. QED
    BY <1>1, <1>2, <1>6, <2>1, <2>2, <2>3, <2>5, TasksLast, RevokeLast, FamiliesSame DEF AdoptCheck, SameFamilies
<1>7. QED
  BY <1>3, <1>4, <1>5, <1>6

LEMMA WorkTypes ==
  ASSUME FamilyInv, FamiliesTypeOK, TasksFine, load' = load, NEW w \in Worker, Work(w)
  PROVE  FamiliesTypeOK' /\ TasksFine'
<1>1. CASE Rethrow(w)
  BY <1>1, TasksThrow, FamiliesSame DEF Rethrow, SameFamilies
<1>2. CASE StartStep(w)
  BY <1>2, FoundTypes, StartTypes, DropTypes, TakeTypes DEF StartStep
<1>3. CASE UseStep(w)
  BY <1>3, UseTypes, RotateTypes DEF UseStep
<1>4. CASE EndStep(w)
  BY <1>4, CloseTypes, EndTypes DEF EndStep
<1>5. QED
  BY <1>1, <1>2, <1>3, <1>4, RevokeTypes, RecordTypes DEF Work

LEMMA StopTypes ==
  ASSUME FamilyInv, FamiliesTypeOK, TasksFine, load' = load, NEW w \in Worker, Fails(w) \/ Crash(w)
  PROVE  FamiliesTypeOK' /\ TasksFine'
<1>1. PICK n : n = <<>>
  OBVIOUS
<1>2. n \in Seq(Frames) /\ Stacked(n)
  <2>1. Len(n) = 0 /\ n \in Seq(Frames)
    BY <1>1
  <2>2. QED
    BY <2>1 DEF Stacked
<1>3. CASE Fails(w)
  BY <1>3, TasksThrow, FamiliesSame DEF Fails, SameFamilies
<1>4. CASE Crash(w)
  BY <1>1, <1>2, <1>4, TasksStep, FamiliesSame DEF Crash, SameFamilies
<1>5. QED
  BY <1>3, <1>4

LEMMA TasksBegun ==
  ASSUME TasksFine, NEW w \in Worker, NEW op, NEW x \in Frames, Begin(w, op, <<x>>)
  PROVE  TasksFine'
<1>1. PICK n : n = <<x>>
  OBVIOUS
<1>2. n \in Seq(Frames) /\ Stacked(n)
  BY <1>1, StackedOne
<1>3. QED
  BY <1>1, <1>2, TasksStep DEF Begin

LEMMA BeginTypes ==
  ASSUME FamilyInv, FamiliesTypeOK, TasksFine, load' = load, NEW w \in Worker, Beginning(w)
  PROVE  FamiliesTypeOK' /\ TasksFine'
<1>1. CASE BeginStart(w)
  <2>1. PICK f \in load.families \ drawn, a \in Access \ drawn :
          /\ drawn' = drawn \cup {f, a}
          /\ Begin(w, "start", <<Found(f, NoSession, a), Giving({<<f, 1>>}, a)>>)
    BY <1>1 DEF BeginStart
  <2>2. f \in Family
    BY FamiliesAssumption DEF FamiliesTypeOK
  <2>3. UNCHANGED <<familyVars, listVars, denied, entering, given, held, finished, takenBack>>
    BY <1>1 DEF BeginStart
  <2>4. FamiliesTypeOK'
    BY <2>1, <2>2, <2>3 DEF FamiliesTypeOK, familyVars, listVars
  <2>5. PICK x, y : x = Found(f, NoSession, a) /\ y = Giving({<<f, 1>>}, a)
    OBVIOUS
  <2>6. 1 \in 1 .. MaxSecrets
    BY FamiliesAssumption
  <2>7. x \in FoundFrame /\ x.pc = "found.save"
    BY <2>2, <2>5 DEF Found, FoundFrame
  <2>8. y \in GiveFrame /\ y.pc = "give"
    BY <2>2, <2>5, <2>6 DEF Giving, GiveFrame, Pairs
  <2>9. x \in Frames /\ y \in Frames
    BY <2>7, <2>8, FoundIs, UseIs
  <2>10. Rank(x) = 3 /\ Rank(y) = 4
    BY <2>7, <2>8, UseRank DEF Rank, Revoking, Marked, Recording, Taking, Settles, Starts
  <2>11. PICK n : n = <<x, y>>
    OBVIOUS
  <2>12. Len(n) = 2 /\ n[1] = x /\ n[2] = y /\ n \in Seq(Frames)
    BY <2>9, <2>11
  <2>13. Stacked(n)
    <3>1. ASSUME NEW i \in 1 .. 2 PROVE (i < 2 => Rank(n[i]) < Rank(n[i + 1])) /\ (n[i].pc \in Settles => i >= 2 - 1)
      <4>1. i < 2 => i = 1
        OBVIOUS
      <4>2. QED
        BY <2>10, <2>12, <4>1
    <3>2. QED
      BY <2>12, <3>1 DEF Stacked
  <2>14. TasksFine'
    BY <2>1, <2>5, <2>11, <2>12, <2>13, TasksStep DEF Begin
  <2>15. QED
    BY <2>4, <2>14
<1>2. CASE BeginUse(w)
  <2>1. PICK t \in given : t[2] < MaxSecrets /\ Begin(w, "use", <<Using(t[1], t[2])>>)
    BY <1>2 DEF BeginUse
  <2>2. t[1] \in Family /\ t[2] \in 1 .. MaxSecrets
    BY DEF FamiliesTypeOK
  <2>3. t[2] \in 1 .. MaxSecrets - 1
    BY <2>1, <2>2, FamiliesAssumption
  <2>4. PICK x : x = Using(t[1], t[2])
    OBVIOUS
  <2>5. x \in UsingFrames
    BY <2>2, <2>3, <2>4 DEF Using, UsingFrames, UsingFrame, Uses, UsesNow
  <2>6. TasksFine'
    BY <2>1, <2>4, <2>5, UseIs, TasksBegun
  <2>7. QED
    BY <1>2, <2>6, FamiliesSame DEF BeginUse, SameFamilies
<1>3. CASE BeginClose(w)
  <2>1. PICK s \in Session :
          /\ entering' = entering \ {s}
          /\ Begin(w, "close", <<[pc |-> "close.members", s |-> s, todo |-> {}]>>)
    BY <1>3 DEF BeginClose
  <2>2. UNCHANGED <<familyVars, listVars, denied, drawn, given, held, finished, takenBack>>
    BY <1>3 DEF BeginClose
  <2>3. FamiliesTypeOK'
    BY <2>1, <2>2 DEF FamiliesTypeOK, familyVars, listVars
  <2>4. PICK x : x = [pc |-> "close.members", s |-> s, todo |-> {}]
    OBVIOUS
  <2>5. x \in CloseFrame
    BY <2>4 DEF CloseFrame, Closing
  <2>6. QED
    BY <2>1, <2>3, <2>4, <2>5, EndIs, TasksBegun
<1>4. CASE BeginSweep(w)
  <2>1. PICK x : x = [pc |-> "sweep", todo |-> settles] /\ Begin(w, "sweep", <<x>>)
    BY <1>4 DEF BeginSweep
  <2>2. x \in SweepFrame
    BY <2>1 DEF SweepFrame, FamiliesTypeOK
  <2>3. QED
    BY <1>4, <2>1, <2>2, EndIs, TasksBegun, FamiliesSame DEF BeginSweep, SameFamilies
<1>5. CASE BeginControl(w)
  <2>1. PICK t \in given : Begin(w, "control", <<[pc |-> "control.read", f |-> t[1]]>>)
    BY <1>5 DEF BeginControl
  <2>2. PICK x : x = [pc |-> "control.read", f |-> t[1]]
    OBVIOUS
  <2>3. t[1] \in Family
    BY DEF FamiliesTypeOK
  <2>4. x \in Frames
    BY <2>2, <2>3 DEF Frames, FamilyFrames
  <2>5. QED
    BY <1>5, <2>1, <2>2, <2>4, TasksBegun, FamiliesSame DEF BeginControl, SameFamilies
<1>6. CASE BeginAdopt(w)
  <2>1. PICK b \in held, a \in Access \ drawn :
          /\ link[b] \in Family /\ drawn' = drawn \cup {a}
          /\ Begin(w, "adopt", <<[pc |-> "adopt.read", f |-> link[b], a |-> a]>>)
    BY <1>6 DEF BeginAdopt
  <2>2. UNCHANGED <<familyVars, listVars, denied, entering, given, held, finished, takenBack>>
    BY <1>6 DEF BeginAdopt
  <2>3. FamiliesTypeOK'
    BY <2>1, <2>2 DEF FamiliesTypeOK, familyVars, listVars
  <2>4. PICK x : x = [pc |-> "adopt.read", f |-> link[b], a |-> a]
    OBVIOUS
  <2>5. x \in AdoptFrame
    BY <2>1, <2>4 DEF AdoptFrame
  <2>6. QED
    BY <2>1, <2>3, <2>4, <2>5, EndIs, TasksBegun
<1>7. QED
  BY <1>1, <1>2, <1>3, <1>4, <1>5, <1>6 DEF Beginning

----------------------------------------------------------------------------
SettleFrame == [pc : Settles, c : Redemption]
RedeemFrames ==
  [pc : Redeems, c : Redemption, s : Session, a : Access \cup {"none"}, void : BOOLEAN, tokens : SUBSET Pairs]
CodeKinds ==
  {NoCode, GoneCode} \cup
  [state : {"issued", "consumed"}, session : Session, token : Access \cup {"none"}, void : BOOLEAN]

LEMMA CodedIs ==
  /\ SettleFrame \subseteq Frames /\ RedeemFrames \subseteq Frames
  /\ \A t \in Frames :
       /\ t.pc \in Settles => t \in SettleFrame
       /\ t.pc \in Redeems => t \in RedeemFrames
       /\ t.pc = "redeem.use" => t.c \in Redemption
       /\ t.pc = "code.save" => t.c \in Redemption /\ t.s \in Session
       /\ t.pc = "voids" => t \in [pc : {"voids"}, todo : SUBSET Redemption]
BY DEF SettleFrame, RedeemFrames, Pairs, Frames, FamilyFrames, CodeFrames, Settles, Redeems

LEMMA CodesSame ==
  ASSUME CodesTypeOK, UNCHANGED codeVars
  PROVE  CodesTypeOK'
BY DEF CodesTypeOK, codeVars

(* A code is settled: a base frame makes way for that, or waits for it.    *)
LEMMA TasksSettle ==
  ASSUME FamilyInv, TasksFine, NEW w \in Worker, task[w] # <<>>, Top(w).pc \in Bases, Rank(Top(w)) = 4,
         NEW c \in Redemption,
         \/ Become(w, <<Settling(c)>>)
         \/ \E y \in Frames : Rank(y) > 2 /\ Become(w, <<Settling(c), y>>)
  PROVE  TasksFine'
<1>1. PICK x : x = Settling(c)
  OBVIOUS
<1>2. x \in SettleFrame /\ x.pc = "settle.add"
  BY <1>1 DEF Settling, SettleFrame, Settles
<1>3. x \in Frames /\ Rank(x) = 2
  BY <1>2, CodedIs DEF Rank, Revoking, Marked, Recording, Taking, Settles
<1>4. Len(task[w]) = 1
  BY Tops
<1>5. CASE Become(w, <<x>>)
  <2>1. Rank(x) <= Rank(Top(w))
    BY <1>3
  <2>2. QED
    BY <1>3, <1>4, <1>5, <2>1, TasksOne
<1>6. ASSUME NEW y \in Frames, Rank(y) > 2, Become(w, <<x, y>>) PROVE TasksFine'
  <2>1. Rank(x) < Rank(y) /\ Rank(y) <= Rank(Top(w))
    BY <1>3, <1>6, Ranks
  <2>2. y.pc \notin Settles
    <3>1. y.pc \in Settles => Rank(y) = 2
      BY DEF Rank, Revoking, Marked, Recording, Taking, Settles
    <3>2. QED
      BY <1>6, <3>1
  <2>3. QED
    BY <1>3, <1>4, <1>6, <2>1, <2>2, TasksTwo
<1>7. QED
  BY <1>1, <1>5, <1>6

LEMMA CodedRank ==
  ASSUME NEW r, r.pc \in Coded \cup {"voids"}
  PROVE  Rank(r) = 4 /\ r.pc \notin Settles /\ r.pc \in Bases
BY DEF Rank, Revoking, Marked, Recording, Taking, Settles, Starts, Coded, Redeems, Bases

LEMMA SettleTypes ==
  ASSUME CodesInv, FamiliesTypeOK, CodesTypeOK, TasksFine, load' = load, NEW w \in Worker, SettleStep(w)
  PROVE  FamiliesTypeOK' /\ CodesTypeOK' /\ TasksFine'
<1>1. PICK t : t = Top(w)
  OBVIOUS
<1>2. task[w] # <<>> /\ t \in Frames /\ t.pc \in Settles
  BY <1>1, TopFrame DEF SettleStep, SettleAdd, SettleMark, SettleDeny, SettleDone, Doing, Settles
<1>3. t \in SettleFrame /\ t.c \in Redemption
  BY <1>2, CodedIs DEF SettleFrame
<1>4. Rank(t) = 2
  BY <1>2 DEF Rank, Revoking, Marked, Recording, Taking, Settles
<1>5. ASSUME NEW pc \in Settles PROVE [t EXCEPT !.pc = pc] \in SettleFrame /\ [t EXCEPT !.pc = pc].pc = pc
  BY <1>3 DEF SettleFrame
<1>6. ASSUME NEW pc \in Settles, To(w, pc) PROVE TasksFine'
  <2>1. [t EXCEPT !.pc = pc] \in Frames
    BY <1>5, CodedIs
  <2>2. Rank([pc |-> pc]) <= Rank(t)
    BY <1>4 DEF Rank, Revoking, Marked, Recording, Taking, Settles
  <2>3. QED
    BY <1>1, <1>2, <1>6, <2>1, <2>2, TasksTo
<1>7. {"settle.mark", "settle.deny", "settle.done"} \subseteq Settles
  BY DEF Settles
<1>8. ASSUME Become(w, <<TakingBack(t.c), [t EXCEPT !.pc = "settle.done"]>>) PROVE TasksFine'
  <2>1. PICK x, y : x = TakingBack(t.c) /\ y = [t EXCEPT !.pc = "settle.done"]
    OBVIOUS
  <2>2. x \in TakeFrame /\ x.pc = "take.mark"
    BY <1>3, <2>1 DEF TakingBack, TakeFrame, Taking
  <2>3. y \in Frames /\ y.pc = "settle.done"
    BY <1>5, <1>7, <2>1, CodedIs
  <2>4. x \in Frames /\ x.pc \notin Settles
    BY <2>2, FoundIs DEF Settles
  <2>5. Rank(x) = 1 /\ Rank(y) = 2
    BY <2>2, <2>3 DEF Rank, Revoking, Marked, Recording, Taking, Settles
  <2>6. Rank(x) < Rank(y) /\ Rank(y) <= Rank(Top(w))
    BY <1>1, <1>4, <2>5
  <2>7. Become(w, <<x, y>>) /\ Top(w).pc \in Settles
    BY <1>1, <1>2, <1>8, <2>1
  <2>8. QED
    BY <1>2, <2>3, <2>4, <2>6, <2>7, TasksTwo
<1>9. CASE SettleAdd(w)
  <2>1. /\ voids' = voids \cup {t.c} /\ To(w, "settle.mark")
        /\ UNCHANGED <<familyVars, listVars, outsideVars, code, answers, settled>>
    BY <1>1, <1>9 DEF SettleAdd
  <2>2. CodesTypeOK'
    BY <1>3, <2>1 DEF CodesTypeOK
  <2>3. FamiliesTypeOK'
    BY <2>1, FamiliesSame DEF SameFamilies
  <2>4. QED
    BY <1>6, <1>7, <2>1, <2>2, <2>3
<1>10. CASE SettleMark(w)
  <2>1. /\ code' = code \/ (Kept(t.c) /\ code' = [code EXCEPT ![t.c].void = TRUE])
        /\ \/ Become(w, <<TakingBack(t.c), [t EXCEPT !.pc = "settle.done"]>>)
           \/ Return(w)
           \/ To(w, "settle.deny")
        /\ UNCHANGED <<familyVars, listVars, outsideVars, voids, answers, settled>>
    BY <1>1, <1>10 DEF SettleMark
  <2>2. code' \in [Redemption -> CodeKinds]
    <3>1. code \in [Redemption -> CodeKinds]
      BY DEF CodesTypeOK, CodeKinds
    <3>2. ASSUME Kept(t.c) PROVE [code[t.c] EXCEPT !.void = TRUE] \in CodeKinds
      <4>1. code[t.c] \in CodeKinds /\ code[t.c] \notin {NoCode, GoneCode}
        BY <1>3, <3>1, <3>2 DEF Kept, NoCode, GoneCode
      <4>2. QED
        BY <4>1 DEF CodeKinds
    <3>3. QED
      BY <1>3, <2>1, <3>1, <3>2
  <2>3. CodesTypeOK'
    BY <2>1, <2>2 DEF CodesTypeOK, CodeKinds
  <2>4. FamiliesTypeOK'
    BY <2>1, FamiliesSame DEF SameFamilies
  <2>5. TasksFine'
    BY <1>2, <1>6, <1>7, <1>8, <2>1, TasksReturn
  <2>6. QED
    BY <2>3, <2>4, <2>5
<1>11. CASE SettleDeny(w)
  <2>1. /\ t.pc = "settle.deny" /\ denied' = denied \cup {code[t.c].token}
        /\ Become(w, <<TakingBack(t.c), [t EXCEPT !.pc = "settle.done"]>>)
        /\ UNCHANGED <<familyVars, listVars, entering, drawn, given, held, finished, takenBack, codeVars>>
    BY <1>1, <1>11 DEF SettleDeny, Doing
  <2>2. code[t.c].token \in Access
    <3>1. Knows(t)
      BY <1>1, <1>2, TopIn DEF CodesInv
    <3>2. QED
      BY <2>1, <3>1 DEF Knows, Noted
  <2>3. FamiliesTypeOK'
    BY <2>1, <2>2 DEF FamiliesTypeOK, familyVars, listVars
  <2>4. QED
    BY <1>8, <2>1, <2>3, CodesSame
<1>12. CASE SettleDone(w)
  <2>1. /\ voids' = voids \ {t.c} /\ settled' = settled \cup {t.c} /\ Return(w)
        /\ UNCHANGED <<familyVars, listVars, outsideVars, code, answers>>
    BY <1>1, <1>12 DEF SettleDone
  <2>2. CodesTypeOK'
    BY <1>3, <2>1 DEF CodesTypeOK
  <2>3. FamiliesTypeOK'
    BY <2>1, FamiliesSame DEF SameFamilies
  <2>4. QED
    BY <1>2, <2>1, <2>2, <2>3, TasksReturn
<1>13. QED
  BY <1>9, <1>10, <1>11, <1>12 DEF SettleStep

(* A redemption's frame, and the one it goes on as.                        *)
LEMMA RedeemOn ==
  ASSUME TasksFine, NEW w \in Worker, task[w] # <<>>, Top(w).pc \in Redeems, NEW pc \in Redeems, To(w, pc)
  PROVE  TasksFine'
<1>1. PICK t, x : t = Top(w) /\ x = [t EXCEPT !.pc = pc]
  OBVIOUS
<1>2. t \in RedeemFrames
  BY <1>1, TopFrame, CodedIs
<1>3. x \in RedeemFrames /\ x.pc \in Coded /\ t.pc \in Coded
  BY <1>1, <1>2 DEF RedeemFrames, Coded
<1>4. QED
  BY <1>1, <1>3, CodedIs, CodedRank, TasksLast DEF To

LEMMA RedeemTypes ==
  ASSUME CodesInv, FamiliesTypeOK, CodesTypeOK, TasksFine, load' = load, NEW w \in Worker,
         \/ RedeemEnter(w) \/ RedeemPin(w) \/ RedeemIssue(w) \/ RedeemSession(w) \/ RedeemCheck(w)
         \/ RedeemAdd(w) \/ RedeemVoid(w)
  PROVE  FamiliesTypeOK' /\ CodesTypeOK' /\ TasksFine'
<1>0. FamilyInv
  BY DEF CodesInv
<1>1. PICK t : t = Top(w)
  OBVIOUS
<1>2. task[w] # <<>> /\ t \in Frames /\ t.pc \in Redeems
  BY <1>1, TopFrame DEF RedeemEnter, RedeemPin, RedeemIssue, RedeemSession, RedeemCheck, RedeemAdd, RedeemVoid,
              Doing, Redeems
<1>3. t \in RedeemFrames /\ t.c \in Redemption /\ t.s \in Session /\ t.pc \in Coded
  BY <1>2, CodedIs DEF RedeemFrames, Coded
<1>4. Rank(t) = 4 /\ t.pc \in Bases
  BY <1>3, CodedRank
<1>5. CodesTypeOK'
  <2>1. UNCHANGED codeVars
    BY DEF RedeemEnter, RedeemPin, RedeemIssue, RedeemSession, RedeemCheck, RedeemAdd, RedeemVoid
  <2>2. QED
    BY <2>1, CodesSame
<1>6. ASSUME NEW pc \in Redeems, To(w, pc) PROVE TasksFine'
  BY <1>1, <1>2, <1>6, RedeemOn
<1>7. {"redeem.pin", "redeem.issue", "redeem.check", "redeem.add", "redeem.hooks", "redeem.note"} \subseteq Redeems
  BY DEF Redeems
<1>8. CASE RedeemEnter(w) \/ RedeemPin(w) \/ RedeemSession(w)
  <2>1. Return(w) \/ \E pc \in Redeems : To(w, pc)
    BY <1>7, <1>8 DEF RedeemEnter, RedeemPin, RedeemSession
  <2>2. FamiliesTypeOK'
    BY <1>8, FamiliesSame DEF RedeemEnter, RedeemPin, RedeemSession, SameFamilies
  <2>3. QED
    BY <1>2, <1>5, <1>6, <2>1, <2>2, TasksReturn
<1>9. CASE RedeemIssue(w)
  <2>1. UNCHANGED <<familyVars, listVars, denied, entering, given, held, finished, takenBack>>
    BY <1>9 DEF RedeemIssue
  <2>2. ASSUME NEW a \in Access, Become(w, <<[t EXCEPT !.pc = "redeem.note", !.a = a]>>) PROVE TasksFine'
    <3>1. PICK x : x = [t EXCEPT !.pc = "redeem.note", !.a = a]
      OBVIOUS
    <3>2. x \in RedeemFrames /\ x.pc \in Coded
      BY <1>3, <1>7, <2>2, <3>1 DEF RedeemFrames, Coded
    <3>3. QED
      BY <1>1, <1>2, <1>4, <2>2, <3>1, <3>2, CodedIs, CodedRank, TasksLast
  <2>3. \/ drawn' = drawn /\ Return(w)
        \/ \E a \in Access : /\ drawn' = drawn \cup {a}
                             /\ Become(w, <<[t EXCEPT !.pc = "redeem.note", !.a = a]>>)
    BY <1>1, <1>9 DEF RedeemIssue
  <2>4. drawn' = drawn \/ \E a \in Access : drawn' = drawn \cup {a}
    BY <2>3
  <2>5. drawn' \subseteq Access \cup Family
    BY <2>4 DEF FamiliesTypeOK
  <2>6. FamiliesTypeOK'
    BY <2>1, <2>5 DEF FamiliesTypeOK, familyVars, listVars
  <2>7. QED
    BY <1>2, <1>5, <2>2, <2>3, <2>6, TasksReturn
<1>10. CASE RedeemCheck(w)
  <2>1. To(w, "redeem.add") \/ Become(w, <<Settling(t.c)>>)
    BY <1>1, <1>10 DEF RedeemCheck
  <2>2. TasksFine'
    BY <1>0, <1>1, <1>2, <1>3, <1>4, <1>6, <1>7, <2>1, TasksSettle
  <2>3. QED
    BY <1>5, <1>10, <2>2, FamiliesSame DEF RedeemCheck, SameFamilies
<1>11. CASE RedeemVoid(w)
  <2>1. Become(w, <<Settling(t.c), Throwing>>)
    BY <1>1, <1>11 DEF RedeemVoid
  <2>2. Throwing \in Frames /\ Rank(Throwing) > 2
    BY FoundIs
  <2>3. TasksFine'
    BY <1>0, <1>1, <1>2, <1>3, <1>4, <2>1, <2>2, TasksSettle
  <2>4. QED
    BY <1>5, <1>11, <2>3, FamiliesSame DEF RedeemVoid, SameFamilies
<1>12. CASE RedeemAdd(w)
  <2>0. t.a \in Access
    <3>1. Knows(t) /\ t.pc = "redeem.add"
      BY <1>1, <1>2, <1>12, TopIn DEF CodesInv, RedeemAdd, Doing
    <3>2. QED
      BY <3>1 DEF Knows, Late, Noted
  <2>1. UNCHANGED <<familyVars, listVars, denied, entering, given, held, finished, takenBack>>
    BY <1>12 DEF RedeemAdd
  <2>2. ASSUME NEW f \in Family,
               Become(w, <<Starting(t.c, f, t.s, t.a), [t EXCEPT !.pc = "redeem.hooks", !.tokens = {<<f, 1>>}]>>)
        PROVE  TasksFine'
    <3>1. PICK x, y : x = Starting(t.c, f, t.s, t.a) /\ y = [t EXCEPT !.pc = "redeem.hooks", !.tokens = {<<f, 1>>}]
      OBVIOUS
    <3>2. x \in StartFrame /\ x.pc = "start.name"
      BY <1>3, <2>0, <3>1 DEF Starting, StartFrame
    <3>3. 1 \in 1 .. MaxSecrets
      BY FamiliesAssumption
    <3>4. y \in RedeemFrames /\ y.pc \in Coded
      <4>1. PICK S : S = {<<f, 1>>}
        OBVIOUS
      <4>2. S \subseteq Pairs
        BY <2>2, <3>3, <4>1 DEF Pairs
      <4>3. y = [t EXCEPT !.pc = "redeem.hooks", !.tokens = S]
        BY <3>1, <4>1
      <4>4. QED
        BY <1>3, <1>7, <4>2, <4>3 DEF RedeemFrames, Coded
    <3>5. x \in Frames /\ y \in Frames /\ Rank(y) = 4 /\ x.pc \notin Settles
      BY <3>2, <3>4, FoundIs, CodedIs, CodedRank DEF Settles
    <3>6. Rank(x) = 3
      BY <3>2 DEF Rank, Revoking, Marked, Recording, Taking, Settles, Starts
    <3>7. Become(w, <<x, y>>) /\ Rank(x) < 4
      BY <2>2, <3>1, <3>6
    <3>8. QED
      BY <1>1, <1>2, <1>4, <3>5, <3>7, TasksCalls
  <2>3. \/ drawn' = drawn /\ To(w, "redeem.hooks")
        \/ \E f \in Family :
             /\ drawn' = drawn \cup {f}
             /\ Become(w, <<Starting(t.c, f, t.s, t.a), [t EXCEPT !.pc = "redeem.hooks", !.tokens = {<<f, 1>>}]>>)
    <3>1. load.families \subseteq Family
      BY FamiliesAssumption DEF FamiliesTypeOK
    <3>2. QED
      BY <1>1, <1>12, <3>1 DEF RedeemAdd
  <2>4. drawn' = drawn \/ \E f \in Family : drawn' = drawn \cup {f}
    BY <2>3
  <2>5. drawn' \subseteq Access \cup Family
    BY <2>4 DEF FamiliesTypeOK
  <2>6. FamiliesTypeOK'
    BY <2>1, <2>5 DEF FamiliesTypeOK, familyVars, listVars
  <2>7. QED
    BY <1>5, <1>6, <1>7, <2>2, <2>3, <2>6
<1>13. QED
  BY <1>8, <1>9, <1>10, <1>11, <1>12

LEMMA KeptKind ==
  ASSUME CodesTypeOK, NEW c \in Redemption
  PROVE  /\ code \in [Redemption -> CodeKinds]
         /\ Kept(c) => code[c] \in [state : {"issued", "consumed"}, session : Session,
                                    token : Access \cup {"none"}, void : BOOLEAN]
<1>1. code \in [Redemption -> CodeKinds]
  BY DEF CodesTypeOK, CodeKinds
<1>2. ASSUME Kept(c) PROVE code[c] \notin {NoCode, GoneCode}
  BY <1>2 DEF Kept, NoCode, GoneCode
<1>3. QED
  BY <1>1, <1>2 DEF CodeKinds

(* Only the codes' records change, but for what else is said.              *)
LEMMA CodesChange ==
  ASSUME CodesTypeOK, code' \in [Redemption -> CodeKinds], UNCHANGED <<voids, answers, settled>>
  PROVE  CodesTypeOK'
BY DEF CodesTypeOK, CodeKinds

LEMMA NoteTypes ==
  ASSUME CodesInv, FamiliesTypeOK, CodesTypeOK, TasksFine, load' = load, NEW w \in Worker,
         CodeIssue(w) \/ RedeemUse(w) \/ RedeemNote(w) \/ RedeemHooks(w) \/ VoidsNext(w)
  PROVE  FamiliesTypeOK' /\ CodesTypeOK' /\ TasksFine'
<1>0. FamilyInv
  BY DEF CodesInv
<1>1. PICK t : t = Top(w)
  OBVIOUS
<1>2. task[w] # <<>> /\ t \in Frames /\ Knows(t) /\ t.pc \in Coded \cup {"voids"}
  BY <1>1, TopFrame, TopIn DEF CodeIssue, RedeemUse, RedeemNote, RedeemHooks, VoidsNext, Doing, Coded, Redeems
<1>3. Rank(t) = 4 /\ t.pc \in Bases
  BY <1>2, CodedRank
<1>4. CASE CodeIssue(w)
  <2>1. /\ t.pc = "code.save" /\ code' = [code EXCEPT ![t.c] = IssuedCode(t.s)] /\ Return(w)
        /\ UNCHANGED <<familyVars, listVars, outsideVars, voids, answers, settled>>
    BY <1>1, <1>4 DEF CodeIssue, Doing
  <2>2. t.c \in Redemption /\ t.s \in Session
    BY <1>2, <2>1, CodedIs
  <2>3. IssuedCode(t.s) \in CodeKinds
    BY <2>2 DEF IssuedCode, CodeKinds
  <2>4. code' \in [Redemption -> CodeKinds]
    BY <2>1, <2>2, <2>3, KeptKind
  <2>5. QED
    BY <1>2, <2>1, <2>4, CodesChange, TasksReturn, FamiliesSame DEF SameFamilies
<1>5. CASE RedeemUse(w)
  <2>1. PICK c : c = t.c
    OBVIOUS
  <2>2. c \in Redemption
    BY <1>1, <1>2, <1>5, <2>1, CodedIs DEF RedeemUse, Doing
  <2>3. \/ code' = code /\ (Return(w) \/ Become(w, <<Settling(c)>>))
        \/ /\ Kept(c) /\ code' = [code EXCEPT ![c].state = "consumed"]
           /\ Return(w) \/ Become(w, <<Redeeming(c, code[c].session)>>)
    BY <1>1, <1>5, <2>1 DEF RedeemUse
  <2>4. code' \in [Redemption -> CodeKinds]
    <3>1. Kept(c) => [code[c] EXCEPT !.state = "consumed"] \in CodeKinds
      BY <2>2, KeptKind DEF CodeKinds
    <3>2. QED
      BY <2>2, <2>3, <3>1, KeptKind
  <2>5. ASSUME Kept(c), Become(w, <<Redeeming(c, code[c].session)>>) PROVE TasksFine'
    <3>1. PICK x : x = Redeeming(c, code[c].session)
      OBVIOUS
    <3>2. code[c].session \in Session
      BY <2>2, <2>5, KeptKind
    <3>3. x \in RedeemFrames /\ x.pc \in Coded
      BY <2>2, <3>1, <3>2 DEF Redeeming, RedeemFrames, Redeems, Coded
    <3>4. QED
      BY <1>1, <1>2, <1>3, <2>5, <3>1, <3>3, CodedIs, CodedRank, TasksLast
  <2>6. TasksFine'
    BY <1>0, <1>1, <1>2, <1>3, <2>2, <2>3, <2>5, TasksReturn, TasksSettle
  <2>7. UNCHANGED <<familyVars, listVars, outsideVars, voids, answers, settled>>
    BY <1>5 DEF RedeemUse
  <2>8. QED
    BY <2>4, <2>6, <2>7, CodesChange, FamiliesSame DEF SameFamilies
<1>6. CASE RedeemNote(w)
  <2>1. t.pc = "redeem.note" /\ t.pc \in Redeems
    BY <1>1, <1>6 DEF RedeemNote, Doing, Redeems
  <2>2. t \in RedeemFrames /\ t.c \in Redemption /\ t.a \in Access
    BY <1>2, <2>1, CodedIs DEF RedeemFrames, Knows
  <2>3. \/ code' = code /\ Return(w)
        \/ /\ Kept(t.c) /\ code' = [code EXCEPT ![t.c].token = t.a]
           /\ Become(w, <<[t EXCEPT !.pc = "redeem.session", !.void = code[t.c].void]>>)
    BY <1>1, <1>6 DEF RedeemNote
  <2>4. code' \in [Redemption -> CodeKinds]
    <3>1. Kept(t.c) => [code[t.c] EXCEPT !.token = t.a] \in CodeKinds
      BY <2>2, KeptKind DEF CodeKinds
    <3>2. QED
      BY <2>2, <2>3, <3>1, KeptKind
  <2>5. ASSUME Kept(t.c), Become(w, <<[t EXCEPT !.pc = "redeem.session", !.void = code[t.c].void]>>)
        PROVE  TasksFine'
    <3>1. PICK x : x = [t EXCEPT !.pc = "redeem.session", !.void = code[t.c].void]
      OBVIOUS
    <3>2. code[t.c].void \in BOOLEAN
      BY <2>2, <2>5, KeptKind
    <3>3. x \in RedeemFrames /\ x.pc \in Coded
      BY <2>2, <3>1, <3>2 DEF RedeemFrames, Redeems, Coded
    <3>4. QED
      BY <1>1, <1>2, <1>3, <2>5, <3>1, <3>3, CodedIs, CodedRank, TasksLast
  <2>6. UNCHANGED <<familyVars, listVars, outsideVars, voids, answers, settled>>
    BY <1>6 DEF RedeemNote
  <2>7. QED
    BY <1>2, <2>3, <2>4, <2>5, <2>6, TasksReturn, CodesChange, FamiliesSame DEF SameFamilies
<1>7. CASE RedeemHooks(w)
  <2>1. /\ t.pc = "redeem.hooks" /\ answers' = answers \cup {<<t.c, t.a>>}
        /\ given' = given \cup t.tokens /\ held' = held \cup {t.a} /\ Return(w)
        /\ UNCHANGED <<familyVars, listVars, denied, entering, drawn, finished, takenBack, code, voids, settled>>
    BY <1>1, <1>7 DEF RedeemHooks, Doing
  <2>2. t.pc \in Redeems /\ t.pc \in Late
    BY <2>1 DEF Redeems, Late
  <2>3. t.c \in Redemption /\ t.tokens \subseteq Family \X (1 .. MaxSecrets)
    BY <1>2, <2>2, CodedIs DEF RedeemFrames, Pairs
  <2>4. t.a \in Access
    BY <1>2, <2>2 DEF Knows, Noted
  <2>5. FamiliesTypeOK'
    BY <2>1, <2>3, <2>4 DEF FamiliesTypeOK, familyVars, listVars
  <2>6. CodesTypeOK'
    BY <2>1, <2>3, <2>4 DEF CodesTypeOK
  <2>7. QED
    BY <1>2, <2>1, <2>5, <2>6, TasksReturn
<1>8. CASE VoidsNext(w)
  <2>1. t \in [pc : {"voids"}, todo : SUBSET Redemption]
    BY <1>1, <1>2, <1>8, CodedIs DEF VoidsNext, Doing
  <2>2. ASSUME NEW c \in t.todo, Become(w, <<Settling(c), [t EXCEPT !.todo = @ \ {c}]>>) PROVE TasksFine'
    <3>1. PICK y : y = [t EXCEPT !.todo = @ \ {c}]
      OBVIOUS
    <3>2. y \in [pc : {"voids"}, todo : SUBSET Redemption] /\ y.pc = "voids" /\ c \in Redemption
      BY <2>1, <2>2, <3>1
    <3>3. y \in Frames
      BY <3>2 DEF Frames, CodeFrames
    <3>4. Rank(y) > 2
      BY <3>2, CodedRank
    <3>5. QED
      BY <1>0, <1>1, <1>2, <1>3, <2>2, <3>1, <3>2, <3>3, <3>4, TasksSettle
  <2>3. TasksFine'
    BY <1>1, <1>2, <1>8, <2>2, TasksReturn DEF VoidsNext
  <2>4. QED
    BY <1>8, <2>3, CodesSame, FamiliesSame DEF VoidsNext, SameFamilies
<1>9. QED
  BY <1>4, <1>5, <1>6, <1>7, <1>8

LEMMA CodeBeginTypes ==
  ASSUME FamiliesTypeOK, CodesTypeOK, TasksFine, load' = load, NEW w \in Worker,
         BeginCode(w) \/ BeginRedeem(w) \/ BeginVoids(w)
  PROVE  FamiliesTypeOK' /\ CodesTypeOK' /\ TasksFine'
<1>1. FamiliesTypeOK' /\ CodesTypeOK'
  BY FamiliesSame, CodesSame DEF BeginCode, BeginRedeem, BeginVoids, SameFamilies
<1>2. CASE BeginCode(w)
  <2>1. PICK c \in load.codes, s \in entering : Begin(w, "code", <<[pc |-> "code.save", c |-> c, s |-> s]>>)
    BY <1>2 DEF BeginCode
  <2>2. c \in Redemption /\ s \in Session
    BY FamiliesAssumption DEF FamiliesTypeOK
  <2>3. PICK x : x = [pc |-> "code.save", c |-> c, s |-> s]
    OBVIOUS
  <2>4. x \in Frames
    BY <2>2, <2>3 DEF Frames, CodeFrames
  <2>5. QED
    BY <1>1, <2>1, <2>3, <2>4, TasksBegun
<1>3. CASE BeginRedeem(w)
  <2>1. PICK c \in Redemption : Begin(w, "redeem", <<[pc |-> "redeem.use", c |-> c]>>)
    BY <1>3 DEF BeginRedeem
  <2>2. PICK x : x = [pc |-> "redeem.use", c |-> c]
    OBVIOUS
  <2>3. x \in Frames
    BY <2>2 DEF Frames, CodeFrames
  <2>4. QED
    BY <1>1, <2>1, <2>2, <2>3, TasksBegun
<1>4. CASE BeginVoids(w)
  <2>1. PICK x : x = [pc |-> "voids", todo |-> voids] /\ Begin(w, "voids", <<x>>)
    BY <1>4 DEF BeginVoids
  <2>2. x \in Frames
    BY <2>1 DEF Frames, CodeFrames, CodesTypeOK
  <2>3. QED
    BY <1>1, <2>1, <2>2, TasksBegun
<1>5. QED
  BY <1>2, <1>3, <1>4

LEMMA CodeDropTypes ==
  ASSUME FamiliesTypeOK, CodesTypeOK, TasksFine, load' = load, NEW c \in Redemption, CodeDrops(c)
  PROVE  FamiliesTypeOK' /\ CodesTypeOK' /\ TasksFine'
<1>1. /\ code' = [code EXCEPT ![c] = GoneCode]
      /\ UNCHANGED <<familyVars, listVars, outsideVars, task, voids, answers, settled>>
  BY DEF CodeDrops
<1>2. code' \in [Redemption -> CodeKinds]
  BY <1>1, KeptKind DEF CodeKinds
<1>3. Frames' = Frames
  BY DEF Frames, FamilyFrames, CodeFrames
<1>4. TasksFine'
  BY <1>1, <1>3 DEF TasksFine
<1>5. QED
  BY <1>1, <1>2, <1>4, CodesChange, FamiliesSame DEF SameFamilies

----------------------------------------------------------------------------
LEMMA TypesInit == Init => TypesInv
<1> SUFFICES ASSUME Init PROVE TypesInv
  OBVIOUS
<1>1. FamiliesTypeOK
  BY FamiliesAssumption DEF Init, FamiliesInit, FamiliesTypeOK, NoMembers
<1>2. CodesTypeOK
  BY DEF Init, CodesTypeOK
<1>3. TasksFine
  <2>1. PICK n : n = <<>>
    OBVIOUS
  <2>2. Len(n) = 0 /\ n \in Seq(Frames) /\ task = [w \in Worker |-> n]
    BY <2>1 DEF Init, FamiliesInit
  <2>3. Stacked(n)
    BY <2>2 DEF Stacked
  <2>4. QED
    BY <2>2, <2>3 DEF TasksFine
<1>4. QED
  BY <1>1, <1>2, <1>3 DEF TypesInv

LEMMA TypesStep == CodesInv /\ TypesInv /\ [Next]_allVars => TypesInv'
<1> SUFFICES ASSUME CodesInv, TypesInv, [Next]_allVars PROVE TypesInv'
  OBVIOUS
<1>1. FamilyInv /\ FamiliesTypeOK /\ CodesTypeOK /\ TasksFine
  BY DEF CodesInv, TypesInv
<1>2. CASE UNCHANGED allVars
  <2>1. UNCHANGED codeVars /\ SameFamilies /\ task' = task
    BY <1>2 DEF allVars, vars, SameFamilies
  <2>2. Frames' = Frames
    BY DEF Frames, FamilyFrames, CodeFrames
  <2>3. TasksFine'
    BY <1>1, <2>1, <2>2 DEF TasksFine
  <2>4. QED
    BY <1>1, <2>1, <2>3, FamiliesSame, CodesSame DEF TypesInv
<1>3. ASSUME load' = load, FamiliesNext, UNCHANGED codeVars PROVE TypesInv'
  BY <1>1, <1>3, WorkTypes, BeginTypes, StopTypes, CodesSame DEF FamiliesNext, TypesInv
<1>4. ASSUME load' = load, NEW w \in Worker, CodeWork(w) \/ BeginCode(w) \/ BeginRedeem(w) \/ BeginVoids(w)
      PROVE  TypesInv'
  <2>1. FamiliesTypeOK' /\ CodesTypeOK' /\ TasksFine'
    BY <1>1, <1>4, SettleTypes, RedeemTypes, NoteTypes, CodeBeginTypes DEF CodeWork, RedeemStep
  <2>2. QED
    BY <2>1 DEF TypesInv
<1>5. ASSUME load' = load, NEW c \in Redemption, CodeDrops(c) PROVE TypesInv'
  BY <1>1, <1>5, CodeDropTypes DEF TypesInv
<1>6. QED
  BY <1>2, <1>3, <1>4, <1>5 DEF Next

(* Every record, list and stack stays of its kind, whatever is interleaved,*)
(* fails or stops: no call nests deeper than four frames, and no family    *)
(* rotates past the secrets drawn for it.                                  *)
THEOREM CodesTypeCorrect == Spec => []TypeOK
<1>1. Spec => []TypesInv
  BY TypesInit, TypesStep, CodesInvAlways, PTL DEF Spec
<1>2. QED
  BY <1>1, TypesCorrect, PTL
=============================================================================
