---------------------------- MODULE SessionProofs ----------------------------
(***************************************************************************)
(* What holds of sessions from login to end, for every set of sessions,    *)
(* secrets, workers and loads: that each goes through its life one way,    *)
(* whoever closes it, and that no login's cookie enters one once raised.   *)
(*                                                                         *)
(* LifeInv says what each worker relies on of the records while others     *)
(* change them: of facts that last, so that no step of another undoes it.  *)
(***************************************************************************)
EXTENDS SessionLifecycle, FiniteSetTheorems, TLAPS

LoginPcs == {"login.stamp", "login.save", "login.check", "login.list", "login.keep", "login.putback",
           "login.relist", "login.issue"}
ClosePcs == {"close.add", "close.advance", "close.mark", "close.call", "close.remark", "close.unlist",
            "close.done"}
LivePcs == {"live.read", "live.end", "live.check", "enter.index", "raise.issue"}
RaisePcs == {"raise.retire", "raise.update"}
UsePcs == LivePcs \cup RaisePcs
RevokePcs == {"revoke.write", "revoke.list"}

(* The login a worker is about, its session not issued yet.                *)
HasLogin(t) == t.pc \in LoginPcs \/ (t.pc \in ClosePcs /\ t.for \in {"pushed", "earlier"})
LoginOf(t) == IF t.pc \in LoginPcs THEN t.login ELSE t.with
Unsaved(t) == t.pc \in {"login.stamp", "login.save"} \/ (t.pc \in ClosePcs /\ t.for = "earlier")
Pends(t, h) == HasLogin(t) /\ LoginOf(t).handle = h
Pending(h) == \E w \in Worker : Pends(task[w], h)
Issued(h) ==
  \/ \E s \in Secret : index[s] = h
  \/ \E w \in Worker : task[w].pc \in UsePcs /\ task[w].h = h

(* A session saved once, one that is over for good, and one a close has.   *)
Known(h) == h \in Handle /\ (record[h].state = "gone" => h \in over)
Ended(h) == record[h].state \in {"closed", "mark"} \/ (record[h].state = "gone" /\ h \in over)
Claimed(h) == record[h].state = "closing" \/ Ended(h)
Knowns == {h \in Handle : Known(h)}

LoginFine(login) ==
  /\ DOMAIN login = {"handle", "proven"}
  /\ login.handle \in Handle \cap drawn \cap load.handles /\ login.proven \in 0 .. now

LifeFine(t) ==
  /\ "pc" \in DOMAIN t /\ t.pc \in {"idle", "login.answer"} \cup LoginPcs \cup ClosePcs \cup UsePcs \cup RevokePcs
  /\ t.pc = "idle" => "told" \in DOMAIN t
  /\ "h" \in DOMAIN t => t.pc \in ClosePcs \cup UsePcs
  /\ t.pc \in LoginPcs => "login" \in DOMAIN t
  /\ t.pc = "login.save" => "openedAt" \in DOMAIN t /\ t.openedAt \in 0 .. now
  /\ t.pc = "login.keep" => {"out", "todo"} \subseteq DOMAIN t /\ t.out \subseteq Knowns /\ t.todo \subseteq t.out
  /\ t.pc = "login.putback" => {"todo", "ending"} \subseteq DOMAIN t /\ t.todo \cup t.ending \subseteq Knowns
  /\ t.pc = "login.relist" => {"todo", "member"} \subseteq DOMAIN t /\ t.todo \cup {t.member} \subseteq Knowns
  /\ t.pc = "login.answer" => "s" \in DOMAIN t /\ t.s \in Secret \cap drawn
  /\ t.pc \in ClosePcs =>
       /\ {"for", "h", "rest", "failing", "with"} \subseteq DOMAIN t
       /\ t.for \in {"request", "sweep", "follow", "pushed", "earlier", "revoked"}
       /\ {t.h} \cup t.rest \subseteq Knowns
  /\ t.pc = "close.advance" => t.h \in closings \/ Ended(t.h)
  /\ t.pc = "close.call" =>
       /\ {"todo", "missed"} \subseteq DOMAIN t /\ t.todo \subseteq load.participants
       /\ Claimed(t.h)
       /\ t.missed \/ load.participants \subseteq t.todo \cup finished[t.h]
  /\ t.pc \in {"close.mark", "close.remark", "close.unlist", "close.done"} => Ended(t.h)
  /\ t.pc \in UsePcs => {"s", "h"} \subseteq DOMAIN t /\ t.s \in Secret /\ Known(t.h)
  /\ t.pc \in LivePcs => {"for", "found", "again"} \subseteq DOMAIN t /\ t.for \in {"enter", "raise"}
  /\ t.pc \in RaisePcs => "new" \in DOMAIN t /\ t.new \in Secret \cap drawn
  /\ t.pc \in RevokePcs => "subject" \in DOMAIN t /\ t.subject \in Subject
  /\ t.pc = "revoke.write" => "deadline" \in DOMAIN t /\ t.deadline \in Nat
  /\ t.pc = "revoke.list" => "owed" \in DOMAIN t
  /\ HasLogin(t) => LoginFine(LoginOf(t))
  /\ Unsaved(t) => ~Known(LoginOf(t).handle) /\ record[LoginOf(t).handle] = Gone
  /\ HasLogin(t) /\ ~Unsaved(t) => Known(LoginOf(t).handle)

RecordFine(r) ==
  \/ r \in {Gone, [state |-> "mark"]}
  \/ /\ r.state \in Full /\ DOMAIN r = {"state", "openedAt", "proven", "raised"}
     /\ r.openedAt \in 0 .. now /\ r.proven \in Nat /\ r.raised \in BOOLEAN

StateFine ==
  /\ load \in Loads
  /\ now \in 0 .. MaxNow
  /\ DOMAIN record = Handle /\ \A h \in Handle : RecordFine(record[h])
  /\ over \subseteq Knowns /\ closings \subseteq Knowns
  /\ listed \in [Subject -> SUBSET Handle] /\ \A s \in Subject : listed[s] \subseteq Knowns
  /\ index \in [Secret -> Handle \cup {NoHandle}] /\ \A s \in Secret : index[s] # NoHandle => Known(index[s])
  /\ drawn \subseteq Handle \cup Secret /\ first \cup carried \subseteq Secret \cap drawn
  /\ Knowns \subseteq drawn \cap load.handles
  /\ finished \in [Handle -> SUBSET Participant]
  /\ ClosingKept

LifeInv ==
  /\ DOMAIN task = Worker
  /\ StateFine
  /\ \A w \in Worker : LifeFine(task[w])
  /\ \A v, w \in Worker : \A h \in Handle : Pends(task[v], h) /\ Pends(task[w], h) => v = w
  /\ \A h \in Handle : ~(Pending(h) /\ Issued(h))

----------------------------------------------------------------------------
(* Cookies.                                                                *)
Retired(h) == \A s \in first : index[s] # h

CookieFine(t) ==
  /\ t.pc \in UsePcs =>
       /\ t.s \in carried
       /\ \A s \in first : index[s] = t.h => s = t.s
  /\ t.pc \in {"live.check", "enter.index", "raise.issue"} \/ (t.pc = "live.read" /\ t.again) =>
       "raised" \in DOMAIN t.found /\ (t.found.raised => Retired(t.h))
  /\ t.pc \in RaisePcs => t.new \in drawn \ (carried \cup first) /\ index[t.new] = t.h
  /\ t.pc = "raise.update" => Retired(t.h)
  /\ t.pc = "login.answer" => t.s \in first
  /\ t.pc = "idle" =>
       (t.told.said = "entered" => t.told.s \in drawn /\ (t.told.raised => t.told.s \notin first))
  /\ HasLogin(t) /\ record[LoginOf(t).handle].state \in Full => ~record[LoginOf(t).handle].raised

CookieInv ==
  /\ \A w \in Worker : CookieFine(task[w])
  /\ \A h \in Handle : record[h].state \in Full /\ record[h].raised => Retired(h)
  /\ \A r, s \in first : index[r] = index[s] /\ index[s] # NoHandle => r = s
  /\ \A s \in carried \ first : index[s] # NoHandle => Retired(index[s])
  /\ \A v, w \in Worker :
       task[v].pc \in RaisePcs /\ task[w].pc \in RaisePcs /\ task[v].new = task[w].new => v = w

----------------------------------------------------------------------------
(* A login past its check of the boundary.                                 *)
Checked(t) == t.pc \in {"login.list", "login.keep", "login.issue"} \/ (t.pc \in ClosePcs /\ t.for = "pushed")

----------------------------------------------------------------------------
(* What lasts, whoever steps: a frame that was fine stays so.              *)
Unborn(h) == ~Known(h) /\ record[h] = Gone

Lasts ==
  /\ load' = load /\ now' \in 0 .. MaxNow /\ now <= now'
  /\ drawn \subseteq drawn'
  /\ \A h \in Handle :
       /\ Known(h) => Known(h)'
       /\ Ended(h) => Ended(h)'
       /\ Claimed(h) => Claimed(h)'
       /\ h \in closings => h \in closings' \/ Ended(h)'
       /\ finished[h] \subseteq finished'[h]

LEMMA FrameLasts ==
  ASSUME NEW t, LifeFine(t), Lasts, now \in 0 .. MaxNow,
         Unsaved(t) => Unborn(LoginOf(t).handle)'
  PROVE  LifeFine(t)'
<1>1. Knowns \subseteq Knowns'
  BY DEF Knowns, Lasts
<1>2. \A k : Known(k) => Known(k)'
  BY DEF Lasts, Known
<1>3. ASSUME NEW x, LoginFine(x) PROVE LoginFine(x)'
  BY <1>3, RevocationAssumption DEF Lasts, LoginFine
<1>4. HasLogin(t) => LoginFine(LoginOf(t))'
  BY <1>3 DEF LifeFine, HasLogin, LoginOf
<1>5. 0 .. now \subseteq 0 .. now'
  BY RevocationAssumption DEF Lasts
<1>6. ASSUME t.pc \in ClosePcs
      PROVE  /\ t.h \in Handle /\ Known(t.h)
             /\ (Ended(t.h) => Ended(t.h)') /\ (Claimed(t.h) => Claimed(t.h)')
             /\ (t.h \in closings => t.h \in closings' \/ Ended(t.h)')
             /\ finished[t.h] \subseteq finished'[t.h]
  BY <1>6 DEF LifeFine, Knowns, Lasts
<1>7. load' = load /\ Secret \cap drawn \subseteq Secret \cap drawn'
  BY DEF Lasts
<1>8. QED
  BY <1>1, <1>2, <1>4, <1>5, <1>6, <1>7 DEF LifeFine, Unborn, HasLogin, LoginOf, Unsaved, LoginPcs, ClosePcs, UsePcs, LivePcs, RaisePcs

LEMMA IssuedKnown == LifeInv => \A h \in Handle : (Issued(h) => Known(h)) /\ (Known(h) => h \in drawn \cap load.handles)
<1> SUFFICES ASSUME LifeInv, NEW h \in Handle PROVE (Issued(h) => Known(h)) /\ (Known(h) => h \in drawn \cap load.handles)
  OBVIOUS
<1>1. ASSUME NEW s \in Secret, index[s] = h PROVE Known(h)
  BY <1>1, LifecycleAssumption DEF LifeInv, StateFine
<1>2. ASSUME NEW w \in Worker, task[w].pc \in UsePcs, task[w].h = h PROVE Known(h)
  BY <1>2 DEF LifeInv, LifeFine
<1>3. QED
  BY <1>1, <1>2 DEF Issued, LifeInv, StateFine, Knowns

LEMMA PendingDrawn ==
  ASSUME LifeInv, NEW w \in Worker, NEW h, Pends(task[w], h)
  PROVE  h \in Handle /\ h \in drawn /\ ~Issued(h) /\ \A v \in Worker : Pends(task[v], h) => v = w
<1>1. LifeFine(task[w])
  BY DEF LifeInv
<1>2. h \in Handle /\ h \in drawn
  BY <1>1 DEF LifeFine, LoginFine, Pends
<1>3. QED
  BY <1>2 DEF LifeInv, Pending

(* A step of w to n: the rest of the state stays fine, and no other worker *)
(* loses the handle it drew.                                               *)
LEMMA Step ==
  ASSUME LifeInv, NEW w \in Worker, NEW n, task' = [task EXCEPT ![w] = n], Lasts, StateFine', LifeFine(n)',
         \A h \in Handle : Unborn(h) /\ ~Pends(task[w], h) => Unborn(h)',
         \A h : Pends(n, h) => Pends(task[w], h) \/ h \notin drawn,
         \A h \in Handle :
           (\E s \in Secret : index'[s] = h) \/ (n.pc \in UsePcs /\ n.h = h) =>
             Issued(h) \/ (Pends(task[w], h) /\ ~Pends(n, h))
  PROVE  LifeInv'
<1>1. DOMAIN task' = Worker /\ task'[w] = n /\ \A v \in Worker \ {w} : task'[v] = task[v]
  BY DEF LifeInv
<1>2. ASSUME NEW v \in Worker \ {w}, NEW t, t = task[v] PROVE LifeFine(t)'
  <2>1. LifeFine(t) /\ now \in 0 .. MaxNow
    BY <1>2 DEF LifeInv, StateFine
  <2>2. ASSUME Unsaved(t) PROVE Unborn(LoginOf(t).handle)'
    <3>1. PICK h : h = LoginOf(t).handle
      OBVIOUS
    <3>2. Pends(t, h) /\ Unborn(h)
      BY <2>1, <2>2, <3>1 DEF LifeFine, Pends, Unborn, Unsaved, HasLogin, LoginPcs
    <3>3. h \in Handle /\ ~Pends(task[w], h)
      BY <1>2, <3>2, PendingDrawn
    <3>4. Unborn(h)'
      BY <3>2, <3>3
    <3>5. QED
      BY <3>1, <3>4
  <2>3. QED
    BY <2>1, <2>2, FrameLasts
<1>3. \A v \in Worker : \A t : t = task'[v] => LifeFine(t)'
  BY <1>1, <1>2
<1>4. ASSUME NEW u \in Worker, NEW v \in Worker, NEW h \in Handle, Pends(task'[u], h), Pends(task'[v], h)
      PROVE  u = v
  <2>1. CASE u = w /\ v # w
    BY <1>1, <1>4, <2>1, PendingDrawn
  <2>2. CASE v = w /\ u # w
    BY <1>1, <1>4, <2>2, PendingDrawn
  <2>3. CASE u # w /\ v # w
    BY <1>1, <1>4, <2>3, PendingDrawn
  <2>4. QED
    BY <2>1, <2>2, <2>3
<1>5. ASSUME NEW h \in Handle, Pending(h)', Issued(h)' PROVE FALSE
  <2>1. Issued(h) \/ (Pends(task[w], h) /\ ~Pends(n, h))
    <3>1. PICK i : i = index'
      OBVIOUS
    <3>2. ASSUME NEW v \in Worker, v # w, task'[v].pc \in UsePcs, task'[v].h = h PROVE Issued(h)
      BY <1>1, <3>2 DEF Issued
    <3>3. QED
      BY <1>1, <1>5, <3>2 DEF Issued
  <2>2. PICK v \in Worker : Pends(task'[v], h)
    BY <1>5 DEF Pending, Pends, HasLogin, LoginOf
  <2>3. CASE v = w
    BY <1>1, <2>1, <2>2, <2>3, PendingDrawn, IssuedKnown
  <2>4. CASE v # w
    BY <1>1, <2>1, <2>2, <2>4, PendingDrawn
  <2>5. QED
    BY <2>3, <2>4
<1>6. QED
  <2>1. (\A u, v \in Worker : \A h \in Handle : Pends(task[u], h) /\ Pends(task[v], h) => u = v)'
    BY <1>4 DEF Pends, HasLogin, LoginOf
  <2>2. (\A v \in Worker : LifeFine(task[v]))'
    BY <1>3 DEF LifeFine, LoginFine, Unsaved, HasLogin, LoginOf, Known, Ended, Claimed
  <2>3. QED
    BY <1>1, <1>5, <2>1, <2>2 DEF LifeInv

(* A step of w that changes nothing but what it is doing, and the listing. *)
Listed(l) == l \in [Subject -> SUBSET Handle] /\ \A s \in Subject : l[s] \subseteq Knowns

SameButListed == UNCHANGED <<load, revocationVars, record, over, closings, cookieVars, finished>>

LEMMA SameLasts ==
  ASSUME LifeInv, SameButListed, Listed(listed')
  PROVE  /\ Lasts /\ StateFine' /\ index' = index
         /\ \A h : (Known(h)' <=> Known(h)) /\ (Unborn(h)' <=> Unborn(h))
         /\ \A t : LifeFine(t) => LifeFine(t)'
<1>1. /\ load' = load /\ now' = now /\ record' = record /\ over' = over /\ closings' = closings
      /\ index' = index /\ drawn' = drawn /\ carried' = carried /\ first' = first /\ finished' = finished
  BY DEF SameButListed, cookieVars, revocationVars
<1>2. \A h : /\ Known(h)' <=> Known(h)
             /\ Unborn(h)' <=> Unborn(h)
             /\ Ended(h)' <=> Ended(h)
             /\ Claimed(h)' <=> Claimed(h)
  BY <1>1 DEF Known, Unborn, Ended, Claimed
<1>3. Knowns' = Knowns
  BY <1>1 DEF Knowns, Known
<1>4. StateFine'
  BY <1>1, <1>3, Zenon DEF LifeInv, StateFine, Listed, Known, RecordFine, ClosingKept
<1>5. Lasts
  BY <1>1, <1>2, RevocationAssumption DEF Lasts, LifeInv, StateFine
<1>6. ASSUME NEW t, LifeFine(t) PROVE LifeFine(t)'
  <2>1. Unsaved(t) => Unborn(LoginOf(t).handle)'
    BY <1>2, <1>6 DEF LifeFine, Unborn
  <2>2. QED
    BY <1>5, <1>6, <2>1, FrameLasts DEF LifeInv, StateFine
<1>7. QED
  BY <1>1, <1>2, <1>4, <1>5, <1>6

LEMMA Quiet ==
  ASSUME LifeInv, NEW w \in Worker, NEW n, task' = [task EXCEPT ![w] = n], SameButListed, Listed(listed'),
         LifeFine(n), \A h : Pends(n, h) => Pends(task[w], h), n.pc \in UsePcs => Issued(n.h)
  PROVE  LifeInv'
<1>1. LifeFine(n)'
  BY SameLasts
<1>2. \A h \in Handle : (\E s \in Secret : index'[s] = h) \/ (n.pc \in UsePcs /\ n.h = h) => Issued(h)
  BY SameLasts DEF Issued
<1>3. QED
  BY <1>1, <1>2, SameLasts, Step

(* A step of w that writes the record of one session.                      *)
SameButRecord == UNCHANGED <<load, now, over, closings, listed, index, drawn, first, finished>>

LEMMA RecordStep ==
  ASSUME LifeInv, NEW h \in Handle, NEW r, RecordFine(r), record' = [record EXCEPT ![h] = r], SameButRecord,
         carried' \subseteq Secret \cap drawn,
         r.state # "gone", h \in drawn \cap load.handles,
         Claimed(h) => r.state \in {"closing", "closed", "mark"},
         Ended(h) => r.state \in {"closed", "mark"},
         r.state = "closing" => h \in closings
  PROVE  /\ Lasts /\ StateFine' /\ index' = index
         /\ record'[h] = r /\ Known(h)'
         /\ \A g \in Handle \ {h} : /\ record'[g] = record[g]
                                    /\ Unborn(g) => Unborn(g)'
<1>1. /\ load' = load /\ now' = now /\ over' = over /\ closings' = closings /\ listed' = listed
      /\ index' = index /\ drawn' = drawn /\ first' = first /\ finished' = finished
  BY DEF SameButRecord
<1>2. DOMAIN record' = Handle /\ record'[h] = r /\ \A g \in Handle \ {h} : record'[g] = record[g]
  BY DEF LifeInv, StateFine
<1>3. Known(h)' /\ \A g \in Handle : Known(g) => Known(g)'
  BY <1>1, <1>2 DEF Known
<1>4. \A g \in Handle : (Ended(g) => Ended(g)') /\ (Claimed(g) => Claimed(g)')
  BY <1>1, <1>2 DEF Ended, Claimed
<1>5. \A g \in Handle \ {h} : (Unborn(g) => Unborn(g)') /\ (Known(g)' <=> Known(g))
  BY <1>1, <1>2 DEF Unborn, Known
<1>6. Lasts
  BY <1>1, <1>3, <1>4, RevocationAssumption DEF Lasts, LifeInv, StateFine
<1>7. StateFine'
  <2>1. Knowns \subseteq Knowns' /\ Knowns' \subseteq Knowns \cup {h}
    BY <1>3, <1>5 DEF Knowns
  <2>2. \A g \in Handle : RecordFine(record'[g])
    BY <1>2 DEF LifeInv, StateFine
  <2>3. (\A g \in Handle : RecordFine(record[g]))'
    BY <1>1, <2>2 DEF RecordFine
  <2>4. ClosingKept'
    BY <1>1, <1>2 DEF LifeInv, StateFine, ClosingKept
  <2>5. \A s \in Secret : index[s] # NoHandle => \A g \in {index[s]} : Known(g)'
    BY <1>3 DEF LifeInv, StateFine
  <2>6. (\A s \in Secret : index[s] # NoHandle => Known(index[s]))'
    BY <1>1, <2>5 DEF Known
  <2>7. QED
    BY <1>1, <1>2, <2>1, <2>3, <2>4, <2>6 DEF LifeInv, StateFine
<1>8. QED
  BY <1>1, <1>2, <1>3, <1>5, <1>6, <1>7

----------------------------------------------------------------------------
(* Closes.                                                                 *)
LEMMA ClosingFine ==
  ASSUME NEW t, LifeFine(t), t.pc \in ClosePcs, NEW h, Known(h), NEW rest, rest \subseteq Knowns,
         NEW failing
  PROVE  LET n == Closing(t.for, h, rest, failing, t.with) IN
         LifeFine(n) /\ (\A g : Pends(n, g) => Pends(t, g)) /\ n.pc \notin UsePcs
BY DEF Closing, LifeFine, Known, Knowns, Pends, HasLogin, LoginOf, Unsaved, ClosePcs, LoginPcs, UsePcs, LivePcs,
       RaisePcs, RevokePcs

LEMMA IdleFine ==
  ASSUME NEW answer
  PROVE  LifeFine(Idle(answer)) /\ (\A h : ~Pends(Idle(answer), h)) /\ Idle(answer).pc \notin UsePcs
BY DEF Idle, LifeFine, Pends, HasLogin, Unsaved, ClosePcs, LoginPcs, UsePcs, LivePcs, RaisePcs, RevokePcs

(* What a close goes on with, or the operation that called it.             *)
Follows(w, n) ==
  /\ task' = [task EXCEPT ![w] = n]
  /\ LifeFine(n) /\ (\A h : Pends(n, h) => Pends(task[w], h)) /\ n.pc \notin UsePcs

LEMMA AnswerFollows ==
  ASSUME NEW w, NEW answer, Answer(w, answer)
  PROVE  \E n : Follows(w, n)
BY IdleFine DEF Answer, Go, Follows

LEMMA NextFollows ==
  ASSUME LifeInv, NEW w \in Worker, task[w].pc \in ClosePcs, NEW result, CloseNext(w, result)
  PROVE  \E n : Follows(w, n)
<1>1. PICK t : t = task[w]
  OBVIOUS
<1>2. LifeFine(t) /\ t.pc \in ClosePcs /\ t.rest \subseteq Knowns
  BY <1>1 DEF LifeInv, LifeFine
<1>3. t.for \in {"request", "sweep", "follow", "pushed", "earlier", "revoked"}
  BY <1>2 DEF LifeFine
<1>4. ASSUME NEW h \in t.rest, NEW failing, Go(w, Closing(t.for, h, t.rest \ {h}, failing, t.with))
      PROVE  \E n : Follows(w, n)
  BY <1>1, <1>2, <1>4, ClosingFine DEF Go, Follows, Knowns
<1>5. CASE t.for \in {"request", "revoked"}
  BY <1>1, <1>5, AnswerFollows DEF CloseNext
<1>6. CASE t.for \in {"sweep", "follow", "pushed"} /\ t.rest # {}
  BY <1>1, <1>4, <1>6 DEF CloseNext
<1>7. CASE t.for \in {"sweep", "follow"} /\ t.rest = {}
  BY <1>1, <1>7, AnswerFollows DEF CloseNext
<1>8. ASSUME NEW n, \/ t.for = "pushed" /\ n = [pc |-> "login.issue", login |-> t.with]
                    \/ t.for = "earlier" /\ n = [pc |-> "login.stamp", login |-> t.with],
             task' = [task EXCEPT ![w] = n]
      PROVE  Follows(w, n)
  <2>1. LifeFine(n) /\ (\A h : Pends(n, h) => Pends(t, h)) /\ n.pc \notin UsePcs
    BY <1>2, <1>8 DEF LifeFine, Pends, HasLogin, LoginOf, Unsaved, ClosePcs, LoginPcs, UsePcs, LivePcs, RaisePcs, RevokePcs
  <2>2. QED
    BY <1>1, <1>8, <2>1 DEF Follows
<1>9. CASE t.for = "pushed" /\ t.rest = {}
  <2>1. task' = [task EXCEPT ![w] = [pc |-> "login.issue", login |-> t.with]]
    BY <1>1, <1>9 DEF CloseNext, Go
  <2>2. QED
    BY <1>8, <1>9, <2>1
<1>10. CASE t.for = "earlier"
  <2>1. task' = [task EXCEPT ![w] = [pc |-> "login.stamp", login |-> t.with]]
    BY <1>1, <1>10 DEF CloseNext, Go
  <2>2. QED
    BY <1>8, <1>10, <2>1
<1>11. QED
  BY <1>3, <1>5, <1>6, <1>7, <1>9, <1>10

LEMMA ThrownFollows ==
  ASSUME LifeInv, NEW w \in Worker, task[w].pc \in ClosePcs, Thrown(w)
  PROVE  \E n : Follows(w, n)
BY NextFollows, AnswerFollows DEF Thrown

(* Nothing changes but what w is doing.                                    *)
LEMMA QuietFollows ==
  ASSUME LifeInv, NEW w \in Worker, NEW n, Follows(w, n), SameButListed, Listed(listed')
  PROVE  LifeInv'
BY Quiet DEF Follows

LEMMA SameListed ==
  ASSUME LifeInv, load' = load, UNCHANGED <<revocationVars, record, over, closings, listed, cookieVars, finished>>
  PROVE  SameButListed /\ Listed(listed')
BY DEF SameButListed, Listed, LifeInv, StateFine

CloseParts == {"pc", "for", "h", "rest", "failing", "with"}

(* A close further on: what it closes and for whom are as they were.       *)
Onward(t, n) ==
  /\ CloseParts \subseteq DOMAIN n /\ n.pc \in ClosePcs
  /\ n.for = t.for /\ n.h = t.h /\ n.rest = t.rest /\ n.failing = t.failing /\ n.with = t.with

LEMMA OnwardFine ==
  ASSUME NEW t, t.pc \in ClosePcs, LifeFine(t)', NEW n, Onward(t, n),
         n.pc = "close.advance" => (t.h \in closings \/ Ended(t.h))',
         n.pc = "close.call" => {"todo", "missed"} \subseteq DOMAIN n /\
            (/\ n.todo \subseteq load.participants
             /\ Claimed(t.h)
             /\ n.missed \/ load.participants \subseteq n.todo \cup finished[t.h])',
         n.pc \in {"close.mark", "close.remark", "close.unlist", "close.done"} => Ended(t.h)'
  PROVE  LifeFine(n)' /\ (\A h : Pends(n, h) => Pends(t, h)) /\ n.pc \notin UsePcs
<1>1. (\A h : Pends(n, h) => Pends(t, h)) /\ n.pc \notin UsePcs
  BY DEF Onward, Pends, HasLogin, LoginOf, ClosePcs, LoginPcs, UsePcs, LivePcs, RaisePcs
<1>2. LifeFine(n)'
  BY DEF Onward, CloseParts, LifeFine, HasLogin, LoginOf, Unsaved, ClosePcs, LoginPcs, UsePcs, LivePcs, RaisePcs, RevokePcs
<1>3. QED
  BY <1>1, <1>2

(* A close that writes no record goes onward, or is followed.              *)
LEMMA CloseQuiet ==
  ASSUME LifeInv, NEW w \in Worker, task[w].pc \in ClosePcs, SameButListed, Listed(listed'),
         NEW n, Onward(task[w], n), task' = [task EXCEPT ![w] = n],
         n.pc \in {"close.mark", "close.remark", "close.unlist", "close.done"} => Ended(task[w].h),
         n.pc = "close.advance" => task[w].h \in closings \/ Ended(task[w].h),
         n.pc = "close.call" =>
            /\ {"todo", "missed"} \subseteq DOMAIN n
            /\ n.todo \subseteq load.participants
            /\ Claimed(task[w].h)
            /\ n.missed \/ load.participants \subseteq n.todo \cup finished[task[w].h]
  PROVE  LifeInv'
<1>1. PICK t : t = task[w]
  OBVIOUS
<1>2. LifeFine(t) /\ LifeFine(t)'
  BY <1>1, SameLasts DEF LifeInv
<1>3. /\ load' = load /\ closings' = closings /\ finished' = finished
      /\ \A h : (Ended(h)' <=> Ended(h)) /\ (Claimed(h)' <=> Claimed(h))
  BY DEF SameButListed, cookieVars, revocationVars, Ended, Claimed
<1>4. LifeFine(n)' /\ (\A h : Pends(n, h) => Pends(t, h)) /\ n.pc \notin UsePcs
  BY <1>1, <1>2, <1>3, OnwardFine
<1>5. \A h \in Handle : (\E s \in Secret : index'[s] = h) => Issued(h)
  BY SameLasts DEF Issued
<1>6. QED
  BY <1>1, <1>4, <1>5, SameLasts, Step

LEMMA CloseAt ==
  ASSUME LifeInv, NEW w \in Worker, NEW t, t = task[w], t.pc \in ClosePcs
  PROVE  /\ LifeFine(t) /\ CloseParts \subseteq DOMAIN t /\ t.h \in Handle /\ Known(t.h)
         /\ t.pc = "close.advance" => t.h \in closings \/ Ended(t.h)
         /\ t.pc \in {"close.mark", "close.remark", "close.unlist", "close.done"} => Ended(t.h)
<1>1. LifeFine(t)
  BY DEF LifeInv
<1>2. QED
  BY <1>1 DEF LifeFine, CloseParts, Known, Knowns

LEMMA CallAt ==
  ASSUME NEW t, LifeFine(t), t.pc = "close.call"
  PROVE  /\ t.todo \subseteq load.participants /\ Claimed(t.h)
         /\ t.missed \/ load.participants \subseteq t.todo \cup finished[t.h]
BY DEF LifeFine, ClosePcs

LEMMA MovesOn ==
  ASSUME NEW t, CloseParts \subseteq DOMAIN t, NEW pc \in ClosePcs, NEW n,
         n = [t EXCEPT !.pc = pc] \/ n = [Closing(t.for, t.h, t.rest, t.failing, t.with) EXCEPT !.pc = pc]
  PROVE  Onward(t, n) /\ n.pc = pc
BY DEF Onward, CloseParts, Closing

LEMMA CallsOn ==
  ASSUME NEW t, CloseParts \subseteq DOMAIN t, NEW todo, NEW missed, NEW n, n = Calling(t, todo, missed)
  PROVE  /\ Onward(t, n) /\ n.pc = "close.call" /\ {"todo", "missed"} \subseteq DOMAIN n
         /\ n.todo = todo /\ n.missed = missed
BY DEF Onward, CloseParts, Calling, ClosePcs

(* A step of w that writes the record of a session it knows, or has drawn. *)
LEMMA RecordGoes ==
  ASSUME LifeInv, NEW w \in Worker, NEW n, task' = [task EXCEPT ![w] = n],
         Lasts, StateFine', index' = index,
         NEW h \in Handle, Known(h) \/ Pends(task[w], h),
         \A g \in Handle \ {h} : Unborn(g) => Unborn(g)',
         LifeFine(n)', \A g : Pends(n, g) => Pends(task[w], g), n.pc \notin UsePcs
  PROVE  LifeInv'
<1>1. \A g \in Handle : Unborn(g) /\ ~Pends(task[w], g) => Unborn(g)'
  BY DEF Unborn
<1>2. \A g \in Handle : (\E s \in Secret : index'[s] = g) => Issued(g)
  BY DEF Issued
<1>3. QED
  BY <1>1, <1>2, Step

(* A close that writes its session's record, forward.                      *)
LEMMA CloseWrites ==
  ASSUME LifeInv, NEW w \in Worker, NEW t, t = task[w], t.pc \in ClosePcs,
         NEW n, Onward(t, n), task' = [task EXCEPT ![w] = n],
         NEW r, record' = [record EXCEPT ![t.h] = r], SameButRecord, carried' = carried,
         RecordFine(r), r.state \in {"closing", "closed", "mark"},
         Ended(t.h) => r.state \in {"closed", "mark"},
         r.state = "closing" => t.h \in closings,
         n.pc # "close.advance",
         n.pc = "close.call" => {"todo", "missed"} \subseteq DOMAIN n /\ n.todo = load.participants,
         n.pc \in {"close.mark", "close.remark", "close.unlist", "close.done"} => r.state \in {"closed", "mark"}
  PROVE  LifeInv'
<1>1. PICK h : h = t.h
  OBVIOUS
<1>2. LifeFine(t) /\ h \in Handle /\ Known(h) /\ h \in drawn \cap load.handles
  BY <1>1, CloseAt, IssuedKnown
<1>3. carried' \subseteq Secret \cap drawn
  BY DEF LifeInv, StateFine
<1>4. /\ Lasts /\ StateFine' /\ index' = index /\ record'[h] = r /\ Known(h)'
      /\ \A g \in Handle \ {h} : Unborn(g) => Unborn(g)'
  BY <1>1, <1>2, <1>3, RecordStep
<1>5. ASSUME Unsaved(t) PROVE Unborn(LoginOf(t).handle)'
  <2>1. PICK g : g = LoginOf(t).handle
    OBVIOUS
  <2>2. Unborn(g) /\ g \in Handle /\ g # h
    BY <1>2, <1>5, <2>1 DEF LifeFine, Unborn, Unsaved, HasLogin, LoginFine, LoginPcs
  <2>3. Unborn(g)'
    BY <1>4, <2>2
  <2>4. QED
    BY <2>1, <2>3
<1>6. LifeFine(t)'
  BY <1>2, <1>4, <1>5, FrameLasts DEF LifeInv, StateFine
<1>7. Claimed(h)' /\ (r.state \in {"closed", "mark"} => Ended(h)') /\ load' = load
  BY <1>4 DEF Claimed, Ended, SameButRecord
<1>8. n.pc = "close.call" => load'.participants \subseteq n.todo \cup finished'[h]
  BY <1>7
<1>9. LifeFine(n)' /\ (\A g : Pends(n, g) => Pends(t, g)) /\ n.pc \notin UsePcs
  BY <1>1, <1>6, <1>7, <1>8, OnwardFine
<1>10. QED
  BY <1>1, <1>2, <1>4, <1>9, RecordGoes

LEMMA CloseAdvanceLife ==
  ASSUME LifeInv, load' = load, NEW w \in Worker, CloseAdvance(w)
  PROVE  LifeInv'
<1>1. PICK t, h : t = task[w] /\ h = t.h
  OBVIOUS
<1>2. t.pc = "close.advance" /\ t.pc \in ClosePcs
  BY <1>1 DEF CloseAdvance, At, ClosePcs
<1>3. /\ LifeFine(t) /\ CloseParts \subseteq DOMAIN t /\ h \in Handle /\ Known(h)
      /\ h \in closings \/ Ended(h)
  BY <1>1, <1>2, CloseAt
<1>4. RecordFine(record[h])
  BY <1>3 DEF LifeInv, StateFine
<1>5. CASE record[h].state \in {"gone", "closed", "mark"}
  <2>1. PICK pc \in ClosePcs : /\ task' = [task EXCEPT ![w] = [t EXCEPT !.pc = pc]] /\ UNCHANGED record
                               /\ pc \in {"close.mark", "close.remark", "close.unlist", "close.done"}
    BY <1>1, <1>5 DEF CloseAdvance, Go, ClosePcs
  <2>2. SameButListed /\ Listed(listed')
    BY <2>1, SameListed DEF CloseAdvance
  <2>3. Ended(h)
    BY <1>3, <1>5 DEF Ended, Known
  <2>4. PICK n : n = [t EXCEPT !.pc = pc]
    OBVIOUS
  <2>5. Onward(t, n) /\ n.pc = pc
    BY <1>3, <2>4, MovesOn
  <2>6. QED
    BY <1>1, <1>2, <2>1, <2>2, <2>3, <2>4, <2>5, CloseQuiet
<1>6. CASE record[h].state \in {"open", "closing"}
  <2>1. PICK n, r, missed : /\ n = Calling(t, load.participants, missed) /\ missed = FALSE
                            /\ r = [record[h] EXCEPT !.state = "closing"]
    OBVIOUS
  <2>2. record' = [record EXCEPT ![h] = r] /\ task' = [task EXCEPT ![w] = n]
    BY <1>1, <1>6, <2>1 DEF CloseAdvance, Go
  <2>3. RecordFine(r) /\ r.state = "closing"
    BY <1>4, <1>6, <2>1 DEF RecordFine, Gone, Full
  <2>4. h \in closings /\ ~Ended(h)
    BY <1>3, <1>6 DEF Ended
  <2>5. SameButRecord /\ carried' = carried
    BY DEF CloseAdvance, SameButRecord, cookieVars, revocationVars
  <2>6. Onward(t, n) /\ n.pc = "close.call" /\ {"todo", "missed"} \subseteq DOMAIN n
         /\ n.todo = load.participants
    BY <1>3, <2>1, CallsOn
  <2>7. QED
    BY <1>1, <1>2, <2>2, <2>3, <2>4, <2>5, <2>6, CloseWrites
<1>7. QED
  BY <1>4, <1>5, <1>6 DEF RecordFine, Gone, Full


LEMMA CloseQuietly ==
  ASSUME LifeInv, load' = load, NEW w \in Worker, task[w].pc \in ClosePcs,
         NEW result, CloseNext(w, result) \/ Thrown(w),
         UNCHANGED <<revocationVars, record, over, closings, listed, cookieVars, finished>>
  PROVE  LifeInv'
BY NextFollows, ThrownFollows, QuietFollows, SameListed

LEMMA MarkLife ==
  ASSUME LifeInv, load' = load, NEW w \in Worker, NEW from \in {"close.mark", "close.remark"},
         NEW next \in {"close.unlist", "close.done"}, Mark(w, from, next)
  PROVE  LifeInv'
<1>1. PICK t, h : t = task[w] /\ h = t.h
  OBVIOUS
<1>2. t.pc = from /\ t.pc \in ClosePcs
  BY <1>1 DEF Mark, At, ClosePcs
<1>3. LifeFine(t) /\ CloseParts \subseteq DOMAIN t /\ h \in Handle /\ Known(h) /\ Ended(h)
  BY <1>1, <1>2, CloseAt
<1>4. CASE record[h].state = "gone" /\ record' = [record EXCEPT ![h] = [state |-> "mark"]]
           /\ Go(w, [task[w] EXCEPT !.pc = next])
  <2>1. PICK n, r : n = [t EXCEPT !.pc = next] /\ r = [state |-> "mark"]
    OBVIOUS
  <2>2. record' = [record EXCEPT ![h] = r] /\ task' = [task EXCEPT ![w] = n]
    BY <1>1, <1>4, <2>1 DEF Go
  <2>3. RecordFine(r) /\ r.state = "mark"
    BY <2>1 DEF RecordFine
  <2>4. SameButRecord /\ carried' = carried
    BY DEF Mark, SameButRecord, cookieVars, revocationVars
  <2>5. next \in ClosePcs
    BY DEF ClosePcs
  <2>6. Onward(t, n) /\ n.pc = next
    BY <1>3, <2>1, <2>5, MovesOn
  <2>7. QED
    BY <1>1, <1>2, <2>2, <2>3, <2>4, <2>6, CloseWrites
<1>5. CASE Thrown(w) /\ UNCHANGED record
  BY <1>1, <1>2, <1>5, CloseQuietly DEF Mark
<1>6. QED
  BY <1>1, <1>4, <1>5 DEF Mark

LEMMA CloseFinishLife ==
  ASSUME LifeInv, load' = load, NEW w \in Worker, CloseFinish(w)
  PROVE  LifeInv'
<1>1. PICK t, h : t = task[w] /\ h = t.h
  OBVIOUS
<1>2. t.pc = "close.call" /\ t.pc \in ClosePcs
  BY <1>1 DEF CloseFinish, At, ClosePcs
<1>3. LifeFine(t) /\ CloseParts \subseteq DOMAIN t /\ h \in Handle /\ Known(h)
  BY <1>1, <1>2, CloseAt
<1>4. RecordFine(record[h])
  BY <1>3 DEF LifeInv, StateFine
<1>5. CASE record[h].state = "gone"
  <2>1. PICK n : n = Past(w, "close.remark")
    OBVIOUS
  <2>2. task' = [task EXCEPT ![w] = n] /\ SameButListed /\ Listed(listed')
    BY <1>1, <1>5, <2>1, SameListed DEF CloseFinish, Go
  <2>3. Onward(t, n) /\ n.pc = "close.remark"
    BY <1>1, <1>3, <2>1, MovesOn DEF ClosePcs, Past
  <2>4. Ended(h)
    BY <1>3, <1>5 DEF Ended, Known
  <2>5. QED
    BY <1>1, <1>2, <2>2, <2>3, <2>4, CloseQuiet
<1>6. CASE record[h].state # "gone"
  <2>1. PICK n, r : /\ n = Past(w, "close.unlist")
                    /\ r = [record[h] EXCEPT !.state = IF @ = "mark" THEN @ ELSE "closed"]
    OBVIOUS
  <2>2. record' = [record EXCEPT ![h] = r] /\ task' = [task EXCEPT ![w] = n]
    BY <1>1, <1>3, <1>6, <2>1 DEF CloseFinish, Go, LifeInv, StateFine
  <2>3. RecordFine(r) /\ r.state \in {"closed", "mark"}
    BY <1>4, <1>6, <2>1 DEF RecordFine, Gone, Full
  <2>4. SameButRecord /\ carried' = carried
    BY DEF CloseFinish, SameButRecord, cookieVars, revocationVars
  <2>5. Onward(t, n) /\ n.pc = "close.unlist"
    BY <1>1, <1>3, <2>1, MovesOn DEF ClosePcs, Past
  <2>6. QED
    BY <1>1, <1>2, <2>2, <2>3, <2>4, <2>5, CloseWrites
<1>7. QED
  BY <1>5, <1>6

LEMMA CloseThrowsLife ==
  ASSUME LifeInv, load' = load, NEW w \in Worker, CloseThrows(w) \/ PutOff(w)
  PROVE  LifeInv'
<1>1. CASE CloseThrows(w)
  <2>1. task[w].pc \in ClosePcs
    BY <1>1 DEF CloseThrows, ClosePcs
  <2>2. QED
    BY <1>1, <2>1, CloseQuietly DEF CloseThrows
<1>2. CASE PutOff(w)
  <2>1. task[w].pc \in ClosePcs
    BY <1>2 DEF PutOff, At, ClosePcs
  <2>2. QED
    BY <1>2, <2>1, CloseQuietly DEF PutOff
<1>3. QED
  BY <1>1, <1>2

LEMMA CloseUnlistLife ==
  ASSUME LifeInv, load' = load, NEW w \in Worker, CloseUnlist(w)
  PROVE  LifeInv'
<1>1. PICK t, h : t = task[w] /\ h = t.h
  OBVIOUS
<1>2. t.pc = "close.unlist" /\ t.pc \in ClosePcs
  BY <1>1 DEF CloseUnlist, At, ClosePcs
<1>3. LifeFine(t) /\ CloseParts \subseteq DOMAIN t /\ h \in Handle /\ Ended(h)
  BY <1>1, <1>2, CloseAt
<1>4. PICK n : n = [t EXCEPT !.pc = "close.done"]
  OBVIOUS
<1>5. Onward(t, n) /\ n.pc = "close.done" /\ task' = [task EXCEPT ![w] = n]
  BY <1>1, <1>3, <1>4, MovesOn DEF ClosePcs, CloseUnlist, Go
<1>6. SameButListed
  BY DEF CloseUnlist, SameButListed
<1>7. Listed(listed')
  BY DEF CloseUnlist, Listed, LifeInv, StateFine
<1>8. QED
  BY <1>1, <1>2, <1>3, <1>5, <1>6, <1>7, CloseQuiet


(* A step that changes only the closings: no closing session is dropped.   *)
LEMMA ClosingsStep ==
  ASSUME LifeInv, load' = load, UNCHANGED <<now, record, over, listed, cookieVars, finished>>,
         closings' \subseteq Knowns, \A h \in closings : h \in closings' \/ Ended(h)
  PROVE  /\ Lasts /\ StateFine' /\ index' = index
         /\ \A h : /\ Known(h)' <=> Known(h)
                   /\ Unborn(h)' <=> Unborn(h)
                   /\ Ended(h)' <=> Ended(h)
                   /\ Claimed(h)' <=> Claimed(h)
         /\ \A t : LifeFine(t) => LifeFine(t)'
<1>1. /\ load' = load /\ now' = now /\ record' = record /\ over' = over /\ listed' = listed
      /\ index' = index /\ drawn' = drawn /\ carried' = carried /\ first' = first /\ finished' = finished
  BY DEF cookieVars
<1>2. \A h : /\ Known(h)' <=> Known(h)
             /\ Unborn(h)' <=> Unborn(h)
             /\ Ended(h)' <=> Ended(h)
             /\ Claimed(h)' <=> Claimed(h)
  BY <1>1 DEF Known, Unborn, Ended, Claimed
<1>3. Knowns' = Knowns
  BY <1>1 DEF Knowns, Known
<1>4. StateFine'
  <2>1. ClosingKept'
    BY <1>1 DEF LifeInv, StateFine, ClosingKept, Ended
  <2>3. (\A h \in Handle : RecordFine(record[h]))'
    BY <1>1 DEF LifeInv, StateFine, RecordFine
  <2>4. (\A s \in Secret : index[s] # NoHandle => Known(index[s]))'
    BY <1>1 DEF Known, LifeInv, StateFine
  <2>5. QED
    BY <1>1, <1>3, <2>1, <2>3, <2>4 DEF LifeInv, StateFine
<1>5. Lasts
  BY <1>1, <1>2, RevocationAssumption DEF Lasts, LifeInv, StateFine
<1>6. ASSUME NEW t, LifeFine(t) PROVE LifeFine(t)'
  <2>1. Unsaved(t) => Unborn(LoginOf(t).handle)'
    BY <1>2, <1>6 DEF LifeFine, Unborn
  <2>2. QED
    BY <1>5, <1>6, <2>1, FrameLasts DEF LifeInv, StateFine
<1>7. QED
  BY <1>1, <1>2, <1>4, <1>5, <1>6

LEMMA ClosingsGo ==
  ASSUME LifeInv, load' = load, UNCHANGED <<now, record, over, listed, cookieVars, finished>>,
         closings' \subseteq Knowns, \A h \in closings : h \in closings' \/ Ended(h),
         NEW w \in Worker, NEW n, task' = [task EXCEPT ![w] = n],
         LifeFine(n)', \A h : Pends(n, h) => Pends(task[w], h), n.pc \notin UsePcs
  PROVE  LifeInv'
<1>1. \A h \in Handle : (\E s \in Secret : index'[s] = h) => Issued(h)
  BY ClosingsStep DEF Issued
<1>2. QED
  BY <1>1, ClosingsStep, Step

LEMMA CloseAddLife ==
  ASSUME LifeInv, load' = load, NEW w \in Worker, CloseAdd(w)
  PROVE  LifeInv'
<1>1. PICK t, h : t = task[w] /\ h = t.h
  OBVIOUS
<1>2. t.pc = "close.add" /\ t.pc \in ClosePcs
  BY <1>1 DEF CloseAdd, At, ClosePcs
<1>3. LifeFine(t) /\ CloseParts \subseteq DOMAIN t /\ Known(h)
  BY <1>1, <1>2, CloseAt
<1>4. PICK n : n = [t EXCEPT !.pc = "close.advance"]
  OBVIOUS
<1>5. Onward(t, n) /\ n.pc = "close.advance" /\ task' = [task EXCEPT ![w] = n]
  BY <1>1, <1>3, <1>4, MovesOn DEF ClosePcs, CloseAdd, Go
<1>6. /\ UNCHANGED <<now, record, over, listed, cookieVars, finished>>
      /\ closings' \subseteq Knowns /\ h \in closings' /\ \A g \in closings : g \in closings'
  BY <1>1, <1>3 DEF CloseAdd, revocationVars, LifeInv, StateFine, Knowns, Known
<1>7. LifeFine(t)'
  BY <1>3, <1>6, ClosingsStep
<1>8. LifeFine(n)' /\ (\A g : Pends(n, g) => Pends(t, g)) /\ n.pc \notin UsePcs
  BY <1>1, <1>2, <1>5, <1>6, <1>7, OnwardFine
<1>9. QED
  BY <1>1, <1>5, <1>6, <1>8, ClosingsGo

LEMMA CloseDoneLife ==
  ASSUME LifeInv, load' = load, NEW w \in Worker, CloseDone(w)
  PROVE  LifeInv'
<1>1. PICK t, h : t = task[w] /\ h = t.h
  OBVIOUS
<1>2. t.pc = "close.done" /\ t.pc \in ClosePcs
  BY <1>1 DEF CloseDone, At, ClosePcs
<1>3. LifeFine(t) /\ Ended(h)
  BY <1>1, <1>2, CloseAt
<1>4. PICK n : Follows(w, n)
  BY <1>1, <1>2, NextFollows DEF CloseDone
<1>5. /\ UNCHANGED <<now, record, over, listed, cookieVars, finished>>
      /\ closings' \subseteq Knowns /\ \A g \in closings : g \in closings' \/ Ended(g)
  BY <1>1, <1>3 DEF CloseDone, revocationVars, LifeInv, StateFine
<1>6. LifeFine(n)'
  BY <1>4, <1>5, ClosingsStep DEF Follows
<1>7. QED
  BY <1>4, <1>5, <1>6, ClosingsGo DEF Follows

LEMMA ParticipantFailsLife ==
  ASSUME LifeInv, load' = load, NEW w \in Worker, ParticipantFails(w)
  PROVE  LifeInv'
<1>1. PICK t, h : t = task[w] /\ h = t.h
  OBVIOUS
<1>2. t.pc = "close.call" /\ t.pc \in ClosePcs
  BY <1>1 DEF ParticipantFails, At, ClosePcs
<1>3. LifeFine(t) /\ CloseParts \subseteq DOMAIN t /\ h \in Handle
  BY <1>1, <1>2, CloseAt
<1>3a. t.todo \subseteq load.participants /\ Claimed(h)
  BY <1>1, <1>2, <1>3, CallAt
<1>4. PICK p, missed : p \in t.todo /\ missed = TRUE /\ Go(w, Calling(t, t.todo \ {p}, missed))
  BY <1>1 DEF ParticipantFails
<1>5. PICK todo, n : todo = t.todo \ {p} /\ n = Calling(t, todo, missed)
  OBVIOUS
<1>6. Onward(t, n) /\ n.pc = "close.call" /\ {"todo", "missed"} \subseteq DOMAIN n /\ n.todo = todo /\ n.missed = missed
  BY <1>3, <1>5, CallsOn
<1>7. task' = [task EXCEPT ![w] = n] /\ SameButListed /\ Listed(listed')
  BY <1>4, <1>5, SameListed DEF ParticipantFails, Go
<1>8. n.todo \subseteq load.participants
  BY <1>3a, <1>5, <1>6
<1>9. QED
  BY <1>1, <1>2, <1>3a, <1>4, <1>6, <1>7, <1>8, CloseQuiet

LEMMA ParticipantFinishesLife ==
  ASSUME LifeInv, load' = load, NEW w \in Worker, ParticipantFinishes(w)
  PROVE  LifeInv'
<1>1. PICK t, h : t = task[w] /\ h = t.h
  OBVIOUS
<1>2. t.pc = "close.call" /\ t.pc \in ClosePcs
  BY <1>1 DEF ParticipantFinishes, At, ClosePcs
<1>3. LifeFine(t) /\ CloseParts \subseteq DOMAIN t /\ h \in Handle /\ Known(h)
  BY <1>1, <1>2, CloseAt
<1>3a. /\ t.todo \subseteq load.participants /\ Claimed(h)
       /\ t.missed \/ load.participants \subseteq t.todo \cup finished[h]
  BY <1>1, <1>2, <1>3, CallAt
<1>4. PICK p \in t.todo : /\ finished' = [finished EXCEPT ![h] = @ \cup {p}]
                          /\ Go(w, Calling(t, t.todo \ {p}, t.missed))
  BY <1>1 DEF ParticipantFinishes
<1>5. PICK todo, n : todo = t.todo \ {p} /\ n = Calling(t, todo, t.missed)
  OBVIOUS
<1>6. Onward(t, n) /\ n.pc = "close.call" /\ {"todo", "missed"} \subseteq DOMAIN n /\ n.todo = todo /\ n.missed = t.missed
  BY <1>3, <1>5, CallsOn
<1>7. /\ load' = load /\ now' = now /\ record' = record /\ over' = over /\ listed' = listed /\ closings' = closings
      /\ index' = index /\ drawn' = drawn /\ carried' = carried /\ first' = first
  BY DEF ParticipantFinishes, cookieVars, revocationVars
<1>8. p \in Participant
  BY <1>3a, <1>4, LifecycleAssumption DEF LifeInv, StateFine
<1>9. /\ finished' \in [Handle -> SUBSET Participant] /\ \A g \in Handle : finished[g] \subseteq finished'[g]
      /\ finished'[h] = finished[h] \cup {p}
  BY <1>3, <1>4, <1>8 DEF LifeInv, StateFine
<1>10. \A g : /\ Known(g)' <=> Known(g)
              /\ Unborn(g)' <=> Unborn(g)
              /\ Ended(g)' <=> Ended(g)
              /\ Claimed(g)' <=> Claimed(g)
  BY <1>7 DEF Known, Unborn, Ended, Claimed
<1>11. Lasts
  BY <1>7, <1>9, <1>10, RevocationAssumption DEF Lasts, LifeInv, StateFine
<1>12. StateFine'
  <2>1. Knowns' = Knowns
    BY <1>7 DEF Knowns, Known
  <2>2. QED
    BY <1>7, <1>9, <2>1, Zenon DEF LifeInv, StateFine, Known, RecordFine, ClosingKept
<1>13. LifeFine(t)'
  <2>1. Unsaved(t) => Unborn(LoginOf(t).handle)'
    BY <1>3, <1>10 DEF LifeFine, Unborn
  <2>2. QED
    BY <1>3, <1>11, <2>1, FrameLasts DEF LifeInv, StateFine
<1>14. n.todo \subseteq load'.participants /\ (n.missed \/ load'.participants \subseteq n.todo \cup finished'[h])
  BY <1>3a, <1>4, <1>5, <1>6, <1>7, <1>9
<1>15. LifeFine(n)' /\ (\A g : Pends(n, g) => Pends(t, g)) /\ n.pc \notin UsePcs
  BY <1>1, <1>2, <1>3a, <1>6, <1>10, <1>13, <1>14, OnwardFine
<1>16. \A g \in Handle : (\E s \in Secret : index'[s] = g) => Issued(g)
  BY <1>7 DEF Issued
<1>17. task' = [task EXCEPT ![w] = n]
  BY <1>4, <1>5 DEF Go
<1>18. QED
  BY <1>1, <1>10, <1>11, <1>12, <1>15, <1>16, <1>17, Step


LEMMA CloseLife ==
  ASSUME LifeInv, load' = load, NEW w \in Worker, CloseStep(w)
  PROVE  LifeInv'
BY CloseThrowsLife, CloseAddLife, CloseAdvanceLife, MarkLife, ParticipantFinishesLife, ParticipantFailsLife,
   CloseFinishLife, CloseUnlistLife, CloseDoneLife DEF CloseStep, CloseMark, CloseRemark

----------------------------------------------------------------------------
(* Starting.                                                               *)
LEMMA FreshClose ==
  ASSUME NEW for \in {"request", "sweep", "follow", "revoked"}, NEW h, Known(h), NEW rest, rest \subseteq Knowns,
         NEW failing, NEW with, NEW n, n = Closing(for, h, rest, failing, with)
  PROVE  LifeFine(n) /\ (\A g : ~Pends(n, g)) /\ n.pc \notin UsePcs
<1>1. /\ DOMAIN n = {"pc", "for", "h", "rest", "failing", "with"} /\ n.pc = "close.add" /\ n.for = for
      /\ n.h = h /\ n.rest = rest
  BY DEF Closing
<1>2. QED
  BY <1>1 DEF LifeFine, Known, Knowns, Pends, HasLogin, Unsaved, ClosePcs, LoginPcs, UsePcs, LivePcs,
       RaisePcs, RevokePcs

LEMMA OpenedKnown ==
  ASSUME LifeInv, NEW s \in carried, index[s] # NoHandle
  PROVE  s \in Secret /\ index[s] \in Handle /\ Known(index[s]) /\ Issued(index[s])
BY DEF LifeInv, StateFine, Issued

LEMMA StartCloseLife ==
  ASSUME LifeInv, load' = load, NEW w \in Worker, StartClose(w)
  PROVE  LifeInv'
<1>1. SameButListed /\ Listed(listed')
  BY SameListed DEF StartClose
<1>2. \E n : Follows(w, n)
  <2>1. PICK s \in carried : IF index[s] = NoHandle THEN Answer(w, Nothing)
                             ELSE Go(w, Closing("request", index[s], {}, FALSE, Nothing))
    BY DEF StartClose
  <2>2. CASE index[s] = NoHandle
    BY <2>1, <2>2, AnswerFollows
  <2>3. CASE index[s] # NoHandle
    <3>1. PICK n : n = Closing("request", index[s], {}, FALSE, Nothing)
      OBVIOUS
    <3>2. LifeFine(n) /\ (\A g : ~Pends(n, g)) /\ n.pc \notin UsePcs
      <4>1. PICK h, failing : h = index[s] /\ failing = FALSE
        OBVIOUS
      <4>2. Known(h) /\ n = Closing("request", h, {}, failing, Nothing)
        BY <2>3, <3>1, <4>1, OpenedKnown
      <4>3. QED
        BY <4>2, FreshClose
    <3>3. QED
      BY <2>1, <2>3, <3>1, <3>2 DEF Go, Follows
  <2>4. QED
    BY <2>2, <2>3
<1>3. QED
  BY <1>1, <1>2, QuietFollows

LEMMA StartSweepLife ==
  ASSUME LifeInv, load' = load, NEW w \in Worker, StartSweep(w)
  PROVE  LifeInv'
<1>1. SameButListed /\ Listed(listed')
  BY SameListed DEF StartSweep
<1>2. PICK due, h, failing : /\ due \subseteq closings /\ h \in due /\ failing = FALSE
                             /\ Go(w, Closing("sweep", h, due \ {h}, failing, Nothing))
  BY DEF StartSweep
<1>3. PICK n : n = Closing("sweep", h, due \ {h}, failing, Nothing)
  OBVIOUS
<1>4. Known(h) /\ due \ {h} \subseteq Knowns
  BY <1>2 DEF LifeInv, StateFine, Knowns
<1>5. LifeFine(n) /\ (\A g : ~Pends(n, g)) /\ n.pc \notin UsePcs
  BY <1>3, <1>4, FreshClose
<1>6. Follows(w, n)
  BY <1>2, <1>3, <1>5 DEF Go, Follows
<1>7. QED
  BY <1>1, <1>6, QuietFollows

LEMMA RevokeListLife ==
  ASSUME LifeInv, load' = load, NEW w \in Worker, RevokeList(w)
  PROVE  LifeInv'
<1>1. SameButListed /\ Listed(listed')
  BY SameListed DEF RevokeList
<1>2. PICK t, members : t = task[w] /\ members = listed[t.subject]
  OBVIOUS
<1>3. t.pc = "revoke.list" /\ members \subseteq Knowns
  BY <1>2 DEF RevokeList, At, LifeInv, LifeFine, StateFine, RevokePcs
<1>4. ASSUME NEW h \in members, NEW failing, Go(w, Closing("follow", h, members \ {h}, failing, t.owed))
      PROVE  \E n : Follows(w, n)
  <2>1. PICK n : n = Closing("follow", h, members \ {h}, failing, t.owed)
    OBVIOUS
  <2>2. Known(h) /\ members \ {h} \subseteq Knowns
    BY <1>3 DEF Knowns
  <2>3. LifeFine(n) /\ (\A g : ~Pends(n, g)) /\ n.pc \notin UsePcs
    BY <2>1, <2>2, FreshClose
  <2>4. QED
    BY <1>4, <2>1, <2>3 DEF Go, Follows
<1>5. \E n : Follows(w, n)
  BY <1>2, <1>4, AnswerFollows DEF RevokeList
<1>6. QED
  BY <1>1, <1>5, QuietFollows

LEMMA RevokeFine ==
  ASSUME NEW n, "pc" \in DOMAIN n, "h" \notin DOMAIN n, "subject" \in DOMAIN n, n.subject \in Subject,
         \/ n.pc = "revoke.write" /\ "deadline" \in DOMAIN n /\ n.deadline \in Nat
         \/ n.pc = "revoke.list" /\ "owed" \in DOMAIN n
  PROVE  LifeFine(n) /\ (\A g : ~Pends(n, g)) /\ n.pc \notin UsePcs
BY DEF LifeFine, Pends, HasLogin, Unsaved, ClosePcs, LoginPcs, UsePcs, LivePcs, RaisePcs, RevokePcs

LEMMA StartRevokeLife ==
  ASSUME LifeInv, load' = load, NEW w \in Worker, StartRevoke(w)
  PROVE  LifeInv'
<1>1. SameButListed /\ Listed(listed')
  BY SameListed DEF StartRevoke
<1>2. PICK s, n : /\ s \in Subject /\ n = [pc |-> "revoke.write", subject |-> s, deadline |-> WriteDeadline]
                  /\ Go(w, n)
  BY DEF StartRevoke
<1>3. WriteDeadline \in Nat
  BY RevocationAssumption DEF WriteDeadline, LifeInv, StateFine
<1>4. LifeFine(n) /\ (\A g : ~Pends(n, g)) /\ n.pc \notin UsePcs
  <2>1. s \in Subject /\ DOMAIN n = {"pc", "subject", "deadline"} /\ n.pc = "revoke.write" /\ n.subject = s /\ n.deadline = WriteDeadline
    BY <1>2
  <2>2. QED
    BY <1>3, <2>1, RevokeFine
<1>5. QED
  BY <1>1, <1>2, <1>4, QuietFollows DEF Go, Follows

LEMMA QuietAnswers ==
  ASSUME LifeInv, load' = load, NEW w \in Worker, NEW answer, Answer(w, answer),
         UNCHANGED <<revocationVars, record, over, closings, listed, cookieVars, finished>>
  PROVE  LifeInv'
BY SameListed, AnswerFollows, QuietFollows

LEMMA RevokeWriteLife ==
  ASSUME LifeInv, load' = load, NEW w \in Worker, RevokeWrite(w)
  PROVE  LifeInv'
<1>1. /\ load' = load /\ now' = now /\ record' = record /\ over' = over /\ closings' = closings /\ listed' = listed
      /\ index' = index /\ drawn' = drawn /\ carried' = carried /\ first' = first /\ finished' = finished
  BY DEF RevokeWrite, BoundaryLands, cookieVars
<1>2. PICK n : /\ n = [pc |-> "revoke.list", subject |-> task[w].subject,
                       owed |-> {h \in Enterable : Owner[h] = task[w].subject}]
               /\ task' = [task EXCEPT ![w] = n]
  BY DEF RevokeWrite, Go
<1>3. task[w].subject \in Subject
  BY DEF RevokeWrite, At, LifeInv, LifeFine, RevokePcs
<1>4. LifeFine(n) /\ (\A g : ~Pends(n, g)) /\ n.pc \notin UsePcs
  <2>1. DOMAIN n = {"pc", "subject", "owed"} /\ n.pc = "revoke.list" /\ n.subject = task[w].subject
    BY <1>2
  <2>2. QED
    BY <1>3, <2>1, RevokeFine
<1>5. /\ Lasts /\ StateFine' /\ index' = index
      /\ \A h : (Known(h)' <=> Known(h)) /\ (Unborn(h)' <=> Unborn(h))
      /\ \A t : LifeFine(t) => LifeFine(t)'
  <2>1. closings' \subseteq Knowns /\ \A h \in closings : h \in closings'
    BY <1>1 DEF LifeInv, StateFine
  <2>2. QED
    BY <1>1, <2>1, ClosingsStep DEF cookieVars
<1>6. LifeFine(n)'
  BY <1>4, <1>5
<1>7. \A h \in Handle : (\E s \in Secret : index'[s] = h) => Issued(h)
  BY <1>1 DEF Issued
<1>8. QED
  BY <1>2, <1>4, <1>5, <1>6, <1>7, Step


----------------------------------------------------------------------------
(* Logins.                                                                 *)
LoginParts(t) == t.pc \in LoginPcs /\ {"pc", "login"} \subseteq DOMAIN t /\ "h" \notin DOMAIN t

(* A login further on, of the session saved or still to save.              *)
LEMMA LoginFurther ==
  ASSUME NEW t, LifeFine(t), NEW n, LoginParts(n), HasLogin(t), n.login = LoginOf(t), Unsaved(n) <=> Unsaved(t),
         n.pc = "login.save" => "openedAt" \in DOMAIN n /\ n.openedAt \in 0 .. now,
         n.pc = "login.keep" => {"out", "todo"} \subseteq DOMAIN n /\ n.out \subseteq Knowns /\ n.todo \subseteq n.out,
         n.pc = "login.putback" => {"todo", "ending"} \subseteq DOMAIN n /\ n.todo \cup n.ending \subseteq Knowns,
         n.pc = "login.relist" => {"todo", "member"} \subseteq DOMAIN n /\ n.todo \cup {n.member} \subseteq Knowns
  PROVE  LifeFine(n) /\ (\A g : Pends(n, g) => Pends(t, g)) /\ n.pc \notin UsePcs
<1>1. n.pc \in LoginPcs /\ n.pc \notin ClosePcs \cup UsePcs \cup RevokePcs \cup {"idle", "login.answer"}
  BY DEF LoginParts, LoginPcs, ClosePcs, UsePcs, LivePcs, RaisePcs, RevokePcs
<1>2. HasLogin(n) /\ LoginOf(n) = LoginOf(t)
  BY <1>1 DEF HasLogin, LoginOf
<1>3. LifeFine(n)
  BY <1>1, <1>2 DEF LifeFine, LoginParts, ClosePcs, LivePcs, RaisePcs, UsePcs, RevokePcs
<1>4. QED
  BY <1>1, <1>2, <1>3 DEF Pends

LEMMA LoginAt ==
  ASSUME LifeInv, NEW w \in Worker, NEW t, t = task[w], t.pc \in LoginPcs
  PROVE  /\ LifeFine(t) /\ HasLogin(t) /\ LoginOf(t) = t.login /\ LoginParts(t)
         /\ t.login.handle \in Handle \cap drawn \cap load.handles /\ t.login.proven \in 0 .. now
         /\ Pends(t, t.login.handle)
         /\ Unsaved(t) <=> t.pc \in {"login.stamp", "login.save"}
         /\ IF Unsaved(t) THEN Unborn(t.login.handle) ELSE Known(t.login.handle)
<1>1. LifeFine(t)
  BY DEF LifeInv
<1>2. HasLogin(t) /\ LoginOf(t) = t.login /\ LoginParts(t) /\ Pends(t, t.login.handle)
  <2>1. t.pc \notin ClosePcs \cup UsePcs
    BY DEF LoginPcs, ClosePcs, UsePcs, LivePcs, RaisePcs
  <2>2. QED
    BY <1>1, <2>1 DEF HasLogin, LoginOf, LoginParts, LifeFine, Pends
<1>3. t.login.handle \in Handle \cap drawn \cap load.handles /\ t.login.proven \in 0 .. now
  BY <1>1, <1>2 DEF LifeFine, LoginFine
<1>4. Unsaved(t) <=> t.pc \in {"login.stamp", "login.save"}
  BY DEF Unsaved, LoginPcs, ClosePcs
<1>5. IF Unsaved(t) THEN Unborn(t.login.handle) ELSE Known(t.login.handle)
  BY <1>1, <1>2 DEF LifeFine, Unborn
<1>6. QED
  BY <1>1, <1>2, <1>3, <1>4, <1>5

LEMMA StartLoginLife ==
  ASSUME LifeInv, load' = load, NEW w \in Worker, StartLogin(w)
  PROVE  LifeInv'
<1>1. PICK h, login :
        /\ h \in load.handles \ drawn
        /\ login = [handle |-> h, proven |-> now]
        /\ drawn' = drawn \cup {h}
        /\ \/ Go(w, [pc |-> "login.stamp", login |-> login])
           \/ \E s \in carried :
                /\ index[s] # NoHandle
                /\ Go(w, Closing("earlier", index[s], {}, FALSE, login))
  BY DEF StartLogin
<1>2. /\ load' = load /\ now' = now /\ record' = record /\ over' = over /\ closings' = closings /\ listed' = listed
      /\ index' = index /\ carried' = carried /\ first' = first /\ finished' = finished
  BY DEF StartLogin, revocationVars
<1>3. h \in Handle /\ ~Known(h)
  BY <1>1, LifecycleAssumption DEF LifeInv, StateFine, Knowns, Known
<1>4. record[h] = Gone
  BY <1>3 DEF Known, LifeInv, StateFine, RecordFine, Gone, Full
<1>5. \A g : /\ Known(g)' <=> Known(g)
             /\ Unborn(g)' <=> Unborn(g)
             /\ Ended(g)' <=> Ended(g)
             /\ Claimed(g)' <=> Claimed(g)
  BY <1>2 DEF Known, Unborn, Ended, Claimed
<1>6. Knowns' = Knowns
  BY <1>2 DEF Knowns, Known
<1>7. StateFine'
  <2>1. (\A g \in Handle : RecordFine(record[g]))' /\ (\A s \in Secret : index[s] # NoHandle => Known(index[s]))'
    BY <1>2 DEF LifeInv, StateFine, RecordFine, Known
  <2>2. ClosingKept'
    BY <1>2 DEF LifeInv, StateFine, ClosingKept
  <2>3. drawn' \subseteq Handle \cup Secret /\ Knowns \subseteq drawn' \cap load.handles /\ first \cup carried \subseteq Secret \cap drawn'
    BY <1>1, <1>3 DEF LifeInv, StateFine
  <2>4. QED
    BY <1>2, <1>6, <2>1, <2>2, <2>3 DEF LifeInv, StateFine
<1>8. Lasts
  BY <1>1, <1>2, <1>5, RevocationAssumption DEF Lasts, LifeInv, StateFine
<1>9. ASSUME NEW n, \/ n = [pc |-> "login.stamp", login |-> login]
                    \/ \E s \in carried : \E failing : index[s] # NoHandle /\ n = Closing("earlier", index[s], {}, failing, login)
      PROVE  LifeFine(n)' /\ (\A g : Pends(n, g) => g = h) /\ n.pc \notin UsePcs
  <2>1. \/ DOMAIN n = {"pc", "login"} /\ n.pc = "login.stamp" /\ n.login = login
        \/ /\ DOMAIN n = {"pc", "for", "h", "rest", "failing", "with"} /\ n.pc = "close.add" /\ n.for = "earlier"
           /\ Known(n.h) /\ n.rest = {} /\ n.with = login
    BY <1>9, OpenedKnown DEF Closing
  <2>2. LoginOf(n) = login /\ (\A g : Pends(n, g) => g = h) /\ n.pc \notin UsePcs
    BY <1>1, <2>1 DEF LoginOf, Pends, LoginPcs, ClosePcs, UsePcs, LivePcs, RaisePcs
  <2>3. LoginFine(login)' /\ (~Known(h))' /\ record'[h] = Gone
    BY <1>1, <1>2, <1>3, <1>4, <1>5, RevocationAssumption DEF LoginFine, LifeInv, StateFine
  <2>4. ASSUME Known(n.h) PROVE Known(n.h)' /\ n.h \in Knowns'
    BY <1>5, <1>6, <2>4 DEF Known, Knowns
  <2>5. LifeFine(n)'
    BY <1>1, <2>1, <2>2, <2>3, <2>4 DEF LifeFine, HasLogin, Unsaved, LoginPcs, ClosePcs, UsePcs, LivePcs, RaisePcs, RevokePcs
  <2>6. QED
    BY <2>2, <2>5
<1>10. PICK n : /\ task' = [task EXCEPT ![w] = n]
                /\ \/ n = [pc |-> "login.stamp", login |-> login]
                   \/ \E s \in carried : \E failing : index[s] # NoHandle /\ n = Closing("earlier", index[s], {}, failing, login)
  BY <1>1 DEF Go
<1>11. \A g \in Handle : (\E s \in Secret : index'[s] = g) => Issued(g)
  BY <1>2 DEF Issued
<1>12. QED
  BY <1>1, <1>5, <1>7, <1>8, <1>9, <1>10, <1>11, Step


LEMMA LoginStampLife ==
  ASSUME LifeInv, load' = load, NEW w \in Worker, LoginStamp(w)
  PROVE  LifeInv'
<1>1. PICK t, n : t = task[w] /\ n = [pc |-> "login.save", login |-> t.login, openedAt |-> now]
  OBVIOUS
<1>2. t.pc = "login.stamp" /\ t.pc \in LoginPcs /\ task' = [task EXCEPT ![w] = n]
  BY <1>1 DEF LoginStamp, At, Go, LoginPcs
<1>3. LifeFine(t) /\ HasLogin(t) /\ LoginOf(t) = t.login /\ Unsaved(t)
  BY <1>1, <1>2, LoginAt
<1>4. DOMAIN n = {"pc", "login", "openedAt"} /\ n.pc = "login.save" /\ n.login = t.login /\ n.openedAt = now
  BY <1>1
<1>5. LoginParts(n) /\ Unsaved(n) /\ now \in 0 .. now
  BY <1>4, RevocationAssumption DEF LoginParts, LoginPcs, Unsaved, LifeInv, StateFine
<1>6. LifeFine(n) /\ (\A g : Pends(n, g) => Pends(t, g)) /\ n.pc \notin UsePcs
  BY <1>3, <1>4, <1>5, LoginFurther
<1>7. SameButListed /\ Listed(listed')
  BY SameListed DEF LoginStamp
<1>8. QED
  BY <1>1, <1>2, <1>6, <1>7, QuietFollows DEF Follows

LEMMA LoginSaveLife ==
  ASSUME LifeInv, load' = load, NEW w \in Worker, LoginSave(w)
  PROVE  LifeInv'
<1>1. PICK t, h, n, r : /\ t = task[w] /\ h = t.login.handle /\ n = [pc |-> "login.check", login |-> t.login]
                        /\ r = Opening(t.openedAt, t.login.proven)
  OBVIOUS
<1>2. /\ t.pc = "login.save" /\ t.pc \in LoginPcs /\ task' = [task EXCEPT ![w] = n]
      /\ record' = [record EXCEPT ![h] = r]
  BY <1>1 DEF LoginSave, At, Go, LoginPcs
<1>3. /\ LifeFine(t) /\ HasLogin(t) /\ LoginOf(t) = t.login /\ Unborn(h) /\ h \in Handle /\ h \in drawn
      /\ h \in load.handles /\ t.login.proven \in 0 .. now /\ Pends(t, h)
  BY <1>1, <1>2, LoginAt
<1>4. LoginFine(t.login) /\ t.openedAt \in 0 .. now
  BY <1>2, <1>3 DEF LifeFine
<1>5. RecordFine(r) /\ r.state = "open"
  BY <1>1, <1>3, <1>4, RevocationAssumption DEF Opening, RecordFine, Full, LifeInv, StateFine
<1>6. SameButRecord /\ carried' \subseteq Secret \cap drawn
  BY DEF LoginSave, SameButRecord, cookieVars, revocationVars, LifeInv, StateFine
<1>7. ~Claimed(h) /\ ~Ended(h)
  BY <1>3 DEF Unborn, Known, Ended, Claimed, Gone
<1>8. /\ Lasts /\ StateFine' /\ index' = index /\ Known(h)'
      /\ \A g \in Handle \ {h} : Unborn(g) => Unborn(g)'
  BY <1>2, <1>3, <1>5, <1>6, <1>7, RecordStep
<1>9. DOMAIN n = {"pc", "login"} /\ n.pc = "login.check" /\ n.login = t.login
  BY <1>1
<1>10. (\A g : Pends(n, g) => Pends(t, g)) /\ n.pc \notin UsePcs /\ LoginOf(n) = t.login
  BY <1>3, <1>9 DEF Pends, LoginOf, LoginPcs, UsePcs, LivePcs, RaisePcs
<1>11. LoginFine(t.login)'
  BY <1>4, <1>6, RevocationAssumption DEF LoginFine, SameButRecord
<1>12. LifeFine(n)'
  BY <1>1, <1>8, <1>9, <1>10, <1>11
     DEF LifeFine, HasLogin, Unsaved, LoginPcs, ClosePcs, UsePcs, LivePcs, RaisePcs, RevokePcs
<1>13. QED
  BY <1>1, <1>2, <1>3, <1>8, <1>10, <1>12, RecordGoes

LEMMA LoginCheckLife ==
  ASSUME LifeInv, load' = load, NEW w \in Worker, LoginCheck(w)
  PROVE  LifeInv'
<1>1. PICK t, h, failing : t = task[w] /\ h = t.login.handle /\ failing = FALSE
  OBVIOUS
<1>2. /\ t.pc = "login.check" /\ t.pc \in LoginPcs
      /\ \/ Go(w, Closing("revoked", h, {}, failing, t.login))
         \/ Go(w, [pc |-> "login.list", login |-> t.login])
  BY <1>1 DEF LoginCheck, At, LoginPcs
<1>3. LifeFine(t) /\ HasLogin(t) /\ LoginOf(t) = t.login /\ Known(h) /\ ~Unsaved(t)
  BY <1>1, <1>2, LoginAt
<1>4. CASE Go(w, Closing("revoked", h, {}, failing, t.login))
  <2>1. PICK n : n = Closing("revoked", h, {}, failing, t.login)
    OBVIOUS
  <2>2. LifeFine(n) /\ (\A g : ~Pends(n, g)) /\ n.pc \notin UsePcs
    BY <1>3, <2>1, FreshClose
  <2>3. QED
    BY <1>4, <2>1, <2>2, SameListed, QuietFollows DEF LoginCheck, Go, Follows
<1>5. CASE Go(w, [pc |-> "login.list", login |-> t.login])
  <2>1. PICK n : n = [pc |-> "login.list", login |-> t.login]
    OBVIOUS
  <2>2. DOMAIN n = {"pc", "login"} /\ n.pc = "login.list" /\ n.login = t.login
    BY <2>1
  <2>3. LoginParts(n) /\ ~Unsaved(n)
    BY <2>2 DEF LoginParts, LoginPcs, ClosePcs, Unsaved
  <2>4. LifeFine(n) /\ (\A g : Pends(n, g) => Pends(t, g)) /\ n.pc \notin UsePcs
    BY <1>3, <2>2, <2>3, LoginFurther
  <2>5. QED
    BY <1>1, <1>5, <2>1, <2>4, SameListed, QuietFollows DEF LoginCheck, Go, Follows
<1>6. QED
  BY <1>2, <1>4, <1>5


(* A login past its save, whose next frame is another of the login.        *)
LEMMA LoginGoes ==
  ASSUME LifeInv, NEW w \in Worker, NEW t, t = task[w], t.pc \in LoginPcs, ~Unsaved(t),
         SameButListed, Listed(listed'),
         NEW n, task' = [task EXCEPT ![w] = n], {"pc", "login"} \subseteq DOMAIN n, "h" \notin DOMAIN n,
         n.login = t.login,
         n.pc \in {"login.list", "login.keep", "login.putback", "login.relist", "login.issue"},
         n.pc = "login.keep" => {"out", "todo"} \subseteq DOMAIN n /\ n.out \subseteq Knowns /\ n.todo \subseteq n.out,
         n.pc = "login.putback" => {"todo", "ending"} \subseteq DOMAIN n /\ n.todo \cup n.ending \subseteq Knowns,
         n.pc = "login.relist" => {"todo", "member"} \subseteq DOMAIN n /\ n.todo \cup {n.member} \subseteq Knowns
  PROVE  LifeInv'
<1>1. LifeFine(t) /\ HasLogin(t) /\ LoginOf(t) = t.login
  BY LoginAt
<1>2. LoginParts(n) /\ ~Unsaved(n)
  BY DEF LoginParts, LoginPcs, ClosePcs, Unsaved
<1>3. LifeFine(n) /\ (\A g : Pends(n, g) => Pends(t, g)) /\ n.pc \notin UsePcs
  BY <1>1, <1>2, LoginFurther
<1>4. QED
  BY <1>3, QuietFollows DEF Follows

LEMMA LoginListLife ==
  ASSUME LifeInv, load' = load, NEW w \in Worker, LoginList(w)
  PROVE  LifeInv'
<1>1. PICK t, h, s : t = task[w] /\ h = t.login.handle /\ s = Owner[h]
  OBVIOUS
<1>2. t.pc = "login.list" /\ t.pc \in LoginPcs
  BY <1>1 DEF LoginList, At, LoginPcs
<1>3. Known(h) /\ h \in Handle /\ h \in load.handles /\ ~Unsaved(t)
  BY <1>1, <1>2, LoginAt
<1>4. PICK out \in SUBSET (listed[s] \ {h}) :
        /\ listed' = [listed EXCEPT ![s] = (@ \cup {h}) \ out]
        /\ Go(w, IF out = {} THEN [pc |-> "login.issue", login |-> t.login]
                 ELSE [pc |-> "login.keep", login |-> t.login, out |-> out, todo |-> out])
  BY <1>1 DEF LoginList, OverCap
<1>5. s \in Subject /\ listed[s] \subseteq Knowns
  BY <1>1, <1>3, LifecycleAssumption DEF LifeInv, StateFine
<1>6. Listed(listed')
  BY <1>3, <1>4, <1>5 DEF Listed, LifeInv, StateFine, Knowns
<1>7. SameButListed
  BY DEF LoginList, SameButListed
<1>8. CASE out = {}
  <2>1. PICK n : n = [pc |-> "login.issue", login |-> t.login]
    OBVIOUS
  <2>2. task' = [task EXCEPT ![w] = n]
    BY <1>4, <1>8, <2>1 DEF Go
  <2>3. DOMAIN n = {"pc", "login"} /\ n.pc = "login.issue" /\ n.login = t.login
    BY <2>1
  <2>4. QED
    BY <1>1, <1>2, <1>3, <1>6, <1>7, <2>2, <2>3, LoginGoes
<1>9. CASE out # {}
  <2>1. PICK n : n = [pc |-> "login.keep", login |-> t.login, out |-> out, todo |-> out]
    OBVIOUS
  <2>2. task' = [task EXCEPT ![w] = n]
    BY <1>4, <1>9, <2>1 DEF Go
  <2>3. /\ DOMAIN n = {"pc", "login", "out", "todo"} /\ n.pc = "login.keep" /\ n.login = t.login
        /\ n.out = out /\ n.todo = out
    BY <2>1
  <2>4. out \subseteq Knowns
    BY <1>4, <1>5
  <2>5. QED
    BY <1>1, <1>2, <1>3, <1>6, <1>7, <2>2, <2>3, <2>4, LoginGoes
<1>10. QED
  BY <1>8, <1>9

LEMMA KeepAt ==
  ASSUME NEW t, LifeFine(t)
  PROVE  /\ t.pc = "login.keep" => {"out", "todo"} \subseteq DOMAIN t /\ t.out \subseteq Knowns /\ t.todo \subseteq t.out
         /\ t.pc = "login.putback" => {"todo", "ending"} \subseteq DOMAIN t /\ t.todo \cup t.ending \subseteq Knowns
         /\ t.pc = "login.relist" => {"todo", "member"} \subseteq DOMAIN t /\ t.todo \cup {t.member} \subseteq Knowns
BY DEF LifeFine

LEMMA LoginTakeBackLife ==
  ASSUME LifeInv, load' = load, NEW w \in Worker, LoginTakeBack(w)
  PROVE  LifeInv'
<1>1. PICK t : t = task[w]
  OBVIOUS
<1>2. t.pc = "login.keep" /\ t.pc \in LoginPcs
  BY <1>1 DEF LoginTakeBack, At, LoginPcs
<1>3. LifeFine(t) /\ ~Unsaved(t)
  BY <1>1, <1>2, LoginAt
<1>4. t.out \subseteq Knowns
  BY <1>2, <1>3, KeepAt
<1>5. PICK n : n = [pc |-> "login.putback", login |-> t.login, todo |-> t.out, ending |-> {}]
  OBVIOUS
<1>6. task' = [task EXCEPT ![w] = n]
  BY <1>1, <1>5 DEF Go, LoginTakeBack
<1>7. /\ DOMAIN n = {"pc", "login", "todo", "ending"} /\ n.pc = "login.putback" /\ n.login = t.login
      /\ n.todo = t.out /\ n.ending = {}
  BY <1>5
<1>8. Listed(listed') /\ SameButListed
  BY DEF LoginTakeBack, Listed, SameButListed, LifeInv, StateFine
<1>9. QED
  BY <1>1, <1>2, <1>3, <1>4, <1>6, <1>7, <1>8, LoginGoes

LEMMA LoginReadLeftLife ==
  ASSUME LifeInv, load' = load, NEW w \in Worker, LoginReadLeft(w)
  PROVE  LifeInv'
<1>1. PICK t : t = task[w]
  OBVIOUS
<1>2. t.pc = "login.putback" /\ t.pc \in LoginPcs
  BY <1>1 DEF LoginReadLeft, At, LoginPcs
<1>3. LifeFine(t) /\ ~Unsaved(t) /\ LoginParts(t)
  BY <1>1, <1>2, LoginAt
<1>4. {"todo", "ending"} \subseteq DOMAIN t /\ t.todo \subseteq Knowns /\ t.ending \subseteq Knowns
  BY <1>2, <1>3, KeepAt
<1>5. PICK h, n :
        /\ h \in t.todo
        /\ task' = [task EXCEPT ![w] = n]
        /\ \/ n = [t EXCEPT !.todo = @ \ {h}]
           \/ n = [pc |-> "login.relist", login |-> t.login, todo |-> t.todo \ {h}, member |-> h]
           \/ n = [[t EXCEPT !.todo = @ \ {h}] EXCEPT !.ending = {h}]
  <2>2. PICK h \in t.todo : LET u == [t EXCEPT !.todo = @ \ {h}] IN
          \/ Go(w, u)
          \/ Go(w, [pc |-> "login.relist", login |-> u.login, todo |-> u.todo, member |-> h])
          \/ Go(w, [u EXCEPT !.ending = {h}])
    BY <1>1 DEF LoginReadLeft
  <2>3. [t EXCEPT !.todo = @ \ {h}].login = t.login /\ [t EXCEPT !.todo = @ \ {h}].todo = t.todo \ {h}
    BY <1>3, <1>4 DEF LoginParts
  <2>4. QED
    BY <2>2, <2>3 DEF Go
<1>6. \/ /\ {"pc", "login", "todo", "ending"} \subseteq DOMAIN n /\ "h" \notin DOMAIN n /\ n.pc = "login.putback" /\ n.login = t.login
         /\ n.todo \subseteq t.todo /\ n.ending \subseteq t.ending \cup {h}
      \/ /\ DOMAIN n = {"pc", "login", "todo", "member"} /\ n.pc = "login.relist" /\ n.login = t.login
         /\ n.todo \subseteq t.todo /\ n.member = h
  <2>1. {"pc", "login", "todo", "ending"} \subseteq DOMAIN t /\ "h" \notin DOMAIN t
    BY <1>3, <1>4 DEF LoginParts
  <2>2. CASE n = [t EXCEPT !.todo = @ \ {h}]
    BY <1>2, <2>1, <2>2
  <2>3. CASE n = [pc |-> "login.relist", login |-> t.login, todo |-> t.todo \ {h}, member |-> h]
    BY <2>3
  <2>4. CASE n = [[t EXCEPT !.todo = @ \ {h}] EXCEPT !.ending = {h}]
    BY <1>2, <2>1, <2>4
  <2>5. QED
    BY <1>5, <2>2, <2>3, <2>4
<1>7. /\ n.pc = "login.putback" => {"todo", "ending"} \subseteq DOMAIN n /\ n.todo \cup n.ending \subseteq Knowns
      /\ n.pc = "login.relist" => {"todo", "member"} \subseteq DOMAIN n /\ n.todo \cup {n.member} \subseteq Knowns
      /\ n.login = t.login /\ n.pc \in {"login.putback", "login.relist"} /\ {"pc", "login"} \subseteq DOMAIN n
      /\ "h" \notin DOMAIN n
  BY <1>4, <1>5, <1>6
<1>8. QED
  BY <1>1, <1>2, <1>3, <1>5, <1>7, SameListed, LoginGoes DEF LoginReadLeft

LEMMA LoginRelistLife ==
  ASSUME LifeInv, load' = load, NEW w \in Worker, LoginRelist(w)
  PROVE  LifeInv'
<1>1. PICK t, s : t = task[w] /\ s = Owner[t.login.handle]
  OBVIOUS
<1>2. t.pc = "login.relist" /\ t.pc \in LoginPcs
  BY <1>1 DEF LoginRelist, At, LoginPcs
<1>3. LifeFine(t) /\ ~Unsaved(t) /\ t.login.handle \in Handle
  BY <1>1, <1>2, LoginAt
<1>4. t.todo \subseteq Knowns /\ t.member \in Knowns
  BY <1>2, <1>3, KeepAt
<1>5. s \in Subject /\ listed[s] \subseteq Knowns
  BY <1>1, <1>3, LifecycleAssumption DEF LifeInv, StateFine
<1>6. PICK ending, n :
        /\ n = [pc |-> "login.putback", login |-> t.login, todo |-> t.todo, ending |-> ending]
        /\ task' = [task EXCEPT ![w] = n]
        /\ ending \subseteq listed[s] \cup {t.member}
        /\ \/ listed' = [listed EXCEPT ![s] = (@ \cup {t.member}) \ ending]
           \/ listed' = listed
  BY <1>1 DEF LoginRelist, OverCap, Go
<1>7. /\ DOMAIN n = {"pc", "login", "todo", "ending"} /\ n.pc = "login.putback" /\ n.login = t.login
      /\ n.todo = t.todo /\ n.ending = ending
  BY <1>6
<1>8. SameButListed
  BY DEF LoginRelist, SameButListed
<1>9. Listed(listed') /\ ending \subseteq Knowns
  BY <1>4, <1>5, <1>6 DEF Listed, LifeInv, StateFine, Knowns
<1>10. QED
  BY <1>1, <1>2, <1>3, <1>4, <1>6, <1>7, <1>8, <1>9, LoginGoes


LEMMA LoginKeepLife ==
  ASSUME LifeInv, load' = load, NEW w \in Worker, LoginKeep(w)
  PROVE  LifeInv'
<1>1. PICK t : t = task[w]
  OBVIOUS
<1>2. t.pc = "login.keep" /\ t.pc \in LoginPcs
  BY <1>1 DEF LoginKeep, At, LoginPcs
<1>3. LifeFine(t) /\ ~Unsaved(t) /\ LoginParts(t) /\ HasLogin(t) /\ LoginOf(t) = t.login /\ Known(t.login.handle)
  BY <1>1, <1>2, LoginAt
<1>4. {"out", "todo"} \subseteq DOMAIN t /\ t.out \subseteq Knowns /\ t.todo \subseteq t.out
  BY <1>2, <1>3, KeepAt
<1>5. PICK h \in t.todo : /\ closings' = closings \cup {h}
                          /\ IF t.todo = {h}
                             THEN \E g \in t.out : Go(w, Closing("pushed", g, t.out \ {g}, FALSE, t.login))
                             ELSE Go(w, [t EXCEPT !.todo = @ \ {h}])
  BY <1>1 DEF LoginKeep
<1>6. PICK n : /\ task' = [task EXCEPT ![w] = n]
               /\ \/ n = [t EXCEPT !.todo = @ \ {h}]
                  \/ \E g, failing : g \in t.out /\ n = Closing("pushed", g, t.out \ {g}, failing, t.login)
  BY <1>5 DEF Go
<1>7. LifeFine(n) /\ (\A g : Pends(n, g) => Pends(t, g)) /\ n.pc \notin UsePcs
  <2>1. CASE n = [t EXCEPT !.todo = @ \ {h}]
    <3>1. /\ {"pc", "login", "out", "todo"} \subseteq DOMAIN n /\ "h" \notin DOMAIN n /\ n.pc = "login.keep" /\ n.login = t.login
          /\ n.out = t.out /\ n.todo = t.todo \ {h}
      BY <1>2, <1>3, <1>4, <2>1 DEF LoginParts
    <3>2. LoginParts(n) /\ ~Unsaved(n)
      BY <3>1 DEF LoginParts, Unsaved, LoginPcs, ClosePcs
    <3>3. n.todo \subseteq n.out
      BY <1>4, <3>1
    <3>4. QED
      BY <1>3, <1>4, <3>1, <3>2, <3>3, LoginFurther
  <2>2. ASSUME NEW g \in t.out, NEW failing, n = Closing("pushed", g, t.out \ {g}, failing, t.login)
        PROVE  LifeFine(n) /\ (\A k : Pends(n, k) => Pends(t, k)) /\ n.pc \notin UsePcs
    <3>1. /\ DOMAIN n = {"pc", "for", "h", "rest", "failing", "with"} /\ n.pc = "close.add" /\ n.for = "pushed"
          /\ n.h = g /\ n.rest = t.out \ {g} /\ n.with = t.login
      BY <2>2 DEF Closing
    <3>2. LoginFine(t.login)
      BY <1>3 DEF LifeFine
    <3>3. HasLogin(n) /\ LoginOf(n) = t.login /\ ~Unsaved(n) /\ n.pc \notin UsePcs
      BY <3>1 DEF HasLogin, LoginOf, Unsaved, LoginPcs, ClosePcs, UsePcs, LivePcs, RaisePcs
    <3>4. LifeFine(n)
      BY <1>3, <1>4, <3>1, <3>2, <3>3 DEF LifeFine, LoginPcs, ClosePcs, UsePcs, LivePcs, RaisePcs, RevokePcs
    <3>5. QED
      BY <1>3, <3>3, <3>4 DEF Pends
  <2>3. QED
    BY <1>6, <2>1, <2>2
<1>8. closings' \subseteq Knowns /\ \A g \in closings : g \in closings'
  BY <1>4, <1>5 DEF LifeInv, StateFine
<1>9. LifeFine(n)'
  BY <1>7, <1>8, ClosingsStep DEF LoginKeep, revocationVars
<1>10. QED
  BY <1>1, <1>6, <1>7, <1>8, <1>9, ClosingsGo DEF LoginKeep, revocationVars

(* endOpen, of a session known.                                            *)
LEMMA EndOpenLasts ==
  ASSUME LifeInv, NEW h \in Handle, Known(h), EndOpen(h), SameButRecord, carried' = carried
  PROVE  /\ Lasts /\ StateFine' /\ index' = index
         /\ \A g \in Handle \ {h} : Unborn(g) => Unborn(g)'
         /\ \A t : LifeFine(t) => LifeFine(t)'
<1>1. ASSUME record[h].state # "open"
      PROVE  /\ Lasts /\ StateFine' /\ index' = index
             /\ \A g \in Handle \ {h} : Unborn(g) => Unborn(g)'
  <2>1. UNCHANGED <<record, over, closings, listed, cookieVars, finished, load, now>>
    BY <1>1 DEF EndOpen, SameButRecord, cookieVars
  <2>2. closings' \subseteq Knowns /\ \A g \in closings : g \in closings'
    BY <2>1 DEF LifeInv, StateFine
  <2>3. QED
    BY <2>1, <2>2, ClosingsStep
<1>2. ASSUME record[h].state = "open"
      PROVE  /\ Lasts /\ StateFine' /\ index' = index
             /\ \A g \in Handle \ {h} : Unborn(g) => Unborn(g)'
  <2>1. PICK r : r = [record[h] EXCEPT !.state = "closed"]
    OBVIOUS
  <2>2. record' = [record EXCEPT ![h] = r]
    BY <1>2, <2>1 DEF EndOpen
  <2>3. RecordFine(record[h])
    BY DEF LifeInv, StateFine
  <2>4. RecordFine(r) /\ r.state = "closed"
    BY <1>2, <2>1, <2>3 DEF RecordFine, Gone, Full
  <2>5. h \in drawn \cap load.handles /\ carried' \subseteq Secret \cap drawn
    BY IssuedKnown DEF LifeInv, StateFine
  <2>6. QED
    BY <2>2, <2>4, <2>5, RecordStep
<1>3. /\ Lasts /\ StateFine' /\ index' = index
      /\ \A g \in Handle \ {h} : Unborn(g) => Unborn(g)'
  BY <1>1, <1>2
<1>4. ASSUME NEW t, LifeFine(t) PROVE LifeFine(t)'
  <2>1. ASSUME Unsaved(t) PROVE Unborn(LoginOf(t).handle)'
    <3>1. PICK g : g = LoginOf(t).handle
      OBVIOUS
    <3>2. Unborn(g) /\ g \in Handle /\ g # h
      BY <1>4, <2>1, <3>1 DEF LifeFine, Unborn, Unsaved, HasLogin, LoginFine, LoginPcs
    <3>3. Unborn(g)'
      BY <1>3, <3>2
    <3>4. QED
      BY <3>1, <3>3
  <2>2. QED
    BY <1>3, <1>4, <2>1, FrameLasts DEF LifeInv, StateFine
<1>5. QED
  BY <1>3, <1>4

LEMMA LoginEndLife ==
  ASSUME LifeInv, load' = load, NEW w \in Worker, LoginEnd(w)
  PROVE  LifeInv'
<1>1. PICK t : t = task[w]
  OBVIOUS
<1>2. t.pc = "login.putback" /\ t.pc \in LoginPcs
  BY <1>1 DEF LoginEnd, At, LoginPcs
<1>3. LifeFine(t) /\ ~Unsaved(t) /\ LoginParts(t) /\ HasLogin(t) /\ LoginOf(t) = t.login
  BY <1>1, <1>2, LoginAt
<1>4. {"todo", "ending"} \subseteq DOMAIN t /\ t.todo \subseteq Knowns /\ t.ending \subseteq Knowns
  BY <1>2, <1>3, KeepAt
<1>5. PICK h, n : /\ h \in t.ending
                  /\ EndOpen(h) \/ record' = record
                  /\ n = [t EXCEPT !.ending = @ \ {h}]
                  /\ task' = [task EXCEPT ![w] = n]
  BY <1>1 DEF LoginEnd, Go
<1>6. /\ {"pc", "login", "todo", "ending"} \subseteq DOMAIN n /\ "h" \notin DOMAIN n /\ n.pc = "login.putback" /\ n.login = t.login
      /\ n.todo = t.todo /\ n.ending = t.ending \ {h}
  BY <1>2, <1>3, <1>4, <1>5 DEF LoginParts
<1>7. CASE record' = record
  BY <1>1, <1>2, <1>3, <1>4, <1>5, <1>6, <1>7, SameListed, LoginGoes DEF LoginEnd
<1>8. CASE EndOpen(h)
  <2>1. h \in Handle /\ Known(h)
    BY <1>4, <1>5 DEF Knowns
  <2>2. SameButRecord /\ carried' = carried
    BY DEF LoginEnd, SameButRecord, cookieVars, revocationVars
  <2>3. LoginParts(n) /\ ~Unsaved(n)
    BY <1>6 DEF LoginParts, Unsaved, LoginPcs, ClosePcs
  <2>4. n.todo \cup n.ending \subseteq Knowns
    BY <1>4, <1>6
  <2>5. LifeFine(n) /\ (\A g : Pends(n, g) => Pends(t, g)) /\ n.pc \notin UsePcs
    BY <1>3, <1>6, <2>3, <2>4, LoginFurther
  <2>6. QED
    BY <1>1, <1>5, <1>8, <2>1, <2>2, <2>5, EndOpenLasts, RecordGoes
<1>9. QED
  BY <1>5, <1>7, <1>8


(* A step that changes only the cookies.                                   *)
LEMMA CookiesStep ==
  ASSUME LifeInv, UNCHANGED <<load, now, record, over, closings, listed, finished>>,
         drawn \subseteq drawn', drawn' \subseteq Handle \cup Secret,
         index' \in [Secret -> Handle \cup {NoHandle}],
         \A s \in Secret : index'[s] # NoHandle => index'[s] \in Knowns,
         first' \cup carried' \subseteq Secret \cap drawn'
  PROVE  /\ Lasts /\ StateFine'
         /\ \A h : /\ Known(h)' <=> Known(h)
                   /\ Unborn(h)' <=> Unborn(h)
         /\ \A t : LifeFine(t) => LifeFine(t)'
<1>1. /\ load' = load /\ now' = now /\ record' = record /\ over' = over /\ closings' = closings
      /\ listed' = listed /\ finished' = finished
  OBVIOUS
<1>2. \A h : /\ Known(h)' <=> Known(h)
             /\ Unborn(h)' <=> Unborn(h)
             /\ Ended(h)' <=> Ended(h)
             /\ Claimed(h)' <=> Claimed(h)
  BY <1>1 DEF Known, Unborn, Ended, Claimed
<1>3. Knowns' = Knowns
  BY <1>1 DEF Knowns, Known
<1>4. StateFine'
  <2>1. ClosingKept'
    BY <1>1 DEF LifeInv, StateFine, ClosingKept
  <2>2. (\A h \in Handle : RecordFine(record[h]))'
    BY <1>1 DEF LifeInv, StateFine, RecordFine
  <2>3. (\A s \in Secret : index[s] # NoHandle => Known(index[s]))'
    BY <1>1 DEF Known, Knowns
  <2>4. Knowns \subseteq drawn' \cap load.handles
    BY DEF LifeInv, StateFine
  <2>5. QED
    BY <1>1, <1>3, <2>1, <2>2, <2>3, <2>4 DEF LifeInv, StateFine
<1>5. Lasts
  BY <1>1, <1>2, RevocationAssumption DEF Lasts, LifeInv, StateFine
<1>6. ASSUME NEW t, LifeFine(t) PROVE LifeFine(t)'
  <2>1. Unsaved(t) => Unborn(LoginOf(t).handle)'
    BY <1>2, <1>6 DEF LifeFine, Unborn
  <2>2. QED
    BY <1>5, <1>6, <2>1, FrameLasts DEF LifeInv, StateFine
<1>7. QED
  BY <1>2, <1>4, <1>5, <1>6

LEMMA LoginIssueLife ==
  ASSUME LifeInv, load' = load, NEW w \in Worker, LoginIssue(w)
  PROVE  LifeInv'
<1>1. PICK t, h : t = task[w] /\ h = t.login.handle
  OBVIOUS
<1>2. t.pc = "login.issue" /\ t.pc \in LoginPcs
  BY <1>1 DEF LoginIssue, At, LoginPcs
<1>3. h \in Handle /\ Known(h) /\ Pends(t, h)
  BY <1>1, <1>2, LoginAt
<1>4. PICK s, n :
        /\ s \in Secret \ drawn
        /\ drawn' = drawn \cup {s} /\ first' = first \cup {s}
        /\ index' = [index EXCEPT ![s] = h]
        /\ n = [pc |-> "login.answer", s |-> s]
        /\ task' = [task EXCEPT ![w] = n]
  BY <1>1 DEF LoginIssue, Go
<1>5. UNCHANGED <<load, now, record, over, closings, listed, finished>> /\ carried' = carried
  BY DEF LoginIssue, revocationVars
<1>6. DOMAIN n = {"pc", "s"} /\ n.pc = "login.answer" /\ n.s = s
  BY <1>4
<1>7. LifeFine(n)' /\ (\A g : ~Pends(n, g)) /\ n.pc \notin UsePcs
  BY <1>4, <1>6 DEF LifeFine, Pends, HasLogin, Unsaved, LoginPcs, ClosePcs, UsePcs, LivePcs, RaisePcs, RevokePcs
<1>8. /\ drawn \subseteq drawn' /\ drawn' \subseteq Handle \cup Secret
      /\ index' \in [Secret -> Handle \cup {NoHandle}]
      /\ first' \cup carried' \subseteq Secret \cap drawn'
      /\ \A r \in Secret : index'[r] = index[r] \/ index'[r] = h
  BY <1>3, <1>4, <1>5 DEF LifeInv, StateFine
<1>9. \A r \in Secret : index'[r] # NoHandle => index'[r] \in Knowns
  BY <1>3, <1>8 DEF LifeInv, StateFine, Knowns
<1>10. /\ Lasts /\ StateFine'
       /\ \A g : (Known(g)' <=> Known(g)) /\ (Unborn(g)' <=> Unborn(g))
  BY <1>5, <1>8, <1>9, CookiesStep
<1>11. \A g \in Handle : (\E r \in Secret : index'[r] = g) => Issued(g) \/ (Pends(task[w], g) /\ ~Pends(n, g))
  BY <1>1, <1>3, <1>7, <1>8 DEF Issued
<1>12. QED
  BY <1>4, <1>7, <1>10, <1>11, Step

LEMMA LoginAnswerLife ==
  ASSUME LifeInv, load' = load, NEW w \in Worker, LoginAnswer(w)
  PROVE  LifeInv'
<1>1. PICK t, n : t = task[w] /\ n = Idle(Nothing)
  OBVIOUS
<1>2. t.s \in Secret \cap drawn
  BY <1>1 DEF LoginAnswer, At, LifeInv, LifeFine
<1>3. task' = [task EXCEPT ![w] = n] /\ LifeFine(n) /\ (\A g : ~Pends(n, g)) /\ n.pc \notin UsePcs
  BY <1>1, IdleFine DEF LoginAnswer, Answer, Go
<1>4. /\ UNCHANGED <<load, now, record, over, closings, listed, finished>>
      /\ carried' = carried \cup {t.s} /\ index' = index /\ drawn' = drawn /\ first' = first
  BY <1>1 DEF LoginAnswer, revocationVars
<1>5. /\ drawn' \subseteq Handle \cup Secret /\ index' \in [Secret -> Handle \cup {NoHandle}]
      /\ first' \cup carried' \subseteq Secret \cap drawn'
      /\ \A s \in Secret : index'[s] # NoHandle => index'[s] \in Knowns
  BY <1>2, <1>4 DEF LifeInv, StateFine, Knowns
<1>6. /\ Lasts /\ StateFine'
      /\ \A g : (Known(g)' <=> Known(g)) /\ (Unborn(g)' <=> Unborn(g))
      /\ \A u : LifeFine(u) => LifeFine(u)'
  BY <1>4, <1>5, CookiesStep
<1>7. \A g \in Handle : (\E s \in Secret : index'[s] = g) => Issued(g)
  BY <1>4 DEF Issued
<1>8. QED
  BY <1>3, <1>6, <1>7, Step

LEMMA LoginLife ==
  ASSUME LifeInv, load' = load, NEW w \in Worker, LoginStep(w)
  PROVE  LifeInv'
<1>1. ASSUME LoginRefused(w) PROVE LifeInv'
  BY <1>1, QuietAnswers DEF LoginRefused
<1>2. QED
  BY <1>1, LoginStampLife, LoginSaveLife, LoginCheckLife, LoginListLife, LoginKeepLife, LoginTakeBackLife,
     LoginReadLeftLife, LoginRelistLife, LoginEndLife, LoginIssueLife, LoginAnswerLife DEF LoginStep

----------------------------------------------------------------------------
(* Entering and raising.                                                   *)
LEMMA UseFine ==
  ASSUME NEW n, {"pc", "s", "h"} \subseteq DOMAIN n, n.pc \in UsePcs, n.s \in Secret, Known(n.h),
         n.pc \in LivePcs => {"for", "found", "again"} \subseteq DOMAIN n /\ n.for \in {"enter", "raise"},
         n.pc \in RaisePcs => "new" \in DOMAIN n /\ n.new \in Secret \cap drawn
  PROVE  LifeFine(n) /\ (\A g : ~Pends(n, g))
<1>1. n.pc \notin LoginPcs \cup ClosePcs \cup RevokePcs \cup {"idle", "login.answer"}
  BY DEF LoginPcs, ClosePcs, UsePcs, LivePcs, RaisePcs, RevokePcs
<1>2. ~HasLogin(n) /\ ~Unsaved(n)
  BY <1>1 DEF HasLogin, Unsaved, LoginPcs
<1>3. LifeFine(n)
  BY <1>1, <1>2 DEF LifeFine, LoginPcs, ClosePcs, RevokePcs
<1>4. QED
  BY <1>2, <1>3 DEF Pends

LEMMA UseAt ==
  ASSUME LifeInv, NEW w \in Worker, NEW t, t = task[w], t.pc \in UsePcs
  PROVE  /\ LifeFine(t) /\ {"pc", "s", "h"} \subseteq DOMAIN t /\ t.s \in Secret
         /\ t.h \in Handle /\ Known(t.h) /\ Issued(t.h)
         /\ t.pc \in LivePcs => {"for", "found", "again"} \subseteq DOMAIN t /\ t.for \in {"enter", "raise"}
         /\ t.pc \in RaisePcs => "new" \in DOMAIN t /\ t.new \in Secret \cap drawn
<1>1. LifeFine(t)
  BY DEF LifeInv
<1>2. Issued(t.h)
  BY DEF Issued
<1>3. QED
  BY <1>1, <1>2 DEF LifeFine, Known

(* A use further on, of the same cookie and session.                       *)
LEMMA UseGoes ==
  ASSUME LifeInv, load' = load, NEW w \in Worker, NEW n, task' = [task EXCEPT ![w] = n],
         LifeFine(n), \A g : ~Pends(n, g), Issued(n.h),
         UNCHANGED <<revocationVars, record, over, closings, listed, cookieVars, finished>>
  PROVE  LifeInv'
BY SameListed, Quiet

LEMMA StartUseLife ==
  ASSUME LifeInv, load' = load, NEW w \in Worker, NEW use \in {"enter", "raise"}, StartUse(w, use)
  PROVE  LifeInv'
<1>1. UNCHANGED <<revocationVars, record, over, closings, listed, cookieVars, finished>>
  BY DEF StartUse
<1>2. PICK s, n :
     /\ s \in carried
     /\ \/ Answer(w, Nothing)
        \/ /\ index[s] # NoHandle /\ task' = [task EXCEPT ![w] = n]
           /\ n = [pc |-> "live.read", for |-> use, s |-> s, h |-> index[s], found |-> Gone, again |-> FALSE]
  BY DEF StartUse, Go
<1>3. CASE Answer(w, Nothing)
  BY <1>1, <1>3, QuietAnswers
<1>4. CASE /\ index[s] # NoHandle /\ task' = [task EXCEPT ![w] = n]
           /\ n = [pc |-> "live.read", for |-> use, s |-> s, h |-> index[s], found |-> Gone, again |-> FALSE]
  <2>1. DOMAIN n = {"pc", "for", "s", "h", "found", "again"} /\ n.pc = "live.read" /\ n.s = s /\ n.h = index[s] /\ n.for = use
    BY <1>4
  <2>2. n.s \in Secret /\ Known(n.h) /\ Issued(n.h)
    BY <1>2, <1>4, <2>1, OpenedKnown
  <2>3. LifeFine(n) /\ \A g : ~Pends(n, g)
    BY <2>1, <2>2, UseFine DEF UsePcs, LivePcs, RaisePcs
  <2>4. QED
    BY <1>1, <1>4, <2>2, <2>3, UseGoes
<1>5. QED
  BY <1>2, <1>3, <1>4


LiveParts == {"pc", "s", "h", "for", "found", "again"}

LEMMA LiveMoves ==
  ASSUME LifeInv, load' = load, NEW w \in Worker, task[w].pc \in LivePcs,
         NEW n, task' = [task EXCEPT ![w] = n], LiveParts \subseteq DOMAIN n, n.pc \in LivePcs,
         n.s = task[w].s, n.h = task[w].h, n.for = task[w].for,
         UNCHANGED <<revocationVars, record, over, closings, listed, cookieVars, finished>>
  PROVE  LifeInv'
<1>1. PICK t : t = task[w]
  OBVIOUS
<1>2. t.pc \in UsePcs /\ n.pc \in UsePcs /\ n.pc \notin RaisePcs
  BY <1>1 DEF UsePcs, LivePcs, RaisePcs
<1>3. t.s \in Secret /\ Known(t.h) /\ Issued(t.h) /\ t.for \in {"enter", "raise"}
  BY <1>1, <1>2, UseAt
<1>4. LifeFine(n) /\ \A g : ~Pends(n, g)
  BY <1>1, <1>2, <1>3, UseFine DEF LiveParts
<1>5. QED
  BY <1>1, <1>3, <1>4, UseGoes

LEMMA LiveReadLife ==
  ASSUME LifeInv, load' = load, NEW w \in Worker, LiveRead(w)
  PROVE  LifeInv'
<1>1. PICK t : t = task[w]
  OBVIOUS
<1>2. t.pc = "live.read" /\ t.pc \in LivePcs /\ t.pc \in UsePcs
  BY <1>1 DEF LiveRead, At, LivePcs, UsePcs
<1>3. LiveParts \subseteq DOMAIN t
  BY <1>1, <1>2, UseAt DEF LiveParts
<1>4. PICK found, n : \/ Answer(w, Nothing)
                      \/ /\ task' = [task EXCEPT ![w] = n]
                         /\ n = [t EXCEPT !.pc = "live.end"] \/ n = [t EXCEPT !.pc = "live.check", !.found = found]
  BY <1>1 DEF LiveRead, Absentee, Go
<1>5. CASE Answer(w, Nothing)
  BY <1>5, QuietAnswers DEF LiveRead
<1>6. CASE /\ task' = [task EXCEPT ![w] = n]
           /\ n = [t EXCEPT !.pc = "live.end"] \/ n = [t EXCEPT !.pc = "live.check", !.found = found]
  <2>1. LiveParts \subseteq DOMAIN n /\ n.pc \in LivePcs /\ n.s = t.s /\ n.h = t.h /\ n.for = t.for
    BY <1>3, <1>6 DEF LiveParts, LivePcs
  <2>2. QED
    BY <1>1, <1>2, <1>6, <2>1, LiveMoves DEF LiveRead
<1>7. QED
  BY <1>4, <1>5, <1>6

LEMMA LiveEndLife ==
  ASSUME LifeInv, load' = load, NEW w \in Worker, LiveEnd(w)
  PROVE  LifeInv'
<1>1. PICK t, h, n : t = task[w] /\ h = t.h /\ n = Idle(Nothing)
  OBVIOUS
<1>2. t.pc = "live.end" /\ t.pc \in UsePcs
  BY <1>1 DEF LiveEnd, At, LivePcs, UsePcs
<1>3. h \in Handle /\ Known(h)
  BY <1>1, <1>2, UseAt
<1>4. EndOpen(h) /\ SameButRecord /\ carried' = carried
  BY <1>1 DEF LiveEnd, SameButRecord, cookieVars, revocationVars
<1>5. task' = [task EXCEPT ![w] = n] /\ LifeFine(n) /\ (\A g : ~Pends(n, g)) /\ n.pc \notin UsePcs
  BY <1>1, IdleFine DEF LiveEnd, Absentee, Answer, Go
<1>6. QED
  BY <1>3, <1>4, <1>5, EndOpenLasts, RecordGoes

LEMMA LiveCheckLife ==
  ASSUME LifeInv, load' = load, NEW w \in Worker, LiveCheck(w)
  PROVE  LifeInv'
<1>1. PICK t : t = task[w]
  OBVIOUS
<1>2. t.pc = "live.check" /\ t.pc \in LivePcs /\ t.pc \in UsePcs
  BY <1>1 DEF LiveCheck, At, LivePcs, UsePcs
<1>3. LiveParts \subseteq DOMAIN t
  BY <1>1, <1>2, UseAt DEF LiveParts
<1>4. UNCHANGED <<revocationVars, record, over, closings, listed, cookieVars, finished>>
  BY DEF LiveCheck
<1>5. CASE Answer(w, Nothing)
  BY <1>4, <1>5, QuietAnswers
<1>6. ASSUME NEW n, task' = [task EXCEPT ![w] = n],
             \/ n = [t EXCEPT !.pc = "raise.issue"]
             \/ n = [t EXCEPT !.pc = "live.read", !.again = TRUE]
             \/ n = [t EXCEPT !.pc = "enter.index"]
      PROVE  LifeInv'
  <2>1. LiveParts \subseteq DOMAIN n /\ n.pc \in LivePcs /\ n.s = t.s /\ n.h = t.h /\ n.for = t.for
    BY <1>3, <1>6 DEF LiveParts, LivePcs
  <2>2. QED
    BY <1>1, <1>2, <1>4, <1>6, <2>1, LiveMoves
<1>7. CASE Revoked(Owner[t.h], t.found.openedAt)
  BY <1>1, <1>5, <1>7 DEF LiveCheck, Absentee
<1>8. CASE ~Revoked(Owner[t.h], t.found.openedAt) /\ t.for = "raise"
  BY <1>1, <1>6, <1>8 DEF LiveCheck, Go
<1>9. CASE ~Revoked(Owner[t.h], t.found.openedAt) /\ t.for = "enter"
  <2>1. CASE t.again
    BY <1>1, <1>5, <1>6, <1>9, <2>1 DEF LiveCheck, Go
  <2>2. CASE ~t.again
    BY <1>1, <1>6, <1>9, <2>2 DEF LiveCheck, Go
  <2>3. QED
    BY <2>1, <2>2
<1>10. t.for \in {"raise", "enter"}
  BY <1>1, <1>2, UseAt
<1>11. QED
  BY <1>7, <1>8, <1>9, <1>10

LEMMA EnterIndexLife ==
  ASSUME LifeInv, load' = load, NEW w \in Worker, EnterIndex(w)
  PROVE  LifeInv'
BY QuietAnswers DEF EnterIndex, Absentee

(* A raise goes on with its session, which it gives another cookie.        *)
LEMMA RaiseGoes ==
  ASSUME LifeInv, NEW w \in Worker, NEW t, t = task[w], t.pc \in UsePcs,
         UNCHANGED <<load, now, record, over, closings, listed, finished, carried, first>>,
         drawn \subseteq drawn', drawn' \subseteq Handle \cup Secret,
         NEW r \in Secret, index' = [index EXCEPT ![r] = t.h] \/ index' = [index EXCEPT ![r] = NoHandle],
         NEW n, task' = [task EXCEPT ![w] = n], LifeFine(n) \/ LifeFine(n)', \A g : ~Pends(n, g), n.h = t.h
  PROVE  LifeInv'
<1>1. t.h \in Handle /\ Known(t.h) /\ Issued(t.h)
  BY UseAt
<1>2. /\ index' \in [Secret -> Handle \cup {NoHandle}]
      /\ \A s \in Secret : index'[s] \in {index[s], t.h, NoHandle}
  BY <1>1 DEF LifeInv, StateFine
<1>3. \A s \in Secret : index'[s] # NoHandle => index'[s] \in Knowns
  BY <1>1, <1>2 DEF LifeInv, StateFine, Knowns
<1>4. first \cup carried \subseteq Secret \cap drawn'
  BY DEF LifeInv, StateFine
<1>5. /\ Lasts /\ StateFine'
      /\ \A g : (Known(g)' <=> Known(g)) /\ (Unborn(g)' <=> Unborn(g))
      /\ \A u : LifeFine(u) => LifeFine(u)'
  BY <1>2, <1>3, <1>4, CookiesStep
<1>6. \A g \in Handle : (\E s \in Secret : index'[s] = g) \/ (n.pc \in UsePcs /\ n.h = g) => Issued(g)
  BY <1>1, <1>2, LifecycleAssumption DEF Issued
<1>7. QED
  BY <1>5, <1>6, Step

LEMMA RaiseIssueLife ==
  ASSUME LifeInv, load' = load, NEW w \in Worker, RaiseIssue(w)
  PROVE  LifeInv'
<1>1. PICK t : t = task[w]
  OBVIOUS
<1>2. t.pc = "raise.issue" /\ t.pc \in UsePcs
  BY <1>1 DEF RaiseIssue, At, LivePcs, UsePcs
<1>3. t.s \in Secret /\ Known(t.h)
  BY <1>1, <1>2, UseAt
<1>4. PICK r, n :
        /\ r \in Secret \ drawn
        /\ drawn' = drawn \cup {r} /\ index' = [index EXCEPT ![r] = t.h]
        /\ n = [pc |-> "raise.retire", s |-> t.s, h |-> t.h, new |-> r]
        /\ task' = [task EXCEPT ![w] = n]
  BY <1>1 DEF RaiseIssue, Go
<1>5. DOMAIN n = {"pc", "s", "h", "new"} /\ n.pc = "raise.retire" /\ n.s = t.s /\ n.h = t.h /\ n.new = r
  BY <1>4
<1>6. ~HasLogin(n) /\ \A g : ~Pends(n, g)
  BY <1>5 DEF Pends, HasLogin, LoginPcs, ClosePcs
<1>7. UNCHANGED <<load, now, record, over, closings, listed, finished, carried, first>>
  BY DEF RaiseIssue, revocationVars
<1>7a. LifeFine(n)'
  BY <1>3, <1>4, <1>5, <1>6, <1>7 DEF LifeFine, Known, Unsaved, HasLogin, LoginPcs, ClosePcs, UsePcs, LivePcs, RaisePcs, RevokePcs
<1>8. drawn \subseteq drawn' /\ drawn' \subseteq Handle \cup Secret
  BY <1>4 DEF LifeInv, StateFine
<1>9. QED
  BY <1>1, <1>2, <1>4, <1>5, <1>6, <1>7, <1>7a, <1>8, RaiseGoes

LEMMA RaiseRetireLife ==
  ASSUME LifeInv, load' = load, NEW w \in Worker, RaiseRetire(w)
  PROVE  LifeInv'
<1>1. PICK t, n : t = task[w] /\ n = [t EXCEPT !.pc = "raise.update"]
  OBVIOUS
<1>2. t.pc = "raise.retire" /\ t.pc \in RaisePcs /\ t.pc \in UsePcs
  BY <1>1 DEF RaiseRetire, At, RaisePcs, UsePcs
<1>3. {"pc", "s", "h", "new"} \subseteq DOMAIN t /\ t.s \in Secret /\ Known(t.h) /\ t.new \in Secret \cap drawn
  BY <1>1, <1>2, UseAt
<1>4. {"pc", "s", "h", "new"} \subseteq DOMAIN n /\ n.pc = "raise.update" /\ n.s = t.s /\ n.h = t.h /\ n.new = t.new
  BY <1>1, <1>3
<1>5. LifeFine(n) /\ \A g : ~Pends(n, g)
  BY <1>3, <1>4, UseFine DEF UsePcs, LivePcs, RaisePcs
<1>6. UNCHANGED <<load, now, record, over, closings, listed, finished, carried, first>>
  BY DEF RaiseRetire, revocationVars
<1>7. drawn' = drawn /\ drawn \subseteq Handle \cup Secret
  BY DEF RaiseRetire, LifeInv, StateFine
<1>8. index' = [index EXCEPT ![t.s] = NoHandle] /\ task' = [task EXCEPT ![w] = n]
  BY <1>1 DEF RaiseRetire, Go
<1>9. QED
  BY <1>1, <1>2, <1>3, <1>4, <1>5, <1>6, <1>7, <1>8, RaiseGoes


LEMMA RaiseUpdateLife ==
  ASSUME LifeInv, load' = load, NEW w \in Worker, RaiseUpdate(w)
  PROVE  LifeInv'
<1>1. PICK t, h, n : t = task[w] /\ h = t.h /\ n = Idle(Nothing)
  OBVIOUS
<1>2. t.pc = "raise.update" /\ t.pc \in RaisePcs /\ t.pc \in UsePcs
  BY <1>1 DEF RaiseUpdate, At, RaisePcs, UsePcs
<1>3. t.new \in Secret /\ t.new \in drawn /\ h \in Handle /\ Known(h)
  BY <1>1, <1>2, UseAt
<1>4. task' = [task EXCEPT ![w] = n] /\ LifeFine(n) /\ (\A g : ~Pends(n, g)) /\ n.pc \notin UsePcs
  BY <1>1, IdleFine DEF RaiseUpdate, Answer, Go
<1>5. UNCHANGED <<revocationVars, over, closings, listed, index, drawn, first, finished>>
  BY DEF RaiseUpdate
<1>6. CASE record' = record /\ carried' = carried
  <2>1. UNCHANGED <<revocationVars, record, over, closings, listed, cookieVars, finished>>
    BY <1>5, <1>6 DEF cookieVars
  <2>2. QED
    BY <1>1, <1>4, <2>1, QuietAnswers DEF Go, Answer
<1>8. CASE record' = record /\ carried' = carried \cup {t.new}
  <2>1. UNCHANGED <<load, now, record, over, closings, listed, finished>> /\ index' = index /\ drawn' = drawn /\ first' = first
    BY <1>5, <1>8 DEF revocationVars
  <2>2. /\ drawn' \subseteq Handle \cup Secret /\ index' \in [Secret -> Handle \cup {NoHandle}]
        /\ \A s \in Secret : index'[s] # NoHandle => index'[s] \in Knowns
    BY <2>1 DEF LifeInv, StateFine, Knowns
  <2>3. first' \cup carried' \subseteq Secret \cap drawn'
    BY <1>3, <1>8, <2>1 DEF LifeInv, StateFine
  <2>4. /\ Lasts /\ StateFine'
        /\ \A g : (Known(g)' <=> Known(g)) /\ (Unborn(g)' <=> Unborn(g))
        /\ \A u : LifeFine(u) => LifeFine(u)'
    BY <2>1, <2>2, <2>3, CookiesStep
  <2>5. \A g \in Handle : (\E s \in Secret : index'[s] = g) => Issued(g)
    BY <2>1 DEF Issued
  <2>6. QED
    BY <1>4, <2>4, <2>5, Step
<1>9. CASE record[h].state = "open" /\ record' = [record EXCEPT ![h].raised = TRUE] /\ carried' = carried \cup {t.new}
  <2>1. PICK r : r = [record[h] EXCEPT !.raised = TRUE]
    OBVIOUS
  <2>2. record' = [record EXCEPT ![h] = r] /\ SameButRecord
    BY <1>5, <1>9, <2>1 DEF SameButRecord, revocationVars
  <2>3. RecordFine(record[h])
    BY <1>3 DEF LifeInv, StateFine
  <2>4. RecordFine(r) /\ r.state = "open"
    BY <1>9, <2>1, <2>3 DEF RecordFine, Gone, Full
  <2>5. h \in drawn \cap load.handles /\ carried' \subseteq Secret \cap drawn
    BY <1>3, <1>9, IssuedKnown DEF LifeInv, StateFine
  <2>6. ~Claimed(h) /\ ~Ended(h)
    BY <1>9 DEF Claimed, Ended
  <2>7. /\ Lasts /\ StateFine' /\ index' = index /\ record'[h] = r /\ Known(h)'
        /\ \A g \in Handle \ {h} : Unborn(g) => Unborn(g)'
    BY <1>3, <2>2, <2>4, <2>5, <2>6, RecordStep
  <2>8. LifeFine(n)'
    <3>1. \A x : LifeFine(Idle(x))'
      BY DEF Idle, LifeFine, HasLogin, Unsaved, ClosePcs, LoginPcs, UsePcs, LivePcs, RaisePcs, RevokePcs
    <3>2. QED
      BY <1>1, <3>1
  <2>9. QED
    BY <1>3, <1>4, <2>7, <2>8, RecordGoes
<1>10. QED
  BY <1>1, <1>6, <1>8, <1>9 DEF RaiseUpdate

LEMMA UseLife ==
  ASSUME LifeInv, load' = load, NEW w \in Worker, UseStep(w)
  PROVE  LifeInv'
BY LiveReadLife, LiveEndLife, LiveCheckLife, EnterIndexLife, RaiseIssueLife, RaiseRetireLife, RaiseUpdateLife
   DEF UseStep

----------------------------------------------------------------------------
(* What passes beside the workers.                                         *)
LEMMA Besides ==
  ASSUME LifeInv, task' = task, index' = index, Lasts, StateFine', \A h \in Handle : Unborn(h) => Unborn(h)'
  PROVE  LifeInv'
<1>1. ASSUME NEW v \in Worker, NEW t, t = task[v] PROVE LifeFine(t)'
  <2>1. LifeFine(t) /\ now \in 0 .. MaxNow
    BY <1>1 DEF LifeInv, StateFine
  <2>2. ASSUME Unsaved(t) PROVE Unborn(LoginOf(t).handle)'
    <3>1. PICK g : g = LoginOf(t).handle
      OBVIOUS
    <3>2. Unborn(g) /\ g \in Handle
      BY <2>1, <2>2, <3>1 DEF LifeFine, Unborn, Unsaved, HasLogin, LoginFine, LoginPcs
    <3>3. QED
      BY <3>1, <3>2
  <2>3. QED
    BY <2>1, <2>2, FrameLasts
<1>2. \A v \in Worker : \A t : t = task'[v] => LifeFine(t)'
  BY <1>1
<1>3. (\A v \in Worker : LifeFine(task[v]))'
  BY <1>2 DEF LifeFine, LoginFine, Unsaved, HasLogin, LoginOf, Known, Ended, Claimed
<1>4. /\ (\A u, v \in Worker : \A h \in Handle : Pends(task[u], h) /\ Pends(task[v], h) => u = v)'
      /\ (\A h \in Handle : ~(Pending(h) /\ Issued(h)))'
  BY DEF LifeInv, Pending, Issued, Pends, HasLogin, LoginOf
<1>5. QED
  BY <1>3, <1>4 DEF LifeInv

LEMMA LifetimePassesLife ==
  ASSUME LifeInv, load' = load, NEW h \in Handle, LifetimePasses(h)
  PROVE  LifeInv'
<1>1. /\ load' = load /\ now' = now /\ record' = record /\ over' = over \cup {h} /\ closings' = closings
      /\ listed' = listed /\ index' = index /\ drawn' = drawn /\ carried' = carried /\ first' = first
      /\ finished' = finished /\ task' = task /\ record[h].state \in {"open", "closing"}
  BY DEF LifetimePasses, revocationVars, cookieVars
<1>2. \A g : /\ Known(g)' <=> Known(g)
             /\ Unborn(g)' <=> Unborn(g)
             /\ Ended(g)' <=> Ended(g)
             /\ Claimed(g)' <=> Claimed(g)
  BY <1>1 DEF Known, Unborn, Ended, Claimed
<1>3. Knowns' = Knowns /\ over' \subseteq Knowns
  <2>1. Known(h)
    BY <1>1 DEF Known
  <2>2. Knowns' = Knowns
    BY <1>2 DEF Knowns
  <2>3. QED
    BY <1>1, <2>1, <2>2 DEF LifeInv, StateFine, Knowns
<1>4. StateFine'
  <2>1. ClosingKept' /\ (\A g \in Handle : RecordFine(record[g]))'
    BY <1>1 DEF LifeInv, StateFine, ClosingKept, RecordFine
  <2>2. (\A s \in Secret : index[s] # NoHandle => Known(index[s]))'
    BY <1>1, <1>2 DEF LifeInv, StateFine, Known
  <2>3. QED
    BY <1>1, <1>3, <2>1, <2>2 DEF LifeInv, StateFine
<1>5. Lasts
  BY <1>1, <1>2, RevocationAssumption DEF Lasts, LifeInv, StateFine
<1>6. QED
  BY <1>1, <1>2, <1>4, <1>5, Besides

LEMMA StoreDropsLife ==
  ASSUME LifeInv, load' = load, NEW h \in Handle, StoreDrops(h)
  PROVE  LifeInv'
<1>1. /\ load' = load /\ now' = now /\ record' = [record EXCEPT ![h] = Gone] /\ over' = over \cup {h}
      /\ closings' = closings /\ listed' = listed /\ index' = index /\ drawn' = drawn /\ carried' = carried
      /\ first' = first /\ finished' = finished /\ task' = task
      /\ record[h].state \in {"open", "closed", "mark"}
  BY DEF StoreDrops, revocationVars, cookieVars
<1>2. DOMAIN record' = Handle /\ record'[h] = Gone /\ \A g \in Handle \ {h} : record'[g] = record[g]
  BY <1>1 DEF LifeInv, StateFine
<1>3. Known(h) /\ Known(h)' /\ Ended(h)' /\ Claimed(h)'
  BY <1>1, <1>2 DEF Known, Ended, Claimed, Gone
<1>4. \A g \in Handle \ {h} : /\ Known(g)' <=> Known(g)
                              /\ Unborn(g)' <=> Unborn(g)
                              /\ Ended(g)' <=> Ended(g)
                              /\ Claimed(g)' <=> Claimed(g)
  BY <1>1, <1>2 DEF Known, Unborn, Ended, Claimed
<1>5. Knowns' = Knowns
  BY <1>3, <1>4 DEF Knowns
<1>6. StateFine'
  <2>1. ClosingKept' /\ (\A g \in Handle : RecordFine(record[g]))'
    BY <1>1, <1>2 DEF LifeInv, StateFine, ClosingKept, RecordFine, Gone
  <2>2. (\A s \in Secret : index[s] # NoHandle => Known(index[s]))'
    BY <1>1, <1>5 DEF LifeInv, StateFine, Knowns, Known
  <2>3. over' \subseteq Knowns
    BY <1>1, <1>3 DEF LifeInv, StateFine, Knowns
  <2>4. QED
    BY <1>1, <1>2, <1>5, <2>1, <2>2, <2>3 DEF LifeInv, StateFine
<1>7. Lasts
  BY <1>1, <1>3, <1>4, RevocationAssumption DEF Lasts, LifeInv, StateFine
<1>8. \A g \in Handle : Unborn(g) => Unborn(g)'
  BY <1>3, <1>4 DEF Unborn
<1>9. QED
  BY <1>1, <1>6, <1>7, <1>8, Besides

LEMMA ListingEndsLife ==
  ASSUME LifeInv, load' = load, NEW h \in Handle, ListingEnds(h)
  PROVE  LifeInv'
<1>1. SameButListed /\ task' = task /\ Listed(listed')
  BY DEF ListingEnds, SameButListed, Listed, LifeInv, StateFine
<1>2. QED
  BY <1>1, SameLasts, Besides

LEMMA ClockLife ==
  ASSUME LifeInv, load' = load, ClockTicks, UNCHANGED sessionVars
  PROVE  LifeInv'
<1>1. /\ load' = load /\ now' = now + 1 /\ now < MaxNow /\ record' = record /\ over' = over /\ closings' = closings
      /\ listed' = listed /\ index' = index /\ drawn' = drawn /\ carried' = carried /\ first' = first
      /\ finished' = finished /\ task' = task
  BY DEF ClockTicks, sessionVars, cookieVars
<1>2. \A h : /\ Known(h)' <=> Known(h)
             /\ Unborn(h)' <=> Unborn(h)
             /\ Ended(h)' <=> Ended(h)
             /\ Claimed(h)' <=> Claimed(h)
  BY <1>1 DEF Known, Unborn, Ended, Claimed
<1>3. now \in 0 .. MaxNow /\ now' \in 0 .. MaxNow /\ 0 .. now \subseteq 0 .. now' /\ now <= now'
  BY <1>1, RevocationAssumption DEF LifeInv, StateFine
<1>4. StateFine'
  <2>1. Knowns' = Knowns
    BY <1>1 DEF Knowns, Known
  <2>2. ClosingKept' /\ (\A h \in Handle : RecordFine(record[h]))'
    BY <1>1, <1>3 DEF LifeInv, StateFine, ClosingKept, RecordFine
  <2>3. (\A s \in Secret : index[s] # NoHandle => Known(index[s]))'
    BY <1>1 DEF LifeInv, StateFine, Known
  <2>4. QED
    BY <1>1, <1>3, <2>1, <2>2, <2>3 DEF LifeInv, StateFine
<1>5. Lasts
  BY <1>1, <1>2, <1>3 DEF Lasts, LifeInv, StateFine
<1>6. QED
  BY <1>1, <1>2, <1>4, <1>5, Besides

LEMMA LifeStutters ==
  ASSUME LifeInv, UNCHANGED vars
  PROVE  LifeInv'
<1>1. SameButListed /\ task' = task /\ listed' = listed /\ load' = load
  BY DEF vars, sessionVars, SameButListed
<1>2. Listed(listed')
  BY <1>1 DEF Listed, LifeInv, StateFine
<1>3. QED
  BY <1>1, <1>2, SameLasts, Besides

LEMMA LifeSteps == LifeInv /\ [Next]_vars => LifeInv'
<1> SUFFICES ASSUME LifeInv, [Next]_vars PROVE LifeInv'
  OBVIOUS
<1>1. CASE UNCHANGED vars
  BY <1>1, LifeStutters
<1>2. CASE Next
  <2>1. load' = load
    BY <1>2 DEF Next
  <2>2. ASSUME NEW w \in Worker, RevokeStep(w) \/ Vanish(w) PROVE LifeInv'
    BY <2>1, <2>2, RevokeWriteLife, RevokeListLife, QuietAnswers DEF RevokeStep, RevokeLate, Vanish
  <2>3. ASSUME NEW w \in Worker, Work(w) PROVE LifeInv'
    BY <2>1, <2>2, <2>3, CloseLife, LoginLife, UseLife DEF Work
  <2>4. ASSUME NEW w \in Worker, Start(w) PROVE LifeInv'
    BY <2>1, <2>4, StartCloseLife, StartSweepLife, StartLoginLife, StartUseLife, StartRevokeLife DEF Start
  <2>5. ASSUME NEW h \in Handle, LifetimePasses(h) \/ StoreDrops(h) \/ ListingEnds(h) PROVE LifeInv'
    BY <2>1, <2>5, LifetimePassesLife, StoreDropsLife, ListingEndsLife
  <2>6. QED
    BY <1>2, <2>1, <2>2, <2>3, <2>4, <2>5, ClockLife DEF Next
<1>3. QED
  BY <1>1, <1>2


(* At first: the sessions open before, each with a cookie of its own.      *)
LEMMA AtFirst ==
  ASSUME Init
  PROVE  /\ load \in Loads /\ load.before \subseteq load.handles /\ load.handles \subseteq Handle
         /\ now = 0 /\ over = {} /\ closings = {} /\ carried = first /\ drawn = load.before \cup first
         /\ first \subseteq Secret /\ finished = [h \in Handle |-> {}] /\ task = [w \in Worker |-> Idle(Nothing)]
         /\ listed = [s \in Subject |-> {h \in load.before : Owner[h] = s}]
         /\ DOMAIN record = Handle
         /\ \A h \in Handle : record[h] = IF h \in load.before THEN Opening(0, 0) ELSE Gone
         /\ index \in [Secret -> Handle \cup {NoHandle}]
         /\ \A s \in Secret : index[s] # NoHandle <=> s \in first
         /\ \A s \in first : index[s] \in load.before
         /\ \A r, s \in first : index[r] = index[s] => r = s
         /\ \A h \in load.before : \E s \in first : index[s] = h
<1>1. /\ load \in Loads /\ load.before \subseteq load.handles /\ load.handles \subseteq Handle
      /\ now = 0 /\ over = {} /\ closings = {}
      /\ finished = [h \in Handle |-> {}] /\ task = [w \in Worker |-> Idle(Nothing)]
      /\ listed = [s \in Subject |-> {h \in load.before : Owner[h] = s}]
      /\ DOMAIN record = Handle
      /\ \A h \in Handle : record[h] = IF h \in load.before THEN Opening(0, 0) ELSE Gone
  BY LifecycleAssumption DEF Init, RevocationInit
<1>2. PICK cookie \in [load.before -> Secret] :
        /\ \A g, h \in load.before : cookie[g] = cookie[h] => g = h
        /\ first = {cookie[h] : h \in load.before}
        /\ carried = first
        /\ drawn = load.before \cup first
        /\ index = [s \in Secret |-> IF s \in first THEN CHOOSE h \in load.before : cookie[h] = s ELSE NoHandle]
  BY DEF Init
<1>3. ASSUME NEW s \in first PROVE s \in Secret /\ index[s] \in load.before /\ cookie[index[s]] = s
  <2>1. PICK h \in load.before : s = cookie[h]
    BY <1>2
  <2>2. s \in Secret /\ index[s] = CHOOSE g \in load.before : cookie[g] = s
    BY <1>2, <2>1
  <2>3. QED
    BY <2>1, <2>2
<1>4. first \subseteq Secret /\ \A s \in Secret \ first : index[s] = NoHandle
  BY <1>2, <1>3
<1>5. \A s \in Secret : index[s] # NoHandle <=> s \in first
  <2>1. NoHandle \notin Handle
    BY LifecycleAssumption
  <2>2. \A h \in load.before : h # NoHandle
    BY <1>1, <2>1
  <2>3. QED
    BY <1>3, <1>4, <2>2
<1>6. ASSUME NEW h \in load.before PROVE \E s \in first : index[s] = h
  <2>1. cookie[h] \in first
    BY <1>2
  <2>2. cookie[index[cookie[h]]] = cookie[h] /\ index[cookie[h]] \in load.before
    BY <1>3, <2>1
  <2>3. QED
    BY <1>2, <2>1, <2>2
<1>7. index \in [Secret -> Handle \cup {NoHandle}]
  <2>1. \A s \in Secret : index[s] \in Handle \cup {NoHandle}
    BY <1>1, <1>3, <1>4
  <2>2. QED
    BY <1>2, <2>1
<1>8. \A r, s \in first : index[r] = index[s] => r = s
  BY <1>3
<1>9. QED
  BY <1>1, <1>2, <1>3, <1>4, <1>5, <1>6, <1>7, <1>8

LEMMA LifeInits == Init => LifeInv
<1> SUFFICES ASSUME Init PROVE LifeInv
  OBVIOUS
<1>1. \A h \in Handle : RecordFine(record[h]) /\ (Known(h) <=> h \in load.before) /\ record[h].state # "closing"
  <2>1. ASSUME NEW h \in Handle PROVE RecordFine(record[h]) /\ (Known(h) <=> h \in load.before) /\ record[h].state # "closing"
    <3>1. /\ record[h] = IF h \in load.before THEN Opening(0, 0) ELSE Gone
          /\ now = 0 /\ over = {}
      BY AtFirst
    <3>2. CASE h \in load.before
      <4>1. record[h] = [state |-> "open", openedAt |-> 0, proven |-> 0, raised |-> FALSE]
        BY <3>1, <3>2 DEF Opening
      <4>2. /\ DOMAIN record[h] = {"state", "openedAt", "proven", "raised"}
            /\ record[h].state = "open" /\ record[h].openedAt = 0 /\ record[h].proven = 0 /\ record[h].raised = FALSE
        BY <4>1
      <4>3. 0 \in 0 .. now /\ 0 \in Nat
        BY <3>1
      <4>4. RecordFine(record[h])
        BY <4>2, <4>3 DEF RecordFine, Full
      <4>5. QED
        BY <3>2, <4>2, <4>4 DEF Known
    <3>3. CASE h \notin load.before
      BY <3>1, <3>3 DEF RecordFine, Known, Gone
    <3>4. QED
      BY <3>2, <3>3
  <2>2. QED
    BY <2>1
<1>2. Knowns = load.before
  BY <1>1, AtFirst DEF Knowns
<1>3. StateFine
  <2>1. listed \in [Subject -> SUBSET Handle] /\ \A s \in Subject : listed[s] \subseteq load.before
    BY AtFirst
  <2>2. \A s \in Secret : index[s] # NoHandle => Known(index[s])
    BY <1>1, AtFirst
  <2>3. finished \in [Handle -> SUBSET Participant] /\ now \in 0 .. MaxNow
    BY AtFirst, RevocationAssumption
  <2>4. QED
    BY <1>1, <1>2, <2>1, <2>2, <2>3, AtFirst DEF StateFine, ClosingKept
<1>4. \A w \in Worker : LifeFine(task[w]) /\ (\A h : ~Pends(task[w], h)) /\ task[w].pc \notin UsePcs
  BY AtFirst, IdleFine
<1>5. QED
  BY <1>3, <1>4, AtFirst DEF LifeInv, Pending

LEMMA LifeAlways == Spec => []LifeInv
BY LifeInits, LifeSteps, PTL DEF Spec


----------------------------------------------------------------------------
(* The life of a session (SessionLife).                                    *)
LifeAt(r, isOver) ==
  CASE r.state \in {"open", "closing"} -> r.state
    [] r.state \in {"closed", "mark"} -> "ended"
    [] r.state = "gone" -> IF isOver THEN "ended" ELSE "new"

Lived == Life!LifeNext \/ (life' = life /\ finished' = finished /\ load' = load)

LEMMA LifeIs ==
  /\ life = [h \in Handle |-> LifeAt(record[h], h \in over)]
  /\ life' = [h \in Handle |-> LifeAt(record'[h], h \in over')]
BY DEF life, LifeAt

(* A step that changes the record of h, or passes its lifetime.            *)
LEMMA LifeMoves ==
  ASSUME NEW h \in Handle, \A g \in Handle \ {h} : record'[g] = record[g] /\ (g \in over' <=> g \in over),
         NEW from, from = life[h], NEW to, to = LifeAt(record'[h], h \in over'),
         finished' = finished, load' = load,
         \/ from = to
         \/ from = "new" /\ to = "open"
         \/ from = "open" /\ to \in {"closing", "ended"}
         \/ from = "closing" /\ to = "ended" /\ load.participants \subseteq finished[h]
  PROVE  Lived
<1>1. life' = [life EXCEPT ![h] = to]
  BY LifeIs
<1>2. from = to => life' = life
  BY LifeIs
<1>4. CASE from = to
  BY <1>2, <1>4 DEF Lived
<1>5. CASE from # to
  <2>1. Life!Opens(h) \/ Life!EndsOpen(h) \/ Life!StartsClosing(h) \/ Life!EndsClosed(h)
    BY <1>1, <1>5 DEF Life!Opens, Life!EndsOpen, Life!StartsClosing, Life!EndsClosed, Life!Becomes
  <2>2. QED
    BY <2>1 DEF Lived, Life!LifeNext
<1>6. QED
  BY <1>4, <1>5

LEMMA LifeSame ==
  ASSUME UNCHANGED <<record, over, finished, load>>
  PROVE  Lived
BY DEF Lived, life


LEMMA LifeRecords ==
  ASSUME LifeInv, NEW h \in Handle, NEW r, record' = [record EXCEPT ![h] = r], over' = over
  PROVE  /\ record'[h] = r /\ (h \in over' <=> h \in over)
         /\ \A g \in Handle \ {h} : record'[g] = record[g] /\ (g \in over' <=> g \in over)
         /\ life[h] = LifeAt(record[h], h \in over) /\ RecordFine(record[h])
BY LifeIs DEF LifeInv, StateFine

LEMMA LifeValueOf ==
  ASSUME LifeInv, NEW h \in Handle
  PROVE  /\ record[h].state \in {"open", "closing"} => life[h] = record[h].state
         /\ Ended(h) => life[h] = "ended"
         /\ Unborn(h) => life[h] = "new"
         /\ RecordFine(record[h])
<1>1. life[h] = LifeAt(record[h], h \in over)
  BY LifeIs
<1>2. /\ record[h].state \in {"open", "closing"} => life[h] = record[h].state
      /\ record[h].state \in {"closed", "mark"} => life[h] = "ended"
      /\ record[h].state = "gone" => life[h] = IF h \in over THEN "ended" ELSE "new"
  BY <1>1 DEF LifeAt
<1>3. RecordFine(record[h])
  BY DEF LifeInv, StateFine
<1>4. QED
  BY <1>2, <1>3 DEF Ended, Unborn, Known, Gone

LEMMA LivedTo ==
  ASSUME LifeInv, NEW h \in Handle, NEW r, record' = [record EXCEPT ![h] = r], over' = over,
         finished' = finished, load' = load,
         \/ Unborn(h) /\ r.state = "open"
         \/ record[h].state = "open" /\ r.state \in {"open", "closing", "closed", "mark"}
         \/ record[h].state = "closing" /\ r.state = "closing"
         \/ record[h].state = "closing" /\ r.state \in {"closed", "mark"} /\ load.participants \subseteq finished[h]
         \/ Ended(h) /\ r.state \in {"closed", "mark"}
  PROVE  Lived
<1>1. /\ record'[h] = r /\ \A g \in Handle \ {h} : record'[g] = record[g] /\ (g \in over' <=> g \in over)
  BY LifeRecords
<1>2. PICK from, to : from = life[h] /\ to = LifeAt(record'[h], h \in over')
  OBVIOUS
<1>3. to = LifeAt(r, h \in over')
  BY <1>1, <1>2
<1>4. /\ r.state \in {"open", "closing"} => to = r.state
      /\ r.state \in {"closed", "mark"} => to = "ended"
  BY <1>3 DEF LifeAt
<1>5. \/ from = to
      \/ from = "new" /\ to = "open"
      \/ from = "open" /\ to \in {"closing", "ended"}
      \/ from = "closing" /\ to = "ended" /\ load.participants \subseteq finished[h]
  BY <1>2, <1>4, LifeValueOf
<1>6. QED
  BY <1>1, <1>2, <1>5, LifeMoves

LEMMA EndOpenLived ==
  ASSUME LifeInv, NEW h \in Handle, EndOpen(h), over' = over, finished' = finished, load' = load
  PROVE  Lived
<1>1. CASE record[h].state # "open"
  BY <1>1, LifeSame DEF EndOpen
<1>2. CASE record[h].state = "open"
  <2>1. PICK r : r = [record[h] EXCEPT !.state = "closed"]
    OBVIOUS
  <2>2. record' = [record EXCEPT ![h] = r] /\ RecordFine(record[h])
    BY <1>2, <2>1, LifeValueOf DEF EndOpen
  <2>3. r.state = "closed"
    BY <1>2, <2>1, <2>2 DEF RecordFine, Gone
  <2>4. QED
    BY <1>2, <2>2, <2>3, LivedTo
<1>3. QED
  BY <1>1, <1>2

LEMMA CloseLived ==
  ASSUME LifeInv, load' = load, NEW w \in Worker, CloseStep(w)
  PROVE  Lived
<1>1. PICK t, h : t = task[w] /\ h = t.h
  OBVIOUS
<1>2. CASE CloseThrows(w) \/ CloseAdd(w) \/ ParticipantFails(w) \/ PutOff(w) \/ CloseUnlist(w) \/ CloseDone(w)
  BY <1>2, LifeSame DEF CloseThrows, CloseAdd, ParticipantFails, PutOff, CloseUnlist, CloseDone
<1>3. CASE CloseAdvance(w)
  <2>1. t.pc = "close.advance" /\ t.pc \in ClosePcs
    BY <1>1, <1>3 DEF CloseAdvance, At, ClosePcs
  <2>2. h \in Handle /\ RecordFine(record[h])
    BY <1>1, <2>1, CloseAt, LifeValueOf
  <2>3. CASE record[h].state \in {"open", "closing"}
    <3>1. PICK r : r = [record[h] EXCEPT !.state = "closing"]
      OBVIOUS
    <3>2. record' = [record EXCEPT ![h] = r]
      BY <1>1, <1>3, <2>3, <3>1 DEF CloseAdvance
    <3>3. r.state = "closing"
      BY <2>2, <2>3, <3>1 DEF RecordFine, Gone
    <3>4. QED
      BY <1>3, <2>2, <2>3, <3>2, <3>3, LivedTo DEF CloseAdvance
  <2>4. CASE record[h].state \in {"gone", "closed", "mark"}
    BY <1>1, <1>3, <2>4, LifeSame DEF CloseAdvance
  <2>5. QED
    BY <2>2, <2>3, <2>4 DEF RecordFine, Gone, Full
<1>4. ASSUME NEW from \in {"close.mark", "close.remark"}, NEW next, Mark(w, from, next) PROVE Lived
  <2>1. t.pc \in {"close.mark", "close.remark"} /\ t.pc \in ClosePcs
    BY <1>1, <1>4 DEF Mark, At, ClosePcs
  <2>2. h \in Handle /\ Ended(h)
    BY <1>1, <2>1, CloseAt
  <2>3. UNCHANGED <<over, finished>>
    BY <1>4 DEF Mark
  <2>4. CASE record' = [record EXCEPT ![h] = [state |-> "mark"]]
    <3>1. PICK r : r = [state |-> "mark"]
      OBVIOUS
    <3>2. r.state = "mark" /\ record' = [record EXCEPT ![h] = r]
      BY <2>4, <3>1
    <3>3. QED
      BY <2>2, <2>3, <3>2, LivedTo
  <2>5. QED
    BY <1>1, <1>4, <2>3, <2>4, LifeSame DEF Mark
<1>5. CASE ParticipantFinishes(w)
  <2>1. t.pc = "close.call" /\ t.pc \in ClosePcs
    BY <1>1, <1>5 DEF ParticipantFinishes, At, ClosePcs
  <2>2. h \in Handle /\ LifeFine(t)
    BY <1>1, <2>1, CloseAt
  <2>3. t.todo \subseteq load.participants /\ Claimed(h)
    BY <1>1, <2>1, <2>2, CallAt
  <2>4. PICK p \in load.participants : finished' = [finished EXCEPT ![h] = @ \cup {p}]
    BY <1>1, <1>5, <2>3 DEF ParticipantFinishes
  <2>5. life[h] \in {"closing", "ended"}
    BY <2>2, <2>3, LifeValueOf DEF Claimed
  <2>6. life' = life
    BY <1>5 DEF ParticipantFinishes, life
  <2>7. Life!Finishes(h, p)
    BY <2>4, <2>5, <2>6 DEF Life!Finishes
  <2>8. QED
    BY <2>2, <2>7 DEF Lived, Life!LifeNext
<1>6. CASE CloseFinish(w)
  <2>1. t.pc = "close.call" /\ t.pc \in ClosePcs
    BY <1>1, <1>6 DEF CloseFinish, At, ClosePcs
  <2>2. h \in Handle /\ LifeFine(t) /\ RecordFine(record[h])
    BY <1>1, <2>1, CloseAt, LifeValueOf
  <2>3. Claimed(h) /\ (t.missed \/ load.participants \subseteq t.todo \cup finished[h])
    BY <1>1, <2>1, <2>2, CallAt
  <2>4. load.participants \subseteq finished[h]
    BY <1>1, <1>6, <2>3 DEF CloseFinish
  <2>5. CASE record[h].state = "gone"
    BY <1>1, <1>6, <2>5, LifeSame DEF CloseFinish
  <2>6. CASE record[h].state # "gone"
    <3>1. PICK r : r = [record[h] EXCEPT !.state = IF @ = "mark" THEN @ ELSE "closed"]
      OBVIOUS
    <3>2. record' = [record EXCEPT ![h] = r]
      BY <1>1, <1>6, <2>2, <2>6, <3>1 DEF CloseFinish, LifeInv, StateFine
    <3>3. r.state \in {"closed", "mark"}
      BY <2>2, <2>6, <3>1 DEF RecordFine, Gone, Full
    <3>4. QED
      BY <1>6, <2>2, <2>3, <2>4, <3>2, <3>3, LivedTo DEF CloseFinish, Claimed
  <2>7. QED
    BY <2>5, <2>6
<1>7. QED
  BY <1>2, <1>3, <1>4, <1>5, <1>6 DEF CloseStep, CloseMark, CloseRemark


LEMMA LoginLived ==
  ASSUME LifeInv, load' = load, NEW w \in Worker, LoginStep(w)
  PROVE  Lived
<1>1. PICK t : t = task[w]
  OBVIOUS
<1>2. CASE \/ LoginStamp(w) \/ LoginCheck(w) \/ LoginList(w) \/ LoginKeep(w) \/ LoginTakeBack(w)
           \/ LoginReadLeft(w) \/ LoginRelist(w) \/ LoginRefused(w) \/ LoginIssue(w) \/ LoginAnswer(w)
  BY <1>2, LifeSame DEF LoginStamp, LoginCheck, LoginList, LoginKeep, LoginTakeBack, LoginReadLeft, LoginRelist,
     LoginRefused, LoginIssue, LoginAnswer
<1>3. CASE LoginSave(w)
  <2>1. PICK h, r : h = t.login.handle /\ r = Opening(t.openedAt, t.login.proven)
    OBVIOUS
  <2>2. t.pc = "login.save" /\ t.pc \in LoginPcs /\ record' = [record EXCEPT ![h] = r]
    BY <1>1, <1>3, <2>1 DEF LoginSave, At, LoginPcs
  <2>3. Unborn(h) /\ h \in Handle
    BY <1>1, <2>1, <2>2, LoginAt
  <2>4. r.state = "open"
    BY <2>1 DEF Opening
  <2>5. QED
    BY <1>3, <2>2, <2>3, <2>4, LivedTo DEF LoginSave
<1>4. CASE LoginEnd(w)
  <2>1. t.pc = "login.putback" /\ t.pc \in LoginPcs
    BY <1>1, <1>4 DEF LoginEnd, At, LoginPcs
  <2>2. t.ending \subseteq Knowns
    BY <1>1, <2>1, LoginAt, KeepAt
  <2>3. PICK h \in t.ending : EndOpen(h) \/ record' = record
    BY <1>1, <1>4 DEF LoginEnd
  <2>4. over' = over /\ finished' = finished /\ h \in Handle
    BY <1>4, <2>2, <2>3 DEF LoginEnd, Knowns
  <2>5. QED
    BY <2>3, <2>4, EndOpenLived, LifeSame
<1>5. QED
  BY <1>2, <1>3, <1>4 DEF LoginStep

LEMMA UseLived ==
  ASSUME LifeInv, load' = load, NEW w \in Worker, UseStep(w)
  PROVE  Lived
<1>1. PICK t, h : t = task[w] /\ h = t.h
  OBVIOUS
<1>2. CASE LiveRead(w) \/ LiveCheck(w) \/ EnterIndex(w) \/ RaiseIssue(w) \/ RaiseRetire(w)
  BY <1>2, LifeSame DEF LiveRead, LiveCheck, EnterIndex, RaiseIssue, RaiseRetire
<1>3. CASE LiveEnd(w)
  <2>1. t.pc \in UsePcs
    BY <1>1, <1>3 DEF LiveEnd, At, LivePcs, UsePcs
  <2>2. h \in Handle
    BY <1>1, <2>1, UseAt
  <2>3. EndOpen(h) /\ over' = over /\ finished' = finished
    BY <1>1, <1>3 DEF LiveEnd
  <2>4. QED
    BY <2>2, <2>3, EndOpenLived
<1>4. CASE RaiseUpdate(w)
  <2>1. t.pc \in UsePcs
    BY <1>1, <1>4 DEF RaiseUpdate, At, RaisePcs, UsePcs
  <2>2. h \in Handle /\ RecordFine(record[h])
    BY <1>1, <2>1, UseAt, LifeValueOf
  <2>3. over' = over /\ finished' = finished
    BY <1>4 DEF RaiseUpdate
  <2>4. CASE record[h].state = "open" /\ record' = [record EXCEPT ![h].raised = TRUE]
    <3>1. PICK r : r = [record[h] EXCEPT !.raised = TRUE]
      OBVIOUS
    <3>2. record' = [record EXCEPT ![h] = r] /\ r.state = "open"
      BY <2>2, <2>4, <3>1 DEF RecordFine, Gone
    <3>3. QED
      BY <2>2, <2>3, <2>4, <3>2, LivedTo
  <2>5. QED
    BY <1>1, <1>4, <2>3, <2>4, LifeSame DEF RaiseUpdate
<1>5. QED
  BY <1>2, <1>3, <1>4 DEF UseStep

LEMMA ExpiryLived ==
  ASSUME LifeInv, load' = load, NEW h \in Handle, LifetimePasses(h) \/ StoreDrops(h) \/ ListingEnds(h)
  PROVE  Lived
<1>1. RecordFine(record[h]) /\ life[h] = LifeAt(record[h], h \in over)
  BY LifeValueOf, LifeIs
<1>2. CASE ListingEnds(h)
  BY <1>2, LifeSame DEF ListingEnds
<1>3. CASE LifetimePasses(h)
  <2>1. /\ record' = record /\ over' = over \cup {h} /\ finished' = finished
        /\ record[h].state \in {"open", "closing"}
    BY <1>3 DEF LifetimePasses
  <2>2. PICK from, to : from = life[h] /\ to = LifeAt(record'[h], h \in over')
    OBVIOUS
  <2>3. from = to
    BY <1>1, <2>1, <2>2 DEF LifeAt
  <2>4. QED
    BY <2>1, <2>2, <2>3, LifeMoves
<1>4. CASE StoreDrops(h)
  <2>1. /\ record' = [record EXCEPT ![h] = Gone] /\ over' = over \cup {h} /\ finished' = finished
        /\ record[h].state \in {"open", "closed", "mark"}
    BY <1>4 DEF StoreDrops
  <2>2. record'[h] = Gone /\ \A g \in Handle \ {h} : record'[g] = record[g] /\ (g \in over' <=> g \in over)
    BY <2>1 DEF LifeInv, StateFine
  <2>3. PICK from, to : from = life[h] /\ to = LifeAt(record'[h], h \in over')
    OBVIOUS
  <2>4. to = "ended"
    BY <2>1, <2>2, <2>3 DEF LifeAt, Gone
  <2>5. from \in {"open", "ended"}
    BY <1>1, <2>1, <2>3 DEF LifeAt
  <2>6. QED
    BY <2>1, <2>2, <2>3, <2>4, <2>5, LifeMoves
<1>5. QED
  BY <1>2, <1>3, <1>4

LEMMA LifeStepsMap == LifeInv /\ [Next]_vars => [Life!LifeNext]_(Life!lifeVars)
<1> SUFFICES ASSUME LifeInv, [Next]_vars PROVE Lived
  BY DEF Lived, Life!lifeVars
<1>1. CASE UNCHANGED vars
  BY <1>1, LifeSame DEF vars, sessionVars
<1>2. CASE Next
  <2>1. load' = load
    BY <1>2 DEF Next
  <2>2. ASSUME NEW w \in Worker, RevokeStep(w) \/ Vanish(w) PROVE Lived
    BY <2>1, <2>2, LifeSame DEF RevokeStep, RevokeWrite, RevokeLate, RevokeList, Vanish
  <2>3. ASSUME NEW w \in Worker, Work(w) PROVE Lived
    BY <2>1, <2>2, <2>3, CloseLived, LoginLived, UseLived DEF Work
  <2>4. ASSUME NEW w \in Worker, Start(w) PROVE Lived
    BY <2>1, <2>4, LifeSame DEF Start, StartClose, StartSweep, StartLogin, StartUse, StartRevoke
  <2>5. ASSUME NEW h \in Handle, LifetimePasses(h) \/ StoreDrops(h) \/ ListingEnds(h) PROVE Lived
    BY <2>1, <2>5, ExpiryLived
  <2>6. ASSUME UNCHANGED sessionVars PROVE Lived
    BY <2>1, <2>6, LifeSame DEF sessionVars
  <2>7. QED
    BY <1>2, <2>2, <2>3, <2>4, <2>5, <2>6 DEF Next
<1>3. QED
  BY <1>1, <1>2

LEMMA LifeInitsMap == Init => Life!LifeInit
<1> SUFFICES ASSUME Init PROVE Life!LifeInit
  OBVIOUS
<1>1. load.participants \subseteq Participant
  BY AtFirst, LifecycleAssumption
<1>2. \A h \in Handle : life[h] \in {"new", "open"}
  BY AtFirst DEF life, Opening, Gone
<1>3. life \in [Handle -> {"new", "open"}]
  BY <1>2 DEF life
<1>4. QED
  BY <1>1, <1>3, AtFirst DEF Life!LifeInit


(* Lifecycle is one life per session: records, marks, closings, sweeps and *)
(* expiry together only move a session forward (advance, lifecycle.ts).    *)
THEOREM LifecycleIsSessionLife == Spec => IsSessionLife
BY LifeInitsMap, LifeAlways, LifeStepsMap, PTL DEF Spec, IsSessionLife, Life!LifeSpec

(* A session still closing is on the list of closings, whoever's close of  *)
(* it ran, failed or was given up meanwhile.                               *)
THEOREM ClosingAlwaysKept == Spec => []ClosingKept
<1>1. LifeInv => ClosingKept
  BY DEF LifeInv, StateFine
<1>2. QED
  BY <1>1, LifeAlways, PTL

----------------------------------------------------------------------------
(* What most steps keep of a login: no handle but the one it had, checked  *)
(* or past its listing only if it was; and no entry is answered.           *)
Enters(t, h) == Pends(t, h) /\ Checked(t) /\ t.pc # "login.list"

ListPcs == {"login.keep", "login.putback", "login.relist"}

Keeps(t, n) ==
  /\ HasLogin(n) => HasLogin(t) /\ LoginOf(n) = LoginOf(t)
  /\ \A h : Pends(n, h) => Pends(t, h)
  /\ \A h : Pends(n, h) /\ Checked(n) => Checked(t)
  /\ \A h : Enters(n, h) => Enters(t, h)
  /\ n.pc \notin UsePcs
  /\ n.pc \in ListPcs => t.pc \in ListPcs
  /\ n.pc = "idle" => n.told.said # "entered"
  /\ n.pc # "login.answer"

GoesKept(w) == \E n : task' = [task EXCEPT ![w] = n] /\ Keeps(task[w], n)

LEMMA FrameKeeps ==
  ASSUME NEW t, NEW n, n.pc \notin UsePcs,
         n.pc \in ListPcs => t.pc \in ListPcs,
         \/ ~HasLogin(n) /\ n.pc \notin {"idle", "login.answer"}
         \/ n.pc \in LoginPcs /\ n.pc # "login.list" /\ HasLogin(t) /\ n.login = LoginOf(t)
            /\ (Checked(n) => Checked(t) /\ t.pc # "login.list")
         \/ n.pc \in ClosePcs /\ n.for \in {"pushed", "earlier"} /\ HasLogin(t) /\ n.with = LoginOf(t)
            /\ (Checked(n) => Checked(t) /\ t.pc # "login.list")
  PROVE  Keeps(t, n)
BY DEF Keeps, Enters, Pends, HasLogin, LoginOf, Checked, LoginPcs, ClosePcs

LEMMA AnswerKeeps ==
  ASSUME NEW w, NEW answer, Answer(w, answer), answer.said # "entered"
  PROVE  GoesKept(w)
<1>1. PICK n : n = Idle(answer)
  OBVIOUS
<1>2. n.pc = "idle" /\ n.told = answer /\ task' = [task EXCEPT ![w] = n]
  BY <1>1 DEF Idle, Answer, Go
<1>3. ~HasLogin(n) /\ n.pc \notin UsePcs
  BY <1>2 DEF HasLogin, LoginPcs, ClosePcs, UsePcs, LivePcs, RaisePcs
<1>4. QED
  BY <1>2, <1>3 DEF GoesKept, Keeps, Pends, Enters, ListPcs

LEMMA NothingKeeps ==
  ASSUME NEW w, Answer(w, Nothing)
  PROVE  GoesKept(w)
<1>1. Nothing.said # "entered"
  BY DEF Nothing
<1>2. QED
  BY <1>1, AnswerKeeps

(* A close, whatever it is of, for the operation it was for.               *)
LEMMA OnwardKeeps ==
  ASSUME NEW t, t.pc \in ClosePcs, NEW n, n.pc \in ClosePcs, n.for = t.for, n.with = t.with
  PROVE  Keeps(t, n)
<1>1. n.pc \notin UsePcs \cup ListPcs /\ n.pc \notin {"idle", "login.answer"} /\ t.pc # "login.list" /\ t.pc \notin LoginPcs
  BY DEF ClosePcs, LoginPcs, UsePcs, LivePcs, RaisePcs, ListPcs
<1>2. CASE n.for \in {"pushed", "earlier"}
  <2>1. HasLogin(t) /\ n.with = LoginOf(t)
    BY <1>1, <1>2 DEF HasLogin, LoginOf
  <2>2. Checked(n) => Checked(t)
    BY DEF Checked, ClosePcs
  <2>3. QED
    BY <1>1, <1>2, <2>1, <2>2, FrameKeeps
<1>3. CASE n.for \notin {"pushed", "earlier"}
  <2>1. ~HasLogin(n)
    BY <1>3 DEF HasLogin, LoginPcs, ClosePcs
  <2>2. QED
    BY <1>1, <2>1, FrameKeeps
<1>4. QED
  BY <1>2, <1>3

LEMMA NextKeeps ==
  ASSUME LifeInv, NEW w \in Worker, task[w].pc \in ClosePcs, NEW result, CloseNext(w, result)
  PROVE  GoesKept(w)
<1>1. PICK t : t = task[w]
  OBVIOUS
<1>2. t.pc \in ClosePcs /\ t.for \in {"request", "sweep", "follow", "pushed", "earlier", "revoked"}
  BY <1>1 DEF LifeInv, LifeFine
<1>3. ASSUME NEW h, NEW failing, Go(w, Closing(t.for, h, t.rest \ {h}, failing, t.with))
      PROVE  GoesKept(w)
  <2>1. PICK n : n = Closing(t.for, h, t.rest \ {h}, failing, t.with)
    OBVIOUS
  <2>2. n.pc \in ClosePcs /\ n.for = t.for /\ n.with = t.with
    BY <2>1 DEF Closing, ClosePcs
  <2>3. QED
    BY <1>1, <1>2, <1>3, <2>1, <2>2, OnwardKeeps DEF GoesKept, Go
<1>4. CASE t.for \in {"request", "revoked"}
  BY <1>1, <1>4, NothingKeeps DEF CloseNext
<1>5. CASE t.for \in {"sweep", "follow", "pushed"} /\ t.rest # {}
  BY <1>1, <1>3, <1>5 DEF CloseNext
<1>6. CASE t.for \in {"sweep", "follow"} /\ t.rest = {}
  <2>1. PICK answer : /\ Answer(w, answer)
                      /\ answer = Nothing \/ answer = [said |-> "complete", owed |-> t.with]
    BY <1>1, <1>6 DEF CloseNext
  <2>2. answer.said # "entered"
    BY <2>1 DEF Nothing
  <2>3. QED
    BY <2>1, <2>2, AnswerKeeps
<1>7. ASSUME NEW n, \/ t.for = "pushed" /\ n = [pc |-> "login.issue", login |-> t.with]
                    \/ t.for = "earlier" /\ n = [pc |-> "login.stamp", login |-> t.with],
             task' = [task EXCEPT ![w] = n]
      PROVE  GoesKept(w)
  <2>1. n.login = t.with /\ n.pc \in LoginPcs /\ n.pc # "login.list" /\ n.pc \notin UsePcs \cup ListPcs
    BY <1>7 DEF LoginPcs, UsePcs, LivePcs, RaisePcs, ListPcs
  <2>2. HasLogin(t) /\ n.login = LoginOf(t)
    BY <1>2, <1>7, <2>1 DEF HasLogin, LoginOf, LoginPcs, ClosePcs
  <2>3. (Checked(n) => Checked(t)) /\ t.pc # "login.list"
    BY <1>2, <1>7 DEF Checked, ClosePcs
  <2>4. QED
    BY <1>1, <1>7, <2>1, <2>2, <2>3, FrameKeeps DEF GoesKept
<1>8. CASE t.for = "pushed" /\ t.rest = {}
  <2>1. task' = [task EXCEPT ![w] = [pc |-> "login.issue", login |-> t.with]]
    BY <1>1, <1>8 DEF CloseNext, Go
  <2>2. QED
    BY <1>7, <1>8, <2>1
<1>9. CASE t.for = "earlier"
  <2>1. task' = [task EXCEPT ![w] = [pc |-> "login.stamp", login |-> t.with]]
    BY <1>1, <1>9 DEF CloseNext, Go
  <2>2. QED
    BY <1>7, <1>9, <2>1
<1>10. QED
  BY <1>2, <1>4, <1>5, <1>6, <1>8, <1>9

LEMMA ThrownKeeps ==
  ASSUME LifeInv, NEW w \in Worker, task[w].pc \in ClosePcs, Thrown(w)
  PROVE  GoesKept(w)
BY NextKeeps, NothingKeeps DEF Thrown

Advances(w) == \E pc \in ClosePcs : task' = [task EXCEPT ![w] = [task[w] EXCEPT !.pc = pc]]
Calls(w) == \E todo, missed : task' = [task EXCEPT ![w] = Calling(task[w], todo, missed)]

CloseGoesOn(w) ==
  \/ \E n : task' = [task EXCEPT ![w] = n] /\ Onward(task[w], n)
  \/ Thrown(w)
  \/ \E result : CloseNext(w, result) /\ (result = "closed" => Ended(task[w].h))

LEMMA CloseGoes ==
  ASSUME LifeInv, NEW w \in Worker, CloseStep(w)
  PROVE  CloseGoesOn(w) /\ task[w].pc \in ClosePcs
<1>1. PICK t : t = task[w]
  OBVIOUS
<1>2. task[w].pc \in ClosePcs
  BY DEF CloseStep, CloseThrows, CloseAdd, CloseAdvance, CloseMark, CloseRemark, Mark, ParticipantFinishes,
     ParticipantFails, PutOff, CloseFinish, CloseUnlist, CloseDone, At, ClosePcs
<1>3. LifeFine(t) /\ CloseParts \subseteq DOMAIN t /\ t.pc \in ClosePcs
  BY <1>1, <1>2, CloseAt
<1>4. ASSUME NEW n, Onward(t, n), task' = [task EXCEPT ![w] = n] PROVE CloseGoesOn(w)
  BY <1>1, <1>4 DEF CloseGoesOn
<1>5. ASSUME NEW pc \in ClosePcs, NEW n, n = [t EXCEPT !.pc = pc], task' = [task EXCEPT ![w] = n]
      PROVE  CloseGoesOn(w)
  BY <1>3, <1>4, <1>5, MovesOn
<1>6. ASSUME NEW todo, NEW missed, NEW n, n = Calling(t, todo, missed), task' = [task EXCEPT ![w] = n]
      PROVE  CloseGoesOn(w)
  BY <1>3, <1>4, <1>6, CallsOn
<1>7. CASE CloseThrows(w) \/ PutOff(w) \/ CloseDone(w)
  <2>1. CASE CloseThrows(w)
    BY <1>2, <2>1 DEF CloseThrows, CloseGoesOn
  <2>2. CASE PutOff(w)
    BY <1>2, <2>2 DEF PutOff, CloseGoesOn
  <2>3. CASE CloseDone(w)
    <3>1. t.pc = "close.done" /\ CloseNext(w, "closed")
      BY <1>1, <2>3 DEF CloseDone, At
    <3>2. Ended(t.h)
      BY <1>1, <1>2, <3>1, CloseAt
    <3>3. QED
      BY <1>1, <1>2, <3>1, <3>2 DEF CloseGoesOn
  <2>4. QED
    BY <1>7, <2>1, <2>2, <2>3
<1>8. ASSUME Advances(w) PROVE CloseGoesOn(w)
  <2>1. PICK pc \in ClosePcs : task' = [task EXCEPT ![w] = [t EXCEPT !.pc = pc]]
    BY <1>1, <1>8 DEF Advances
  <2>2. QED
    BY <1>5, <2>1
<1>9. ASSUME Calls(w) PROVE CloseGoesOn(w)
  <2>1. PICK todo, missed : task' = [task EXCEPT ![w] = Calling(t, todo, missed)]
    BY <1>1, <1>9 DEF Calls
  <2>2. QED
    BY <1>6, <2>1
<1>10. CASE CloseAdd(w) \/ CloseUnlist(w)
  <2>1. Advances(w)
    BY <1>10 DEF CloseAdd, CloseUnlist, ClosePcs, Advances, Go
  <2>2. QED
    BY <1>2, <1>8, <2>1
<1>11. CASE CloseAdvance(w)
  <2>1. RecordFine(record[t.h])
    BY <1>1, <1>2, CloseAt DEF LifeInv, StateFine
  <2>2. CASE record[t.h].state \in {"open", "closing"}
    <3>1. Calls(w)
      BY <1>1, <1>11, <2>2 DEF CloseAdvance, Calls, Go
    <3>2. QED
      BY <1>2, <1>9, <3>1
  <2>3. CASE record[t.h].state \in {"gone", "closed", "mark"}
    <3>1. Advances(w)
      BY <1>1, <1>11, <2>3 DEF CloseAdvance, ClosePcs, Advances, Go
    <3>2. QED
      BY <1>2, <1>8, <3>1
  <2>4. QED
    BY <2>1, <2>2, <2>3 DEF RecordFine, Gone, Full
<1>12. CASE CloseMark(w) \/ CloseRemark(w)
  <2>1. Thrown(w) \/ Advances(w)
    BY <1>12 DEF CloseMark, CloseRemark, Mark, ClosePcs, Advances, Go
  <2>2. QED
    BY <1>2, <1>8, <2>1 DEF CloseGoesOn
<1>13. CASE ParticipantFinishes(w)
  <2>1. Calls(w)
    BY <1>13 DEF ParticipantFinishes, Calls, Go
  <2>2. QED
    BY <1>2, <1>9, <2>1
<1>14. CASE ParticipantFails(w)
  <2>1. Calls(w)
    BY <1>14 DEF ParticipantFails, Calls, Go
  <2>2. QED
    BY <1>2, <1>9, <2>1
<1>15. CASE CloseFinish(w)
  <2>1. PICK pc, n : /\ pc \in {"close.remark", "close.unlist"} /\ n = Past(w, pc)
                     /\ task' = [task EXCEPT ![w] = n]
    BY <1>15 DEF CloseFinish, Go
  <2>2. pc \in ClosePcs
    BY <2>1 DEF ClosePcs
  <2>3. Onward(t, n)
    BY <1>1, <1>3, <2>1, <2>2, MovesOn DEF Past
  <2>4. QED
    BY <1>2, <1>4, <2>1, <2>3
<1>16. QED
  BY <1>2, <1>7, <1>10, <1>11, <1>12, <1>13, <1>14, <1>15 DEF CloseStep

LEMMA CloseKeeps ==
  ASSUME LifeInv, NEW w \in Worker, CloseStep(w)
  PROVE  GoesKept(w) /\ task[w].pc \in ClosePcs
<1>1. task[w].pc \in ClosePcs
  BY CloseGoes
<1>2. ASSUME NEW n, task' = [task EXCEPT ![w] = n], Onward(task[w], n) PROVE GoesKept(w)
  BY <1>1, <1>2, OnwardKeeps DEF Onward, GoesKept
<1>3. QED
  BY <1>1, <1>2, CloseGoes, NextKeeps, ThrownKeeps DEF CloseGoesOn

(* A login goes on with the session it is about.                           *)
LEMMA LoginKeeps ==
  ASSUME LifeInv, NEW w \in Worker,
         \/ LoginStamp(w) \/ LoginSave(w) \/ LoginKeep(w) \/ LoginTakeBack(w) \/ LoginReadLeft(w)
         \/ LoginRelist(w) \/ LoginEnd(w) \/ LoginRefused(w) \/ LoginAnswer(w)
  PROVE  GoesKept(w)
<1>1. PICK t : t = task[w]
  OBVIOUS
<1>0. CASE LoginRefused(w) \/ LoginAnswer(w)
  BY <1>0, NothingKeeps DEF LoginRefused, LoginAnswer
<1> SUFFICES ASSUME ~LoginAnswer(w) PROVE GoesKept(w)
  BY <1>0
<1>2. t.pc \in {"login.stamp", "login.save", "login.keep", "login.putback", "login.relist"}
  BY <1>1 DEF LoginStamp, LoginSave, LoginKeep, LoginTakeBack, LoginReadLeft, LoginRelist, LoginEnd, LoginRefused, At
<1>3. LifeFine(t) /\ LoginParts(t) /\ HasLogin(t) /\ LoginOf(t) = t.login /\ t.pc # "login.list"
  BY <1>1, <1>2, LoginAt DEF LoginPcs
<1>4. ASSUME NEW n, task' = [task EXCEPT ![w] = n], n.pc \in LoginPcs, n.pc # "login.list", n.login = t.login,
             Checked(n) => Checked(t), n.pc \in ListPcs => t.pc \in ListPcs
      PROVE  GoesKept(w)
  <2>1. n.pc \notin UsePcs
    BY <1>4 DEF LoginPcs, UsePcs, LivePcs, RaisePcs
  <2>2. QED
    BY <1>1, <1>3, <1>4, <2>1, FrameKeeps DEF GoesKept
<1>5. CASE LoginStamp(w)
  <2>1. PICK n, at : /\ n = [pc |-> "login.save", login |-> t.login, openedAt |-> at]
                     /\ task' = [task EXCEPT ![w] = n]
    BY <1>1, <1>5 DEF LoginStamp, Go
  <2>2. n.pc = "login.save" /\ n.login = t.login
    BY <2>1
  <2>3. QED
    BY <1>4, <2>1, <2>2 DEF LoginPcs, ClosePcs, Checked, ListPcs
<1>6. CASE LoginSave(w)
  <2>1. PICK n : /\ n = [pc |-> "login.check", login |-> t.login]
                 /\ task' = [task EXCEPT ![w] = n]
    BY <1>1, <1>6 DEF LoginSave, Go
  <2>2. n.pc = "login.check" /\ n.login = t.login
    BY <2>1
  <2>3. QED
    BY <1>4, <2>1, <2>2 DEF LoginPcs, ClosePcs, Checked, ListPcs
<1>7. ASSUME NEW n, task' = [task EXCEPT ![w] = n], n.pc \in {"login.putback", "login.relist"}, n.login = t.login,
             t.pc \in ListPcs
      PROVE  GoesKept(w)
  BY <1>4, <1>7 DEF LoginPcs, ClosePcs, Checked, ListPcs
<1>8. CASE LoginTakeBack(w) \/ LoginRelist(w)
  <2>1. PICK n, todo, ending : /\ n = [pc |-> "login.putback", login |-> t.login, todo |-> todo, ending |-> ending]
                               /\ task' = [task EXCEPT ![w] = n]
    BY <1>1, <1>8 DEF LoginTakeBack, LoginRelist, Go
  <2>2. n.pc = "login.putback" /\ n.login = t.login
    BY <2>1
  <2>3. t.pc \in ListPcs
    BY <1>1, <1>8 DEF LoginTakeBack, LoginRelist, At, ListPcs
  <2>4. QED
    BY <1>7, <2>1, <2>2, <2>3
<1>9. CASE LoginReadLeft(w)
  <2>1. t.pc = "login.putback" /\ {"todo", "ending"} \subseteq DOMAIN t
    BY <1>1, <1>3, <1>9, KeepAt DEF LoginReadLeft, At
  <2>2. PICK h, u, n :
           /\ h \in t.todo
           /\ u = [t EXCEPT !.todo = @ \ {h}]
           /\ task' = [task EXCEPT ![w] = n]
           /\ \/ n = u
              \/ n = [pc |-> "login.relist", login |-> u.login, todo |-> u.todo, member |-> h]
              \/ n = [u EXCEPT !.ending = {h}]
    BY <1>1, <1>9 DEF LoginReadLeft, Go
  <2>3. {"pc", "login"} \subseteq DOMAIN u /\ u.pc = "login.putback" /\ u.login = t.login
    BY <1>3, <2>1, <2>2 DEF LoginParts
  <2>4. CASE n = [u EXCEPT !.ending = {h}]
    <3>1. n.pc = "login.putback" /\ n.login = t.login
      BY <2>3, <2>4
    <3>2. QED
      BY <1>7, <2>1, <2>2, <3>1 DEF ListPcs
  <2>5. CASE n = [pc |-> "login.relist", login |-> u.login, todo |-> u.todo, member |-> h]
    <3>1. n.pc = "login.relist" /\ n.login = t.login
      BY <2>3, <2>5
    <3>2. QED
      BY <1>7, <2>1, <2>2, <3>1 DEF ListPcs
  <2>6. QED
    BY <1>7, <2>1, <2>2, <2>3, <2>4, <2>5 DEF ListPcs
<1>10. CASE LoginEnd(w)
  <2>1. t.pc = "login.putback"
    BY <1>1, <1>10 DEF LoginEnd, At
  <2>2. PICK h, n : n = [t EXCEPT !.ending = @ \ {h}] /\ task' = [task EXCEPT ![w] = n]
    BY <1>1, <1>10 DEF LoginEnd, Go
  <2>3. n.pc = "login.putback" /\ n.login = t.login
    BY <1>3, <2>1, <2>2 DEF LoginParts
  <2>4. QED
    BY <1>7, <2>1, <2>2, <2>3 DEF ListPcs
<1>11. CASE LoginKeep(w)
  <2>1. t.pc = "login.keep" /\ {"out", "todo"} \subseteq DOMAIN t /\ Checked(t)
    BY <1>1, <1>3, <1>11, KeepAt DEF LoginKeep, At, Checked
  <2>2. PICK h, n : /\ task' = [task EXCEPT ![w] = n]
                    /\ \/ n = [t EXCEPT !.todo = @ \ {h}]
                       \/ \E g, failing : g \in t.out /\ n = Closing("pushed", g, t.out \ {g}, failing, t.login)
    BY <1>1, <1>11 DEF LoginKeep, Go
  <2>3. CASE n = [t EXCEPT !.todo = @ \ {h}]
    <3>1. n.pc = "login.keep" /\ n.login = t.login
      BY <1>3, <2>1, <2>3 DEF LoginParts
    <3>2. QED
      BY <1>4, <2>1, <2>2, <3>1 DEF LoginPcs, ListPcs
  <2>4. ASSUME NEW g, NEW failing, n = Closing("pushed", g, t.out \ {g}, failing, t.login)
        PROVE  GoesKept(w)
    <3>1. n.pc = "close.add" /\ n.for = "pushed" /\ n.with = t.login
      BY <2>4 DEF Closing
    <3>2. n.pc \in ClosePcs /\ n.pc \notin UsePcs \cup ListPcs
      BY <3>1 DEF ClosePcs, UsePcs, LivePcs, RaisePcs, ListPcs
    <3>3. QED
      BY <1>1, <1>3, <2>1, <2>2, <3>1, <3>2, FrameKeeps DEF GoesKept
  <2>5. QED
    BY <2>2, <2>3, <2>4
<1>12. QED
  BY <1>0, <1>5, <1>6, <1>8, <1>9, <1>10, <1>11

(* What is no login and no use brings none about.                          *)
LEMMA OthersKeep ==
  ASSUME LifeInv, NEW w \in Worker,
         RevokeStep(w) \/ StartClose(w) \/ StartSweep(w) \/ StartRevoke(w) \/ Vanish(w)
  PROVE  GoesKept(w)
<1>1. ASSUME NEW for \in {"request", "sweep", "follow", "revoked"}, NEW h, NEW rest, NEW failing, NEW with,
             NEW n, n = Closing(for, h, rest, failing, with), task' = [task EXCEPT ![w] = n]
      PROVE  GoesKept(w)
  <2>1. n.pc = "close.add" /\ n.for = for
    BY <1>1 DEF Closing
  <2>2. ~HasLogin(n) /\ n.pc \notin UsePcs \cup ListPcs /\ n.pc \notin {"idle", "login.answer"}
    BY <1>1, <2>1 DEF HasLogin, LoginPcs, ClosePcs, UsePcs, LivePcs, RaisePcs, ListPcs
  <2>3. QED
    BY <1>1, <2>2, FrameKeeps DEF GoesKept
<1>2. ASSUME NEW n, n.pc \in RevokePcs, task' = [task EXCEPT ![w] = n]
      PROVE  GoesKept(w)
  <2>1. ~HasLogin(n) /\ n.pc \notin UsePcs \cup ListPcs /\ n.pc \notin {"idle", "login.answer"}
    BY <1>2 DEF HasLogin, LoginPcs, ClosePcs, UsePcs, LivePcs, RaisePcs, RevokePcs, ListPcs
  <2>2. QED
    BY <1>2, <2>1, FrameKeeps DEF GoesKept
<1>3. CASE RevokeWrite(w)
  <2>1. PICK n, s, owed : n = [pc |-> "revoke.list", subject |-> s, owed |-> owed] /\ task' = [task EXCEPT ![w] = n]
    BY <1>3 DEF RevokeWrite, Go
  <2>2. n.pc \in RevokePcs
    BY <2>1 DEF RevokePcs
  <2>3. QED
    BY <1>2, <2>1, <2>2
<1>4. CASE StartRevoke(w)
  <2>1. PICK n, s, deadline : /\ n = [pc |-> "revoke.write", subject |-> s, deadline |-> deadline]
                              /\ task' = [task EXCEPT ![w] = n]
    BY <1>4 DEF StartRevoke, Go
  <2>2. n.pc \in RevokePcs
    BY <2>1 DEF RevokePcs
  <2>3. QED
    BY <1>2, <2>1, <2>2
<1>5. CASE RevokeLate(w) \/ Vanish(w)
  BY <1>5, NothingKeeps DEF RevokeLate, Vanish
<1>6. CASE RevokeList(w)
  <2>1. PICK members : members = listed[task[w].subject]
    OBVIOUS
  <2>2. CASE members = {}
    <3>1. PICK answer : answer = [said |-> "complete", owed |-> task[w].owed] /\ Answer(w, answer)
      BY <1>6, <2>1, <2>2 DEF RevokeList
    <3>2. answer.said # "entered"
      BY <3>1
    <3>3. QED
      BY <3>1, <3>2, AnswerKeeps
  <2>3. CASE members # {}
    <3>1. PICK for, h, rest, failing, with, n :
            /\ for = "follow"
            /\ n = Closing(for, h, rest, failing, with)
            /\ task' = [task EXCEPT ![w] = n]
      BY <1>6, <2>1, <2>3 DEF RevokeList, Go
    <3>2. QED
      BY <1>1, <3>1
  <2>4. QED
    BY <2>2, <2>3
<1>7. CASE StartClose(w)
  <2>1. PICK for, h, rest, failing, with, n :
          /\ for = "request"
          /\ n = Closing(for, h, rest, failing, with)
          /\ Answer(w, Nothing) \/ task' = [task EXCEPT ![w] = n]
    BY <1>7 DEF StartClose, Go
  <2>2. QED
    BY <1>1, <2>1, NothingKeeps
<1>8. CASE StartSweep(w)
  <2>1. PICK for, h, rest, failing, with, n :
          /\ for = "sweep"
          /\ n = Closing(for, h, rest, failing, with)
          /\ task' = [task EXCEPT ![w] = n]
    BY <1>8 DEF StartSweep, Go
  <2>2. QED
    BY <1>1, <2>1
<1>9. QED
  BY <1>3, <1>4, <1>5, <1>6, <1>7, <1>8 DEF RevokeStep

(* A login that goes on to its listing, and one that lists, keep the       *)
(* handle they had.                                                        *)
LEMMA ListingGoes ==
  ASSUME LifeInv, NEW w \in Worker, LoginCheck(w) \/ LoginList(w)
  PROVE  \E n : /\ task' = [task EXCEPT ![w] = n]
                /\ \A h : Pends(n, h) => Pends(task[w], h)
                /\ n.pc \notin UsePcs /\ n.pc \notin {"idle", "login.answer"}
                /\ HasLogin(n) => HasLogin(task[w]) /\ LoginOf(n) = LoginOf(task[w])
<1>1. PICK t : t = task[w]
  OBVIOUS
<1>2. t.pc \in {"login.check", "login.list"}
  BY <1>1 DEF LoginCheck, LoginList, At
<1>3. HasLogin(t) /\ LoginOf(t) = t.login
  BY <1>1, <1>2, LoginAt DEF LoginPcs
<1>4. PICK n, h, failing, out :
        /\ task' = [task EXCEPT ![w] = n]
        /\ \/ n = Closing("revoked", h, {}, failing, t.login)
           \/ n = [pc |-> "login.list", login |-> t.login]
           \/ n = [pc |-> "login.issue", login |-> t.login]
           \/ n = [pc |-> "login.keep", login |-> t.login, out |-> out, todo |-> out]
  BY <1>1 DEF LoginCheck, LoginList, Go
<1>5. \/ n.pc = "close.add" /\ n.for = "revoked"
      \/ n.pc \in {"login.list", "login.issue", "login.keep"} /\ n.login = t.login
  BY <1>4 DEF Closing
<1>6. (HasLogin(n) => LoginOf(n) = LoginOf(t)) /\ n.pc \notin UsePcs /\ n.pc \notin {"idle", "login.answer"}
  BY <1>3, <1>5 DEF HasLogin, LoginOf, LoginPcs, ClosePcs, UsePcs, LivePcs, RaisePcs
<1>7. QED
  BY <1>1, <1>3, <1>4, <1>6 DEF Pends

----------------------------------------------------------------------------
(* What a step of w may do to cookies: a secret carried out is a first one *)
(* or the one it raises with, a first cookie opens only the session it     *)
(* logs in to, and a record is raised only by the update of a raise.       *)
RaisedIn(h) == record[h].state \in Full /\ record[h].raised

Cookies(w) ==
  /\ carried \subseteq carried' /\ drawn \subseteq drawn' /\ first \subseteq first'
  /\ first' \subseteq Secret /\ carried' \subseteq Secret
  /\ \A s \in carried' \ carried : s \in first \/ (task[w].pc = "raise.update" /\ s = task[w].new)
  /\ \A s \in first' \ first : s \notin drawn
  /\ \A s \in first' : (s \in first /\ index'[s] \in {index[s], NoHandle}) \/ Pends(task[w], index'[s])
  /\ \A r, s \in first' : Pends(task[w], index'[r]) /\ index'[r] = index'[s] => r = s
  /\ \A s \in carried : index'[s] \in {index[s], NoHandle}
  /\ \A s \in (Secret \cap drawn) \ carried : index'[s] = index[s]
  /\ \A h \in Handle : RaisedIn(h)' => RaisedIn(h) \/ (task[w].pc = "raise.update" /\ h = task[w].h)

LEMMA StaysRetired ==
  ASSUME LifeInv, NEW w \in Worker, Cookies(w), NEW h \in Handle, ~Pends(task[w], h)
  PROVE  /\ \A s \in first' : index'[s] = h => s \in first /\ index[s] = h
         /\ Retired(h) => Retired(h)'
<1>1. ASSUME NEW s \in first', index'[s] = h PROVE s \in first /\ index[s] = h
  BY <1>1, LifecycleAssumption DEF Cookies
<1>2. QED
  BY <1>1 DEF Retired

LEMMA CookieFrame ==
  ASSUME LifeInv, CookieInv, NEW w \in Worker, Cookies(w), NEW v \in Worker \ {w}, NEW t, t = task[v]
  PROVE  CookieFine(t)'
<1>1. CookieFine(t) /\ LifeFine(t)
  BY DEF CookieInv, LifeInv
<1>2. ASSUME t.pc \in UsePcs
      PROVE  /\ t.s \in carried' /\ t.h \in Handle
             /\ \A s \in first' : index'[s] = t.h => s = t.s
             /\ Retired(t.h) => Retired(t.h)'
  <2>1. t.h \in Handle /\ Issued(t.h)
    BY <1>2, UseAt
  <2>2. ~Pends(task[w], t.h)
    BY <2>1, PendingDrawn
  <2>3. \A s \in first' : index'[s] = t.h => s \in first /\ index[s] = t.h
    BY <2>1, <2>2, StaysRetired
  <2>4. Retired(t.h) => Retired(t.h)'
    BY <2>1, <2>2, StaysRetired
  <2>5. QED
    BY <1>1, <1>2, <2>1, <2>3, <2>4 DEF CookieFine, Cookies
<1>3. ASSUME t.pc \in RaisePcs PROVE t.new \in drawn' \ (carried' \cup first') /\ index'[t.new] = t.h
  <2>1. t.new \in Secret \cap drawn /\ t.new \notin carried \cup first /\ index[t.new] = t.h
    BY <1>1, <1>3, UseAt DEF CookieFine, UsePcs
  <2>2. index'[t.new] = t.h /\ t.new \in drawn' /\ t.new \notin first'
    BY <2>1 DEF Cookies
  <2>3. ASSUME t.new \in carried' PROVE FALSE
    <3>1. task[w].pc = "raise.update" /\ t.new = task[w].new
      BY <2>1, <2>3 DEF Cookies
    <3>2. QED
      BY <1>3, <3>1 DEF CookieInv, RaisePcs
  <2>4. QED
    BY <2>1, <2>2, <2>3
<1>4. ASSUME t.pc = "idle", t.told.said = "entered"
      PROVE  t.told.s \in drawn' /\ (t.told.raised => t.told.s \notin first')
  BY <1>1, <1>4 DEF CookieFine, Cookies
<1>5. ASSUME HasLogin(t), NEW h, h = LoginOf(t).handle PROVE ~RaisedIn(h)'
  <2>1. h \in Handle /\ Pends(t, h)
    BY <1>1, <1>5 DEF LifeFine, LoginFine, Pends
  <2>2. ~Issued(h)
    BY <2>1, PendingDrawn
  <2>3. ~RaisedIn(h)
    BY <1>1, <1>5 DEF CookieFine, RaisedIn
  <2>4. task[w].pc = "raise.update" => Issued(task[w].h)
    BY UseAt DEF UsePcs, RaisePcs
  <2>5. QED
    BY <2>1, <2>2, <2>3, <2>4 DEF Cookies
<1>6. t.pc \in {"live.check", "enter.index", "raise.issue", "raise.update"} \/ t.pc = "live.read" => t.pc \in UsePcs
  BY DEF UsePcs, LivePcs, RaisePcs
<1>7. HasLogin(t) => ~RaisedIn(LoginOf(t).handle)'
  <2>1. PICK h : h = LoginOf(t).handle
    OBVIOUS
  <2>2. HasLogin(t) => ~RaisedIn(h)'
    BY <1>5, <2>1
  <2>3. QED
    BY <2>1, <2>2 DEF RaisedIn
<1>8. t.pc = "login.answer" => t.s \in first'
  BY <1>1 DEF CookieFine, Cookies
<1>9. QED
  BY <1>1, <1>2, <1>3, <1>4, <1>6, <1>7, <1>8 DEF CookieFine, Retired, HasLogin, LoginOf, RaisedIn

LEMMA CookieStep ==
  ASSUME LifeInv, CookieInv, NEW w \in Worker, Cookies(w), NEW n, task' = [task EXCEPT ![w] = n],
         CookieFine(n)',
         n.pc \in RaisePcs => n.new \notin drawn \/ (task[w].pc \in RaisePcs /\ n.new = task[w].new)
  PROVE  CookieInv'
<1>1. DOMAIN task' = Worker /\ task'[w] = n /\ \A v \in Worker \ {w} : task'[v] = task[v]
  BY DEF LifeInv
<1>2. \A v \in Worker : \A t : t = task'[v] => CookieFine(t)'
  BY <1>1, CookieFrame
<1>3. ASSUME NEW h \in Handle, RaisedIn(h)' PROVE Retired(h)'
  <2>1. Retired(h)
    BY <1>3 DEF Cookies, RaisedIn, CookieInv, CookieFine
  <2>2. ~Pends(task[w], h)
    <3>1. ASSUME Pends(task[w], h) PROVE ~RaisedIn(h) /\ ~Issued(h)
      <4>1. CookieFine(task[w])
        BY DEF CookieInv
      <4>2. QED
        BY <3>1, <4>1, PendingDrawn DEF CookieFine, RaisedIn, Pends
    <3>2. task[w].pc = "raise.update" => Issued(task[w].h)
      BY UseAt DEF UsePcs, RaisePcs
    <3>3. QED
      BY <1>3, <3>1, <3>2 DEF Cookies
  <2>3. QED
    BY <2>1, <2>2, StaysRetired
<1>4. ASSUME NEW r \in first', NEW s \in first', index'[r] = index'[s], index'[s] # NoHandle PROVE r = s
  BY <1>4 DEF Cookies, CookieInv
<1>5. ASSUME NEW s \in carried' \ first', NEW h, index'[s] = h, h # NoHandle PROVE Retired(h)'
  <2>1. CASE s \in carried
    <3>1. s \notin first /\ index[s] = h
      BY <1>5, <2>1 DEF Cookies
    <3>2. Retired(h)
      BY <1>5, <2>1, <3>1 DEF CookieInv
    <3>3. h \in Handle /\ Issued(h)
      BY <1>5, <2>1, <3>1, OpenedKnown
    <3>4. QED
      BY <3>2, <3>3, PendingDrawn, StaysRetired
  <2>2. CASE s \notin carried
    <3>1. task[w].pc = "raise.update" /\ s = task[w].new
      BY <1>5, <2>2 DEF Cookies
    <3>2. task[w].pc \in UsePcs /\ task[w].pc \in RaisePcs
      BY <3>1 DEF UsePcs, RaisePcs
    <3>3. task[w].h \in Handle /\ Issued(task[w].h) /\ s \in Secret \cap drawn
      BY <3>1, <3>2, UseAt
    <3>4. index[s] = task[w].h /\ Retired(task[w].h)
      BY <3>1, <3>2 DEF CookieInv, CookieFine
    <3>5. index'[s] = index[s]
      BY <2>2, <3>3 DEF Cookies
    <3>6. QED
      BY <1>5, <3>3, <3>4, <3>5, PendingDrawn, StaysRetired
  <2>3. QED
    BY <2>1, <2>2
<1>6. ASSUME NEW u \in Worker, NEW v \in Worker, task'[u].pc \in RaisePcs, task'[v].pc \in RaisePcs,
             task'[u].new = task'[v].new
      PROVE  u = v
  <2>1. ASSUME NEW x \in Worker, task[x].pc \in RaisePcs PROVE task[x].new \in drawn
    BY <2>1 DEF CookieInv, CookieFine
  <2>2. QED
    BY <1>1, <1>6, <2>1 DEF CookieInv
<1>7. (\A v \in Worker : CookieFine(task[v]))'
  BY <1>2 DEF CookieFine, Retired, HasLogin, LoginOf
<1>8. (\A h \in Handle : record[h].state \in Full /\ record[h].raised => Retired(h))'
  BY <1>3 DEF RaisedIn, Retired
<1>9. (\A s \in carried \ first : index[s] # NoHandle => Retired(index[s]))'
  BY <1>5 DEF Retired
<1>10. QED
  BY <1>4, <1>6, <1>7, <1>8, <1>9 DEF CookieInv

(* A step that leaves the cookies and raises nothing.                      *)
RaisesNone == \A h \in Handle : RaisedIn(h)' => RaisedIn(h)

GoesOn(t, n) ==
  /\ \A h : Pends(n, h) => Pends(t, h)
  /\ n.pc \notin UsePcs /\ n.pc # "login.answer"
  /\ n.pc = "idle" => n.told.said # "entered"

LEMMA CookieQuiet ==
  ASSUME LifeInv, CookieInv, UNCHANGED <<index, carried, first>>, drawn \subseteq drawn', RaisesNone, NEW w \in Worker
  PROVE  Cookies(w)
<1>1. index' = index /\ carried' = carried /\ first' = first
  OBVIOUS
<1>2. first \subseteq Secret /\ carried \subseteq Secret
  BY DEF LifeInv, StateFine
<1>3. ASSUME NEW r \in first, NEW s \in first, Pends(task[w], index[r]) PROVE FALSE
  <2>1. index[r] \in Handle /\ Issued(index[r])
    BY <1>2, <1>3, PendingDrawn DEF Issued
  <2>2. QED
    BY <1>3, <2>1, PendingDrawn
<1>4. QED
  BY <1>1, <1>2, <1>3 DEF Cookies, RaisesNone

LEMMA CookieKept ==
  ASSUME LifeInv, CookieInv, UNCHANGED cookieVars, RaisesNone, NEW w \in Worker,
         NEW n, task' = [task EXCEPT ![w] = n], GoesOn(task[w], n)
  PROVE  CookieInv'
<1>1. Cookies(w)
  BY CookieQuiet DEF cookieVars
<1>2. n.pc \notin UsePcs
  BY DEF GoesOn
<1>3. ASSUME HasLogin(n) PROVE ~RaisedIn(LoginOf(n).handle)'
  <2>1. PICK h : h = LoginOf(n).handle
    OBVIOUS
  <2>2. Pends(task[w], h)
    BY <1>3, <2>1 DEF GoesOn, Pends
  <2>3. h \in Handle /\ HasLogin(task[w]) /\ LoginOf(task[w]).handle = h
    BY <2>2, PendingDrawn DEF Pends
  <2>4. ~RaisedIn(h)
    BY <2>3 DEF CookieInv, CookieFine, RaisedIn
  <2>5. ~RaisedIn(h)'
    BY <2>3, <2>4 DEF RaisesNone
  <2>6. QED
    BY <2>1, <2>5 DEF RaisedIn
<1>4. n.pc \notin {"live.check", "enter.index", "raise.issue", "live.read", "raise.update", "login.answer"} \cup RaisePcs
  BY <1>2 DEF GoesOn, UsePcs, LivePcs, RaisePcs
<1>5. CookieFine(n)'
  BY <1>2, <1>3, <1>4 DEF CookieFine, GoesOn, RaisedIn, HasLogin, LoginOf
<1>6. QED
  BY <1>1, <1>4, <1>5, CookieStep

LEMMA CookieGoes ==
  ASSUME LifeInv, CookieInv, UNCHANGED cookieVars, RaisesNone, NEW w \in Worker, GoesKept(w)
  PROVE  CookieInv'
BY CookieKept DEF GoesKept, Keeps, GoesOn

LEMMA SameRecordsRaiseNone == record' = record => RaisesNone
BY DEF RaisesNone, RaisedIn

(* A record changed only in its state, replaced by a mark or a new opening *)
(* or dropped is not raised by it.                                         *)
LEMMA OneRecordRaisesNone ==
  ASSUME LifeInv, NEW h \in Handle, NEW r, record' = [record EXCEPT ![h] = r],
         (r.state \in Full /\ r.raised) => RaisedIn(h)
  PROVE  RaisesNone
<1>1. record'[h] = r /\ \A g \in Handle \ {h} : record'[g] = record[g]
  BY DEF LifeInv, StateFine
<1>2. QED
  BY <1>1 DEF RaisesNone, RaisedIn

LEMMA EndOpenRaisesNone ==
  ASSUME LifeInv, NEW h \in Handle, EndOpen(h)
  PROVE  RaisesNone
<1>1. RecordFine(record[h])
  BY DEF LifeInv, StateFine
<1>2. CASE record[h].state = "open"
  <2>1. PICK r : r = [record[h] EXCEPT !.state = "closed"]
    OBVIOUS
  <2>2. record' = [record EXCEPT ![h] = r] /\ ((r.state \in Full /\ r.raised) => RaisedIn(h))
    BY <1>1, <1>2, <2>1 DEF EndOpen, RecordFine, RaisedIn, Gone, Full
  <2>3. QED
    BY <2>2, OneRecordRaisesNone
<1>3. QED
  BY <1>2, SameRecordsRaiseNone DEF EndOpen

LEMMA CloseCookies ==
  ASSUME LifeInv, CookieInv, NEW w \in Worker, CloseStep(w)
  PROVE  CookieInv'
<1>1. PICK t, h : t = task[w] /\ h = t.h
  OBVIOUS
<1>2. GoesKept(w) /\ t.pc \in ClosePcs
  BY <1>1, CloseKeeps
<1>3. h \in Handle /\ RecordFine(record[h])
  BY <1>1, <1>2, CloseAt DEF LifeInv, StateFine
<1>4. UNCHANGED cookieVars
  BY DEF CloseStep, CloseThrows, CloseAdd, CloseAdvance, CloseMark, CloseRemark, Mark, ParticipantFinishes,
     ParticipantFails, PutOff, CloseFinish, CloseUnlist, CloseDone
<1>5. RaisesNone
  <2>1. CASE record' = record
    BY <2>1, SameRecordsRaiseNone
  <2>2. ASSUME NEW r, record' = [record EXCEPT ![h] = r],
               \/ record[h].state \in Full /\ \E state : r = [record[h] EXCEPT !.state = state]
               \/ r = [state |-> "mark"]
        PROVE  RaisesNone
    <3>1. (r.state \in Full /\ r.raised) => RaisedIn(h)
      BY <1>3, <2>2 DEF RecordFine, RaisedIn, Gone, Full
    <3>2. QED
      BY <1>3, <2>2, <3>1, OneRecordRaisesNone
  <2>3. CASE CloseAdvance(w)
    <3>1. CASE record[h].state \in {"open", "closing"}
      BY <1>1, <2>2, <2>3, <3>1 DEF CloseAdvance, Full
    <3>2. CASE record[h].state \in {"gone", "closed", "mark"}
      BY <1>1, <2>1, <2>3, <3>2 DEF CloseAdvance
    <3>3. QED
      BY <1>3, <3>1, <3>2 DEF RecordFine, Gone, Full
  <2>4. CASE CloseMark(w) \/ CloseRemark(w)
    BY <1>1, <2>1, <2>2, <2>4 DEF CloseMark, CloseRemark, Mark
  <2>5. CASE CloseFinish(w)
    <3>1. CASE record[h].state \in Full
      BY <1>1, <2>2, <2>5, <3>1 DEF CloseFinish, Full
    <3>2. CASE record[h].state = "gone"
      BY <1>1, <2>1, <2>5, <3>2 DEF CloseFinish
    <3>3. CASE record[h].state = "mark"
      <4>1. record[h] = [state |-> "mark"]
        BY <1>3, <3>3 DEF RecordFine, Gone, Full
      <4>2. PICK r : r = [record[h] EXCEPT !.state = IF @ = "mark" THEN @ ELSE "closed"]
        OBVIOUS
      <4>3. record' = [record EXCEPT ![h] = r]
        BY <1>1, <1>3, <2>5, <3>3, <4>2 DEF CloseFinish, LifeInv, StateFine
      <4>4. r = [state |-> "mark"]
        BY <4>1, <4>2
      <4>5. QED
        BY <2>2, <4>3, <4>4
    <3>4. QED
      BY <1>3, <3>1, <3>2, <3>3 DEF RecordFine, Gone
  <2>6. QED
    BY <2>1, <2>3, <2>4, <2>5 DEF CloseStep, CloseThrows, CloseAdd, ParticipantFinishes, ParticipantFails, PutOff,
       CloseUnlist, CloseDone
<1>6. QED
  BY <1>2, <1>4, <1>5, CookieGoes

LEMMA LoginIssueCookies ==
  ASSUME LifeInv, CookieInv, NEW w \in Worker, LoginIssue(w)
  PROVE  CookieInv'
<1>1. PICK t, h : t = task[w] /\ h = t.login.handle
  OBVIOUS
<1>2. t.pc = "login.issue" /\ t.pc \in LoginPcs
  BY <1>1 DEF LoginIssue, At, LoginPcs
<1>3. h \in Handle /\ Pends(t, h)
  BY <1>1, <1>2, LoginAt
<1>4. ~Issued(h)
  BY <1>1, <1>3, PendingDrawn
<1>5. PICK s, n :
        /\ s \in Secret \ drawn
        /\ drawn' = drawn \cup {s} /\ first' = first \cup {s}
        /\ index' = [index EXCEPT ![s] = h]
        /\ n = [pc |-> "login.answer", s |-> s]
        /\ task' = [task EXCEPT ![w] = n]
  BY <1>1 DEF LoginIssue, Go
<1>6. /\ first \cup carried \subseteq Secret \cap drawn
      /\ index'[s] = h /\ \A r \in Secret \ {s} : index'[r] = index[r]
  BY <1>5 DEF LifeInv, StateFine
<1>7. \A r \in first : index'[r] = index[r] /\ index[r] # h
  BY <1>4, <1>5, <1>6 DEF Issued
<1>8. record' = record /\ carried' = carried
  BY DEF LoginIssue
<1>9. Cookies(w)
  <2>1. \A r \in first' : (r \in first /\ index'[r] = index[r]) \/ (r = s /\ Pends(task[w], index'[r]))
    BY <1>1, <1>3, <1>5, <1>6, <1>7
  <2>2. \A r, q \in first' : Pends(task[w], index'[r]) /\ index'[r] = index'[q] => r = q
    <3>1. \A r : Pends(task[w], r) => r = h
      BY <1>1, <1>3 DEF Pends
    <3>2. QED
      BY <1>5, <1>6, <1>7, <3>1
  <2>3. \A r \in carried : index'[r] = index[r]
    BY <1>5, <1>6
  <2>4. \A r \in Secret \cap drawn : index'[r] = index[r]
    BY <1>5, <1>6
  <2>5. \A g \in Handle : RaisedIn(g)' => RaisedIn(g)
    BY <1>8 DEF RaisedIn
  <2>6. QED
    BY <1>5, <1>6, <1>8, <2>1, <2>2, <2>3, <2>4, <2>5 DEF Cookies
<1>10. n.pc = "login.answer" /\ n.s \in first' /\ ~HasLogin(n)
  BY <1>5 DEF HasLogin, LoginPcs, ClosePcs
<1>11. CookieFine(n)'
  BY <1>10 DEF CookieFine, HasLogin, LoginPcs, ClosePcs, UsePcs, LivePcs, RaisePcs
<1>12. QED
  BY <1>5, <1>9, <1>10, <1>11, CookieStep DEF RaisePcs

LEMMA LoginAnswerCookies ==
  ASSUME LifeInv, CookieInv, NEW w \in Worker, LoginAnswer(w)
  PROVE  CookieInv'
<1>1. PICK t, n : t = task[w] /\ n = Idle(Nothing)
  OBVIOUS
<1>2. t.pc = "login.answer" /\ t.s \in first
  BY <1>1 DEF LoginAnswer, At, CookieInv, CookieFine
<1>3. /\ index' = index /\ first' = first /\ drawn' = drawn /\ record' = record
      /\ carried' = carried \cup {t.s} /\ task' = [task EXCEPT ![w] = n]
  BY <1>1 DEF LoginAnswer, Answer, Go
<1>4. first \subseteq Secret /\ carried \subseteq Secret
  BY DEF LifeInv, StateFine
<1>5. \A x : ~Pends(task[w], x)
  BY <1>1, <1>2 DEF Pends, HasLogin, LoginPcs, ClosePcs
<1>6. Cookies(w)
  <2>1. \A g \in Handle : RaisedIn(g)' => RaisedIn(g)
    BY <1>3 DEF RaisedIn
  <2>2. QED
    BY <1>2, <1>3, <1>4, <1>5, <2>1 DEF Cookies
<1>7. n.pc = "idle" /\ n.told.said # "entered" /\ ~HasLogin(n)
  BY <1>1 DEF Idle, Nothing, HasLogin, LoginPcs, ClosePcs
<1>8. CookieFine(n)'
  BY <1>7 DEF CookieFine, HasLogin, LoginPcs, ClosePcs, UsePcs, LivePcs, RaisePcs
<1>9. QED
  BY <1>3, <1>6, <1>7, <1>8, CookieStep DEF RaisePcs

LEMMA LoginCookies ==
  ASSUME LifeInv, CookieInv, NEW w \in Worker, LoginStep(w)
  PROVE  CookieInv'
<1>1. PICK t : t = task[w]
  OBVIOUS
<1>2. CASE LoginIssue(w) \/ LoginAnswer(w)
  BY <1>2, LoginIssueCookies, LoginAnswerCookies
<1>3. CASE LoginStamp(w) \/ LoginKeep(w) \/ LoginTakeBack(w) \/ LoginReadLeft(w) \/ LoginRelist(w) \/ LoginRefused(w)
  <2>1. UNCHANGED cookieVars /\ record' = record
    BY <1>3 DEF LoginStamp, LoginKeep, LoginTakeBack, LoginReadLeft, LoginRelist, LoginRefused
  <2>2. QED
    BY <1>3, <2>1, LoginKeeps, SameRecordsRaiseNone, CookieGoes
<1>4. CASE LoginCheck(w) \/ LoginList(w)
  <2>1. UNCHANGED cookieVars /\ record' = record
    BY <1>4 DEF LoginCheck, LoginList
  <2>2. PICK n : /\ task' = [task EXCEPT ![w] = n]
                 /\ \A h : Pends(n, h) => Pends(task[w], h)
                 /\ n.pc \notin UsePcs /\ n.pc \notin {"idle", "login.answer"}
    BY <1>4, ListingGoes
  <2>3. GoesOn(task[w], n)
    BY <2>2 DEF GoesOn
  <2>4. QED
    BY <2>1, <2>2, <2>3, SameRecordsRaiseNone, CookieKept
<1>5. CASE LoginSave(w)
  <2>1. PICK h, r : h = t.login.handle /\ r = Opening(t.openedAt, t.login.proven)
    OBVIOUS
  <2>2. t.pc \in LoginPcs /\ UNCHANGED cookieVars /\ record' = [record EXCEPT ![h] = r]
    BY <1>1, <1>5, <2>1 DEF LoginSave, At, LoginPcs
  <2>3. h \in Handle
    BY <1>1, <2>1, <2>2, LoginAt
  <2>4. ~r.raised
    BY <2>1 DEF Opening
  <2>5. RaisesNone
    BY <2>2, <2>3, <2>4, OneRecordRaisesNone
  <2>6. QED
    BY <1>5, <2>2, <2>5, LoginKeeps, CookieGoes
<1>6. CASE LoginEnd(w)
  <2>1. t.pc = "login.putback" /\ t.pc \in LoginPcs
    BY <1>1, <1>6 DEF LoginEnd, At, LoginPcs
  <2>2. t.ending \subseteq Knowns
    BY <1>1, <2>1, LoginAt, KeepAt
  <2>3. PICK h \in t.ending : EndOpen(h) \/ record' = record
    BY <1>1, <1>6 DEF LoginEnd
  <2>4. h \in Handle /\ UNCHANGED cookieVars
    BY <1>6, <2>2, <2>3 DEF LoginEnd, Knowns
  <2>5. RaisesNone
    BY <2>3, <2>4, EndOpenRaisesNone, SameRecordsRaiseNone
  <2>6. QED
    BY <1>6, <2>4, <2>5, LoginKeeps, CookieGoes
<1>7. QED
  BY <1>2, <1>3, <1>4, <1>5, <1>6 DEF LoginStep

LEMMA StartLoginCookies ==
  ASSUME LifeInv, CookieInv, NEW w \in Worker, StartLogin(w)
  PROVE  CookieInv'
<1>1. PICK h, login :
        /\ h \in load.handles \ drawn
        /\ login = [handle |-> h, proven |-> now]
        /\ drawn' = drawn \cup {h}
        /\ \/ Go(w, [pc |-> "login.stamp", login |-> login])
           \/ \E s \in carried :
                /\ index[s] # NoHandle
                /\ Go(w, Closing("earlier", index[s], {}, FALSE, login))
  BY DEF StartLogin
<1>2. record' = record /\ index' = index /\ carried' = carried /\ first' = first
  BY DEF StartLogin
<1>3. h \in Handle /\ ~Known(h)
  BY <1>1, LifecycleAssumption DEF LifeInv, StateFine, Knowns, Known
<1>4. PICK n :
        /\ task' = [task EXCEPT ![w] = n]
        /\ \/ n = [pc |-> "login.stamp", login |-> login]
           \/ \E s \in carried : \E failing : n = Closing("earlier", index[s], {}, failing, login)
  BY <1>1 DEF Go
<1>5. \/ n.pc = "login.stamp" /\ n.login = login
      \/ n.pc = "close.add" /\ n.for = "earlier" /\ n.with = login
  BY <1>4 DEF Closing
<1>6. n.pc \notin UsePcs /\ n.pc \notin {"idle", "login.answer"} /\ LoginOf(n).handle = h
  BY <1>1, <1>5 DEF LoginOf, LoginPcs, ClosePcs, UsePcs, LivePcs, RaisePcs
<1>7. ~RaisedIn(h)'
  BY <1>2, <1>3 DEF RaisedIn, Known, Full
<1>8. n.pc \notin {"live.check", "enter.index", "raise.issue", "live.read", "raise.update", "login.answer"} \cup RaisePcs
  BY <1>6 DEF UsePcs, LivePcs, RaisePcs
<1>9. CookieFine(n)'
  BY <1>6, <1>7, <1>8 DEF CookieFine, HasLogin, LoginOf, RaisedIn
<1>10. Cookies(w)
  BY <1>1, <1>2, SameRecordsRaiseNone, CookieQuiet
<1>11. QED
  BY <1>4, <1>8, <1>9, <1>10, CookieStep

(* A use of a cookie that goes on to n, or answers.                        *)
LEMMA UseCookieGoes ==
  ASSUME LifeInv, CookieInv, UNCHANGED cookieVars, record' = record, NEW w \in Worker,
         NEW n, task' = [task EXCEPT ![w] = n], CookieFine(n), n.pc \notin RaisePcs
  PROVE  CookieInv'
<1>1. index' = index /\ drawn' = drawn /\ carried' = carried /\ first' = first
  BY DEF cookieVars
<1>2. Cookies(w)
  BY <1>1, SameRecordsRaiseNone, CookieQuiet
<1>3. CookieFine(n)'
  BY <1>1 DEF CookieFine, Retired
<1>4. QED
  BY <1>2, <1>3, CookieStep

LEMMA UseCookieFine ==
  ASSUME NEW n, n.pc \in LivePcs, n.s \in carried, \A s \in first : index[s] = n.h => s = n.s,
         n.pc \in {"live.check", "enter.index", "raise.issue"} \/ (n.pc = "live.read" /\ n.again) =>
           "raised" \in DOMAIN n.found /\ (n.found.raised => Retired(n.h))
  PROVE  CookieFine(n) /\ n.pc \notin RaisePcs
<1>1. n.pc \notin RaisePcs /\ n.pc # "raise.update" /\ n.pc \notin {"idle", "login.answer"} /\ n.pc \notin LoginPcs \cup ClosePcs
  BY DEF LivePcs, RaisePcs, LoginPcs, ClosePcs
<1>2. QED
  BY <1>1 DEF CookieFine, HasLogin

LEMMA StartUseCookies ==
  ASSUME LifeInv, CookieInv, NEW w \in Worker, NEW use, StartUse(w, use)
  PROVE  CookieInv'
<1>1. UNCHANGED cookieVars /\ record' = record
  BY DEF StartUse
<1>2. PICK s \in carried :
        \/ Answer(w, Nothing)
        \/ /\ index[s] # NoHandle
           /\ Go(w, [pc |-> "live.read", for |-> use, s |-> s, h |-> index[s], found |-> Gone, again |-> FALSE])
  BY DEF StartUse
<1>3. CASE Answer(w, Nothing)
  BY <1>1, <1>3, NothingKeeps, SameRecordsRaiseNone, CookieGoes
<1>4. ASSUME NEW n, index[s] # NoHandle, task' = [task EXCEPT ![w] = n],
             n = [pc |-> "live.read", for |-> use, s |-> s, h |-> index[s], found |-> Gone, again |-> FALSE]
      PROVE  CookieInv'
  <2>1. n.pc = "live.read" /\ n.s = s /\ n.h = index[s] /\ ~n.again
    BY <1>4
  <2>2. \A r \in first : index[r] = index[s] => r = s
    <3>1. CASE s \in first
      BY <1>4, <3>1 DEF CookieInv
    <3>2. CASE s \notin first
      BY <1>2, <1>4, <3>2 DEF CookieInv, Retired
    <3>3. QED
      BY <3>1, <3>2
  <2>3. CookieFine(n) /\ n.pc \notin RaisePcs
    BY <1>2, <2>1, <2>2, UseCookieFine DEF LivePcs
  <2>4. QED
    BY <1>1, <1>4, <2>3, UseCookieGoes
<1>5. QED
  BY <1>2, <1>3, <1>4 DEF Go

LEMMA LiveReadCookies ==
  ASSUME LifeInv, CookieInv, NEW w \in Worker, LiveRead(w)
  PROVE  CookieInv'
<1>1. PICK t, h : t = task[w] /\ h = t.h
  OBVIOUS
<1>2. t.pc = "live.read" /\ t.pc \in LivePcs /\ t.pc \in UsePcs
  BY <1>1 DEF LiveRead, At, LivePcs, UsePcs
<1>3. LiveParts \subseteq DOMAIN t /\ h \in Handle
  BY <1>1, <1>2, UseAt DEF LiveParts
<1>4. CookieFine(t) /\ RecordFine(record[h])
  BY <1>1, <1>3 DEF CookieInv, LifeInv, StateFine
<1>5. UNCHANGED cookieVars /\ record' = record
  BY DEF LiveRead
<1>6. CASE Answer(w, Nothing)
  BY <1>5, <1>6, NothingKeeps, SameRecordsRaiseNone, CookieGoes
<1>7. ASSUME NEW n, n = [t EXCEPT !.pc = "live.end"], task' = [task EXCEPT ![w] = n] PROVE CookieInv'
  <2>1. n.pc = "live.end" /\ n.s = t.s /\ n.h = h
    BY <1>1, <1>3, <1>7 DEF LiveParts
  <2>2. CookieFine(n) /\ n.pc \notin RaisePcs
    BY <1>1, <1>2, <1>4, <2>1, UseCookieFine DEF LivePcs, CookieFine
  <2>3. QED
    BY <1>5, <1>7, <2>2, UseCookieGoes
<1>8. ASSUME NEW n, NEW found, n = [t EXCEPT !.pc = "live.check", !.found = found],
             task' = [task EXCEPT ![w] = n], record[h].state = "open",
             \/ t.again /\ found = t.found
             \/ found = record[h]
      PROVE  CookieInv'
  <2>1. n.pc = "live.check" /\ n.s = t.s /\ n.h = h /\ n.found = found
    BY <1>1, <1>3, <1>8 DEF LiveParts
  <2>2. "raised" \in DOMAIN found /\ (found.raised => Retired(h))
    <3>1. CASE t.again /\ found = t.found
      BY <1>1, <1>2, <1>4, <3>1 DEF CookieFine
    <3>2. CASE found = record[h]
      BY <1>3, <1>4, <1>8, <3>2 DEF RecordFine, Gone, Full, CookieInv
    <3>3. QED
      BY <1>8, <3>1, <3>2
  <2>3. CookieFine(n) /\ n.pc \notin RaisePcs
    BY <1>1, <1>2, <1>4, <2>1, <2>2, UseCookieFine DEF LivePcs, CookieFine
  <2>4. QED
    BY <1>5, <1>8, <2>3, UseCookieGoes
<1>9. QED
  BY <1>1, <1>6, <1>7, <1>8 DEF LiveRead, Absentee, Go

LEMMA LiveCheckCookies ==
  ASSUME LifeInv, CookieInv, NEW w \in Worker, LiveCheck(w)
  PROVE  CookieInv'
<1>1. PICK t : t = task[w]
  OBVIOUS
<1>2. t.pc = "live.check" /\ t.pc \in LivePcs /\ t.pc \in UsePcs
  BY <1>1 DEF LiveCheck, At, LivePcs, UsePcs
<1>3. LiveParts \subseteq DOMAIN t /\ t.for \in {"raise", "enter"}
  BY <1>1, <1>2, UseAt DEF LiveParts
<1>4. CookieFine(t)
  BY <1>1 DEF CookieInv
<1>5. UNCHANGED cookieVars /\ record' = record
  BY DEF LiveCheck
<1>6. CASE Answer(w, Nothing)
  BY <1>5, <1>6, NothingKeeps, SameRecordsRaiseNone, CookieGoes
<1>7. ASSUME NEW n, task' = [task EXCEPT ![w] = n],
             \/ n = [t EXCEPT !.pc = "raise.issue"]
             \/ n = [t EXCEPT !.pc = "live.read", !.again = TRUE]
             \/ n = [t EXCEPT !.pc = "enter.index"]
      PROVE  CookieInv'
  <2>1. n.pc \in LivePcs /\ n.s = t.s /\ n.h = t.h /\ n.found = t.found
    BY <1>3, <1>7 DEF LiveParts, LivePcs
  <2>2. CookieFine(n) /\ n.pc \notin RaisePcs
    BY <1>2, <1>4, <2>1, UseCookieFine DEF CookieFine
  <2>3. QED
    BY <1>5, <1>7, <2>2, UseCookieGoes
<1>8. CASE Revoked(Owner[t.h], t.found.openedAt)
  BY <1>1, <1>6, <1>8 DEF LiveCheck, Absentee
<1>9. CASE ~Revoked(Owner[t.h], t.found.openedAt) /\ t.for = "raise"
  BY <1>1, <1>7, <1>9 DEF LiveCheck, Go
<1>10. CASE ~Revoked(Owner[t.h], t.found.openedAt) /\ t.for = "enter"
  <2>1. CASE t.again
    BY <1>1, <1>6, <1>7, <1>10, <2>1 DEF LiveCheck, Go
  <2>2. CASE ~t.again
    BY <1>1, <1>7, <1>10, <2>2 DEF LiveCheck, Go
  <2>3. QED
    BY <2>1, <2>2
<1>11. QED
  BY <1>3, <1>8, <1>9, <1>10

LEMMA LiveEndCookies ==
  ASSUME LifeInv, CookieInv, NEW w \in Worker, LiveEnd(w)
  PROVE  CookieInv'
<1>1. task[w].pc \in UsePcs
  BY DEF LiveEnd, At, LivePcs, UsePcs
<1>2. task[w].h \in Handle /\ EndOpen(task[w].h) /\ UNCHANGED cookieVars
  BY <1>1, UseAt DEF LiveEnd
<1>3. QED
  BY <1>2, NothingKeeps, EndOpenRaisesNone, CookieGoes DEF LiveEnd, Absentee

LEMMA EnterIndexCookies ==
  ASSUME LifeInv, CookieInv, NEW w \in Worker, EnterIndex(w)
  PROVE  CookieInv'
<1>1. PICK t, n : t = task[w] /\ n = Idle([said |-> "entered", s |-> t.s, raised |-> t.found.raised])
  OBVIOUS
<1>2. t.pc = "enter.index" /\ t.pc \in UsePcs /\ CookieFine(t)
  BY <1>1 DEF EnterIndex, At, LivePcs, UsePcs, CookieInv
<1>3. UNCHANGED cookieVars /\ record' = record
  BY DEF EnterIndex
<1>4. CASE index[t.s] = t.h
  <2>1. task' = [task EXCEPT ![w] = n]
    BY <1>1, <1>4 DEF EnterIndex, Answer, Go
  <2>2. n.pc = "idle" /\ n.told.s = t.s /\ n.told.raised = t.found.raised
    BY <1>1 DEF Idle
  <2>3. t.s \in drawn /\ (t.found.raised => t.s \notin first)
    BY <1>2, <1>4 DEF CookieFine, Retired, LifeInv, StateFine
  <2>4. CookieFine(n) /\ n.pc \notin RaisePcs
    BY <2>2, <2>3 DEF CookieFine, HasLogin, LoginPcs, ClosePcs, UsePcs, LivePcs, RaisePcs
  <2>5. QED
    BY <1>3, <2>1, <2>4, UseCookieGoes
<1>5. CASE index[t.s] # t.h
  BY <1>1, <1>3, <1>5, NothingKeeps, SameRecordsRaiseNone, CookieGoes DEF EnterIndex, Absentee
<1>6. QED
  BY <1>4, <1>5

LEMMA RaiseIssueCookies ==
  ASSUME LifeInv, CookieInv, NEW w \in Worker, RaiseIssue(w)
  PROVE  CookieInv'
<1>1. PICK t : t = task[w]
  OBVIOUS
<1>2. t.pc = "raise.issue" /\ t.pc \in UsePcs /\ CookieFine(t)
  BY <1>1 DEF RaiseIssue, At, LivePcs, UsePcs, CookieInv
<1>3. PICK r, n :
        /\ r \in Secret \ drawn
        /\ drawn' = drawn \cup {r} /\ index' = [index EXCEPT ![r] = t.h]
        /\ n = [pc |-> "raise.retire", s |-> t.s, h |-> t.h, new |-> r]
        /\ task' = [task EXCEPT ![w] = n]
  BY <1>1 DEF RaiseIssue, Go
<1>4. n.pc = "raise.retire" /\ n.s = t.s /\ n.h = t.h /\ n.new = r
  BY <1>3
<1>5. record' = record /\ carried' = carried /\ first' = first
  BY DEF RaiseIssue
<1>6. /\ first \cup carried \subseteq Secret \cap drawn
      /\ index'[r] = t.h /\ \A s \in Secret \ {r} : index'[s] = index[s]
  BY <1>3 DEF LifeInv, StateFine
<1>7. \A s \in Secret \cap drawn : index'[s] = index[s]
  BY <1>3, <1>6
<1>8. \A s \in first : ~Pends(task[w], index[s])
  <2>1. ~HasLogin(t)
    BY <1>2 DEF HasLogin, LoginPcs, ClosePcs
  <2>2. QED
    BY <1>1, <2>1 DEF Pends
<1>9. Cookies(w)
  <2>1. \A g \in Handle : RaisedIn(g)' => RaisedIn(g)
    BY <1>5 DEF RaisedIn
  <2>2. \A s \in first : index'[s] = index[s]
    BY <1>6, <1>7
  <2>3. QED
    BY <1>3, <1>5, <1>6, <1>7, <1>8, <2>1, <2>2 DEF Cookies
<1>10. CookieFine(n)'
  <2>1. n.s \in carried' /\ \A s \in first' : index'[s] = n.h => s = n.s
    BY <1>2, <1>4, <1>5, <1>6, <1>7 DEF CookieFine
  <2>2. n.new \in drawn' \ (carried' \cup first') /\ index'[n.new] = n.h
    BY <1>3, <1>4, <1>5, <1>6
  <2>3. QED
    BY <1>4, <2>1, <2>2 DEF CookieFine, HasLogin, LoginPcs, ClosePcs
<1>11. QED
  BY <1>3, <1>4, <1>9, <1>10, CookieStep

LEMMA RaiseRetireCookies ==
  ASSUME LifeInv, CookieInv, NEW w \in Worker, RaiseRetire(w)
  PROVE  CookieInv'
<1>1. PICK t, n : t = task[w] /\ n = [t EXCEPT !.pc = "raise.update"]
  OBVIOUS
<1>2. t.pc = "raise.retire" /\ t.pc \in UsePcs /\ t.pc \in RaisePcs /\ CookieFine(t)
  BY <1>1 DEF RaiseRetire, At, RaisePcs, UsePcs, CookieInv
<1>3. {"pc", "s", "h", "new"} \subseteq DOMAIN t /\ t.s \in Secret /\ t.h \in Handle /\ t.new \in Secret \cap drawn
  BY <1>1, <1>2, UseAt
<1>4. n.pc = "raise.update" /\ n.s = t.s /\ n.h = t.h /\ n.new = t.new
  BY <1>1, <1>3
<1>5. record' = record /\ carried' = carried /\ first' = first /\ drawn' = drawn
  BY DEF RaiseRetire
<1>6. index' = [index EXCEPT ![t.s] = NoHandle] /\ task' = [task EXCEPT ![w] = n]
  BY <1>1 DEF RaiseRetire, Go
<1>7. /\ first \cup carried \subseteq Secret \cap drawn
      /\ index'[t.s] = NoHandle /\ \A s \in Secret \ {t.s} : index'[s] = index[s]
  BY <1>3, <1>6 DEF LifeInv, StateFine
<1>8. t.s \in carried /\ t.new \notin carried \cup first /\ index[t.new] = t.h
  BY <1>2 DEF CookieFine
<1>9. \A x : ~Pends(task[w], x)
  BY <1>1, <1>2 DEF Pends, HasLogin, LoginPcs, ClosePcs
<1>10. Cookies(w)
  <2>1. \A g \in Handle : RaisedIn(g)' => RaisedIn(g)
    BY <1>5 DEF RaisedIn
  <2>2. \A s \in Secret : index'[s] \in {index[s], NoHandle}
    BY <1>7
  <2>3. \A s \in (Secret \cap drawn) \ carried : index'[s] = index[s]
    BY <1>7, <1>8
  <2>4. QED
    BY <1>5, <1>7, <1>9, <2>1, <2>2, <2>3 DEF Cookies
<1>11. CookieFine(n)'
  <2>1. \A s \in first' : index'[s] # n.h
    BY <1>2, <1>3, <1>4, <1>5, <1>7, LifecycleAssumption DEF CookieFine
  <2>2. n.s \in carried' /\ n.new \in drawn' \ (carried' \cup first') /\ index'[n.new] = n.h
    BY <1>3, <1>4, <1>5, <1>7, <1>8
  <2>3. QED
    BY <1>4, <2>1, <2>2 DEF CookieFine, Retired, HasLogin, LoginPcs, ClosePcs
<1>12. QED
  BY <1>1, <1>2, <1>4, <1>6, <1>10, <1>11, CookieStep

LEMMA RaiseUpdateCookies ==
  ASSUME LifeInv, CookieInv, NEW w \in Worker, RaiseUpdate(w)
  PROVE  CookieInv'
<1>1. PICK t, h, n : t = task[w] /\ h = t.h /\ n = Idle(Nothing)
  OBVIOUS
<1>2. t.pc = "raise.update" /\ t.pc \in UsePcs /\ t.pc \in RaisePcs
  BY <1>1 DEF RaiseUpdate, At, RaisePcs, UsePcs
<1>3. h \in Handle /\ t.new \in Secret \cap drawn
  BY <1>1, <1>2, UseAt
<1>4. index' = index /\ first' = first /\ drawn' = drawn /\ task' = [task EXCEPT ![w] = n]
  BY <1>1 DEF RaiseUpdate, Answer, Go
<1>5. carried' = carried \/ carried' = carried \cup {t.new}
  BY <1>1 DEF RaiseUpdate
<1>6. \A g \in Handle : RaisedIn(g)' => RaisedIn(g) \/ g = h
  BY <1>1, <1>3 DEF RaiseUpdate, RaisedIn, LifeInv, StateFine
<1>7. \A x : ~Pends(task[w], x)
  BY <1>1, <1>2 DEF Pends, HasLogin, LoginPcs, ClosePcs
<1>8. first \subseteq Secret /\ carried \subseteq Secret
  BY DEF LifeInv, StateFine
<1>9. Cookies(w)
  BY <1>1, <1>2, <1>3, <1>4, <1>5, <1>6, <1>7, <1>8 DEF Cookies
<1>10. n.pc = "idle" /\ n.told.said # "entered" /\ ~HasLogin(n)
  BY <1>1 DEF Idle, Nothing, HasLogin, LoginPcs, ClosePcs
<1>11. CookieFine(n)'
  BY <1>10 DEF CookieFine, HasLogin, LoginPcs, ClosePcs, UsePcs, LivePcs, RaisePcs
<1>12. QED
  BY <1>4, <1>9, <1>10, <1>11, CookieStep DEF RaisePcs

LEMMA CookieBeside ==
  ASSUME LifeInv, CookieInv, UNCHANGED cookieVars, task' = task, RaisesNone
  PROVE  CookieInv'
<1>1. index' = index /\ drawn' = drawn /\ carried' = carried /\ first' = first
  BY DEF cookieVars
<1>2. ASSUME NEW t, CookieFine(t), LifeFine(t) PROVE CookieFine(t)'
  <2>1. HasLogin(t) => LoginOf(t).handle \in Handle
    BY <1>2 DEF LifeFine, LoginFine
  <2>2. HasLogin(t) => ~RaisedIn(LoginOf(t).handle)'
    BY <1>2, <2>1 DEF CookieFine, RaisesNone, RaisedIn
  <2>3. QED
    BY <1>1, <1>2, <2>2 DEF CookieFine, Retired, RaisedIn, HasLogin, LoginOf
<1>3. \A v \in Worker : \A t : t = task[v] => CookieFine(t)'
  BY <1>2 DEF CookieInv, LifeInv
<1>4. (\A v \in Worker : CookieFine(task[v]))'
  BY <1>3 DEF CookieFine, Retired, HasLogin, LoginOf
<1>5. (\A h \in Handle : record[h].state \in Full /\ record[h].raised => Retired(h))'
  BY <1>1 DEF CookieInv, RaisesNone, RaisedIn, Retired
<1>6. (\A s \in carried \ first : index[s] # NoHandle => Retired(index[s]))'
  BY <1>1 DEF CookieInv, Retired
<1>7. QED
  BY <1>1, <1>4, <1>5, <1>6 DEF CookieInv

LEMMA CookieSteps == LifeInv /\ CookieInv /\ [Next]_vars => CookieInv'
<1> SUFFICES ASSUME LifeInv, CookieInv, [Next]_vars PROVE CookieInv'
  OBVIOUS
<1>1. CASE UNCHANGED vars
  BY <1>1, CookieBeside, SameRecordsRaiseNone DEF vars, sessionVars
<1>2. ASSUME NEW w \in Worker, Work(w) PROVE CookieInv'
  <2>1. CASE UseStep(w)
    BY <2>1, LiveReadCookies, LiveEndCookies, LiveCheckCookies, EnterIndexCookies, RaiseIssueCookies,
       RaiseRetireCookies, RaiseUpdateCookies DEF UseStep
  <2>2. CASE RevokeStep(w)
    <3>1. UNCHANGED cookieVars /\ record' = record
      BY <2>2 DEF RevokeStep, RevokeWrite, RevokeLate, RevokeList
    <3>2. QED
      BY <2>2, <3>1, OthersKeep, SameRecordsRaiseNone, CookieGoes
  <2>3. QED
    BY <1>2, <2>1, <2>2, CloseCookies, LoginCookies DEF Work
<1>3. ASSUME NEW w \in Worker, Start(w) \/ Vanish(w) PROVE CookieInv'
  <2>1. CASE StartClose(w) \/ StartSweep(w) \/ StartRevoke(w) \/ Vanish(w)
    <3>1. UNCHANGED cookieVars /\ record' = record
      BY <2>1 DEF StartClose, StartSweep, StartRevoke, Vanish
    <3>2. QED
      BY <2>1, <3>1, OthersKeep, SameRecordsRaiseNone, CookieGoes
  <2>2. QED
    BY <1>3, <2>1, StartLoginCookies, StartUseCookies DEF Start
<1>4. ASSUME NEW h \in Handle, LifetimePasses(h) \/ StoreDrops(h) \/ ListingEnds(h) PROVE CookieInv'
  <2>1. UNCHANGED cookieVars /\ task' = task
    BY <1>4 DEF LifetimePasses, StoreDrops, ListingEnds
  <2>2. CASE record' = record
    BY <2>1, <2>2, SameRecordsRaiseNone, CookieBeside
  <2>3. CASE StoreDrops(h)
    <3>1. PICK r : r = Gone
      OBVIOUS
    <3>2. record' = [record EXCEPT ![h] = r] /\ ~(r.state \in Full)
      BY <2>3, <3>1 DEF StoreDrops, Gone, Full
    <3>3. RaisesNone
      BY <3>2, OneRecordRaisesNone
    <3>4. QED
      BY <2>1, <3>3, CookieBeside
  <2>4. QED
    BY <1>4, <2>2, <2>3 DEF LifetimePasses, ListingEnds
<1>5. CASE UNCHANGED sessionVars
  BY <1>5, CookieBeside, SameRecordsRaiseNone DEF sessionVars
<1>6. QED
  BY <1>1, <1>2, <1>3, <1>4, <1>5 DEF Next

LEMMA CookieInits == Init => CookieInv
<1> SUFFICES ASSUME Init PROVE CookieInv
  OBVIOUS
<1>1. \A w \in Worker : task[w] = Idle(Nothing)
  BY AtFirst
<1>2. CookieFine(Idle(Nothing))
  BY DEF CookieFine, Idle, Nothing, HasLogin, LoginPcs, ClosePcs, UsePcs, LivePcs, RaisePcs
<1>3. \A w \in Worker : task[w].pc \notin RaisePcs
  BY <1>1 DEF Idle, RaisePcs
<1>4. \A h \in Handle : ~RaisedIn(h)
  BY AtFirst DEF RaisedIn, Opening, Gone, Full
<1>5. carried = first /\ \A r, s \in first : index[r] = index[s] => r = s
  BY AtFirst
<1>6. QED
  BY <1>1, <1>2, <1>3, <1>4, <1>5 DEF CookieInv, RaisedIn

LEMMA CookiesAlways == Spec => [](LifeInv /\ CookieInv)
<1>1. Init => LifeInv /\ CookieInv
  BY LifeInits, CookieInits
<1>2. LifeInv /\ CookieInv /\ [Next]_vars => (LifeInv /\ CookieInv)'
  BY LifeSteps, CookieSteps
<1>3. QED
  BY <1>1, <1>2, PTL DEF Spec

(* An entry answered by a session that was raised came by a cookie issued  *)
(* at the raise: however entries, raises and logins interleave, the cookie *)
(* of the login is retired before the record says raised.                  *)
THEOREM OldCookieAlwaysRetired == Spec => []OldCookieNeverRaised
<1>1. LifeInv /\ CookieInv => OldCookieNeverRaised
  BY DEF CookieInv, CookieFine, OldCookieNeverRaised, At
<1>2. QED
  BY <1>1, CookiesAlways, PTL
=============================================================================
