---------------------------- MODULE ListingProofs ----------------------------
(***************************************************************************)
(* That a revocation reaches the sessions it is to reach, on top of what   *)
(* SessionProofs shows of their lives: nothing opened before a boundary    *)
(* can be entered past it, no open session is out of every list that a     *)
(* close would find it by, and one that answers complete left none.        *)
(***************************************************************************)
EXTENDS SessionProofs

----------------------------------------------------------------------------
(* Boundaries.                                                             *)
Shut(h) == record[h].proven <= landed[Owner[h]] => Revoked(Owner[h], record[h].openedAt)

BoundaryFine ==
  \A s \in Subject :
    /\ landed[s] \in {None} \cup 0 .. now
    /\ DOMAIN boundary[s] = {"sessions", "delegations"}
    /\ boundary[s].sessions \in Int /\ landed[s] <= boundary[s].sessions

ShutFine(t) ==
  /\ HasLogin(t) /\ record[LoginOf(t).handle].state = "open" =>
       record[LoginOf(t).handle].proven = LoginOf(t).proven
  /\ Checked(t) /\ record[LoginOf(t).handle].state = "open" => Shut(LoginOf(t).handle)

ShutInv ==
  /\ DOMAIN landed = Subject /\ DOMAIN boundary = Subject /\ BoundaryFine
  /\ \A w \in Worker : ShutFine(task[w])
  /\ \A h \in Handle : Issued(h) /\ record[h].state = "open" => Shut(h)

----------------------------------------------------------------------------
(* The listing.                                                            *)
Entered(h) ==
  Issued(h) \/ \E w \in Worker : Pends(task[w], h) /\ Checked(task[w]) /\ task[w].pc # "login.list"

(* In the hands of the login that pushed it out: its subject is the same.  *)
Out(t, h) ==
  \/ t.pc = "login.keep" /\ h \in t.todo
  \/ t.pc = "login.putback" /\ h \in t.todo \cup t.ending
  \/ t.pc = "login.relist" /\ h \in t.todo \cup {t.member}

OwnFine(t) ==
  /\ t.pc = "login.keep" => \A h \in t.out : Owner[h] = Owner[t.login.handle]
  /\ \A h : Out(t, h) => Owner[h] = Owner[t.login.handle]

OwnInv ==
  /\ \A s \in Subject : \A h \in listed[s] : Owner[h] = s
  /\ \A w \in Worker : OwnFine(task[w])

CoverInv ==
  load.vanish \cap {"login.keep", "login.putback", "login.relist", "login.end"} = {} =>
    \A h \in Handle \ over :
      record[h].state = "open" /\ Entered(h) => h \in listed[Owner[h]] \cup closings \/ BeingPushedOut(h)

----------------------------------------------------------------------------
(* Revocations.                                                            *)
Roomy == IsFiniteSet(load.handles) /\ Cardinality(load.handles) <= load.cap
Released(h) == record[h].state # "open" \/ h \in closings \cup over

OwedFine(t) ==
  /\ t.pc = "revoke.list" =>
       \A h \in t.owed : Known(h) /\ Owner[h] = t.subject /\ (Released(h) \/ h \in listed[Owner[h]])
  /\ t.pc \in ClosePcs /\ t.for = "follow" =>
       \A h \in t.with : Known(h) /\ (t.failing \/ Released(h) \/ h \in {t.h} \cup t.rest)
  /\ t.pc = "idle" /\ t.told.said = "complete" => \A h \in t.told.owed : Known(h) /\ Released(h)

CompleteInv ==
  Roomy =>
    /\ \A w \in Worker : OwedFine(task[w]) /\ task[w].pc \notin {"login.keep", "login.putback", "login.relist"}
    /\ \A h \in Handle : Entered(h) => Released(h) \/ h \in listed[Owner[h]]

----------------------------------------------------------------------------
(* Boundaries: an opening a landed boundary shuts stays shut.              *)
SameOpening(h) ==
  record'[h].state = "open" =>
    /\ record[h].state = "open"
    /\ record'[h].openedAt = record[h].openedAt /\ record'[h].proven = record[h].proven

LEMMA BoundariesLast ==
  ASSUME LifeInv, ShutInv, now' \in 0 .. MaxNow, now <= now', UNCHANGED <<boundary, landed>>
  PROVE  /\ DOMAIN landed' = Subject /\ DOMAIN boundary' = Subject /\ BoundaryFine'
         /\ \A h \in Handle : SameOpening(h) /\ record'[h].state = "open" /\ Shut(h) => Shut(h)'
<1>1. now \in 0 .. MaxNow
  BY DEF LifeInv, StateFine
<1>2. \A s \in Subject : landed[s] \in {None} \cup 0 .. now => landed[s] \in {None} \cup 0 .. now'
  BY <1>1, RevocationAssumption
<1>3. BoundaryFine'
  BY <1>2 DEF ShutInv, BoundaryFine
<1>4. QED
  BY <1>3 DEF ShutInv, SameOpening, Shut, Revoked

LEMMA BoundaryShuts ==
  ASSUME LifeInv, ShutInv, NEW s \in Subject, NEW deadline \in Nat, NEW keep, BoundaryLands(s, deadline, keep)
  PROVE  /\ DOMAIN landed' = Subject /\ DOMAIN boundary' = Subject /\ BoundaryFine'
         /\ \A h \in Handle : SameOpening(h) /\ record'[h].state = "open" /\ Shut(h) => Shut(h)'
<1>1. now \in 0 .. MaxNow /\ now' = now /\ now <= deadline /\ MaxNow \in Nat
  BY RevocationAssumption DEF LifeInv, StateFine, BoundaryLands
<1>2. PICK b, d : b = Later(boundary[s].sessions, deadline)
                  /\ d = IF keep THEN boundary[s].delegations ELSE Later(boundary[s].delegations, deadline)
  OBVIOUS
<1>3. boundary[s].sessions \in Int
  BY DEF ShutInv, BoundaryFine
<1>4. b \in Int /\ deadline <= b
  BY <1>2, <1>3 DEF Later
<1>5. /\ boundary' = [boundary EXCEPT ![s] = [sessions |-> b, delegations |-> d]]
      /\ landed' = [landed EXCEPT ![s] = now]
  BY <1>2 DEF BoundaryLands, Recorded
<1>6. /\ DOMAIN landed' = Subject /\ DOMAIN boundary' = Subject
      /\ landed'[s] = now /\ boundary'[s].sessions = b /\ DOMAIN boundary'[s] = {"sessions", "delegations"}
      /\ \A r \in Subject \ {s} : landed'[r] = landed[r] /\ boundary'[r] = boundary[r]
  BY <1>5 DEF ShutInv
<1>7. BoundaryFine'
  <2>1. \A r \in Subject : /\ landed'[r] \in {None} \cup 0 .. now
                           /\ DOMAIN boundary'[r] = {"sessions", "delegations"}
                           /\ boundary'[r].sessions \in Int /\ landed'[r] <= boundary'[r].sessions
    BY <1>1, <1>4, <1>6 DEF ShutInv, BoundaryFine
  <2>2. QED
    BY <1>1, <2>1 DEF BoundaryFine
<1>8. ASSUME NEW h \in Handle, SameOpening(h), record'[h].state = "open", Shut(h) PROVE Shut(h)'
  <2>1. Owner[h] \in Subject
    BY LifecycleAssumption
  <2>2. CASE Owner[h] = s
    <3>1. record[h].openedAt \in 0 .. now /\ record'[h].openedAt = record[h].openedAt
      BY <1>8 DEF SameOpening, LifeInv, StateFine, RecordFine, Gone
    <3>2. b # None /\ ~(record'[h].openedAt > b)
      BY <1>1, <1>4, <3>1 DEF None
    <3>3. QED
      BY <1>6, <2>2, <3>2 DEF Shut, Revoked, Compared
  <2>3. CASE Owner[h] # s
    BY <1>6, <1>8, <2>1, <2>3 DEF SameOpening, Shut, Revoked
  <2>4. QED
    BY <2>2, <2>3
<1>9. QED
  BY <1>6, <1>7, <1>8

Boundaries ==
  /\ DOMAIN landed' = Subject /\ DOMAIN boundary' = Subject /\ BoundaryFine'
  /\ \A h \in Handle : SameOpening(h) /\ record'[h].state = "open" /\ Shut(h) => Shut(h)'

(* A step of w to n.                                                       *)
LEMMA ShutStep ==
  ASSUME LifeInv, ShutInv, NEW w \in Worker, NEW n, task' = [task EXCEPT ![w] = n], Boundaries,
         \A h \in Handle : SameOpening(h) \/ (Unsaved(task[w]) /\ Pends(task[w], h)),
         ShutFine(n)',
         \A h \in Handle : (\E s \in Secret : index'[s] = h) \/ (n.pc \in UsePcs /\ n.h = h) =>
            Issued(h) \/ (Pends(task[w], h) /\ Checked(task[w]))
  PROVE  ShutInv'
<1>1. DOMAIN task' = Worker /\ task'[w] = n /\ \A v \in Worker \ {w} : task'[v] = task[v]
  BY DEF LifeInv
<1>2. ASSUME NEW v \in Worker \ {w}, NEW t, t = task[v] PROVE ShutFine(t)'
  <2>1. ShutFine(t) /\ LifeFine(t)
    BY <1>2 DEF ShutInv, LifeInv
  <2>2. PICK h : h = LoginOf(t).handle
    OBVIOUS
  <2>3. HasLogin(t) => h \in Handle /\ Pends(t, h)
    BY <2>1, <2>2 DEF LifeFine, LoginFine, Pends
  <2>4. HasLogin(t) => h \in Handle /\ SameOpening(h)
    BY <1>2, <2>3, PendingDrawn
  <2>5. HasLogin(t) /\ record'[h].state = "open" => record'[h].proven = LoginOf(t).proven
    BY <2>1, <2>2, <2>4 DEF ShutFine, SameOpening
  <2>6. Checked(t) => HasLogin(t)
    BY DEF Checked, HasLogin, LoginPcs
  <2>7. Checked(t) /\ record'[h].state = "open" => Shut(h)'
    BY <2>1, <2>2, <2>4, <2>6 DEF ShutFine, SameOpening, Boundaries
  <2>8. QED
    BY <2>2, <2>5, <2>7 DEF ShutFine, HasLogin, LoginOf, Checked, Shut
<1>3. \A v \in Worker : \A t : t = task'[v] => ShutFine(t)'
  BY <1>1, <1>2
<1>4. (\A v \in Worker : ShutFine(task[v]))'
  BY <1>3 DEF ShutFine, HasLogin, LoginOf, Checked, Shut
<1>5. ASSUME NEW h \in Handle, Issued(h)', record'[h].state = "open" PROVE Shut(h)'
  <2>1. Issued(h) \/ (Pends(task[w], h) /\ Checked(task[w]))
    BY <1>1, <1>5 DEF Issued
  <2>2. SameOpening(h)
    <3>1. Pends(task[w], h) /\ Checked(task[w]) => ~Unsaved(task[w])
      BY DEF Checked, Unsaved, LoginPcs, ClosePcs
    <3>2. QED
      BY <2>1, <3>1, PendingDrawn
  <2>3. Shut(h)
    BY <1>5, <2>1, <2>2 DEF ShutInv, ShutFine, Pends, SameOpening
  <2>4. QED
    BY <1>5, <2>2, <2>3 DEF Boundaries
<1>6. QED
  BY <1>4, <1>5 DEF ShutInv, Boundaries

(* A step of w that opens no record and issues nothing.                    *)
SameOpenings == \A h \in Handle : SameOpening(h)

LEMMA ShutGoes ==
  ASSUME LifeInv, ShutInv, NEW w \in Worker, NEW n, task' = [task EXCEPT ![w] = n], Boundaries, SameOpenings,
         HasLogin(n) => HasLogin(task[w]) /\ LoginOf(n) = LoginOf(task[w]),
         Checked(n) => Checked(task[w]),
         \A h \in Handle : (\E s \in Secret : index'[s] = h) \/ (n.pc \in UsePcs /\ n.h = h) => Issued(h)
  PROVE  ShutInv'
<1>1. PICK t, h : t = task[w] /\ h = LoginOf(t).handle
  OBVIOUS
<1>2. LifeFine(t) /\ ShutFine(t)
  BY <1>1 DEF LifeInv, ShutInv
<1>3. HasLogin(n) => h \in Handle /\ SameOpening(h)
  BY <1>1, <1>2 DEF LifeFine, LoginFine, SameOpenings
<1>4. HasLogin(n) /\ record'[h].state = "open" => record'[h].proven = LoginOf(n).proven
  BY <1>1, <1>2, <1>3 DEF ShutFine, SameOpening
<1>5. Checked(n) => HasLogin(n)
  BY DEF Checked, HasLogin, LoginPcs
<1>6. Checked(n) /\ record'[h].state = "open" => Shut(h)'
  BY <1>1, <1>2, <1>3, <1>5 DEF ShutFine, SameOpening, Boundaries
<1>7. ShutFine(n)'
  <2>1. HasLogin(n) => LoginOf(n).handle = h
    BY <1>1
  <2>2. QED
    BY <1>4, <1>5, <1>6, <2>1 DEF ShutFine, HasLogin, LoginOf, Checked, Shut
<1>8. QED
  BY <1>7, ShutStep DEF SameOpenings

LEMMA ShutKept ==
  ASSUME LifeInv, ShutInv, NEW w \in Worker, GoesKept(w), Boundaries, SameOpenings, index' = index
  PROVE  ShutInv'
<1>1. PICK n : task' = [task EXCEPT ![w] = n] /\ Keeps(task[w], n)
  BY DEF GoesKept
<1>2. Checked(n) => Checked(task[w])
  <2>1. Checked(n) => HasLogin(n)
    BY DEF Checked, HasLogin, LoginPcs
  <2>2. HasLogin(n) => Pends(n, LoginOf(n).handle)
    BY DEF Pends
  <2>3. QED
    BY <1>1, <2>1, <2>2 DEF Keeps
<1>3. \A h \in Handle : (\E s \in Secret : index'[s] = h) => Issued(h)
  BY DEF Issued
<1>4. QED
  BY <1>1, <1>2, <1>3, ShutGoes DEF Keeps

(* Most steps leave the boundaries.                                        *)
LEMMA BoundariesStay ==
  ASSUME LifeInv, ShutInv, UNCHANGED revocationVars
  PROVE  Boundaries
<1>1. now' = now /\ boundary' = boundary /\ landed' = landed
  BY DEF revocationVars
<1>2. now \in 0 .. MaxNow
  BY DEF LifeInv, StateFine
<1>3. now' \in 0 .. MaxNow /\ now <= now'
  BY <1>1, <1>2, RevocationAssumption
<1>4. QED
  BY <1>1, <1>3, BoundariesLast DEF Boundaries

LEMMA SameRecordsSameOpenings == record' = record => SameOpenings
BY DEF SameOpenings, SameOpening

LEMMA OneRecordSameOpenings ==
  ASSUME LifeInv, NEW h \in Handle, NEW r, record' = [record EXCEPT ![h] = r],
         r.state = "open" => record[h].state = "open" /\ r.openedAt = record[h].openedAt /\ r.proven = record[h].proven
  PROVE  SameOpenings
<1>1. record'[h] = r /\ \A g \in Handle \ {h} : record'[g] = record[g]
  BY DEF LifeInv, StateFine
<1>2. QED
  BY <1>1 DEF SameOpenings, SameOpening

LEMMA EndOpenSameOpenings ==
  ASSUME LifeInv, NEW h \in Handle, EndOpen(h)
  PROVE  SameOpenings
<1>1. RecordFine(record[h])
  BY DEF LifeInv, StateFine
<1>2. CASE record[h].state = "open"
  <2>1. PICK r : r = [record[h] EXCEPT !.state = "closed"]
    OBVIOUS
  <2>2. record' = [record EXCEPT ![h] = r] /\ r.state # "open"
    BY <1>1, <1>2, <2>1 DEF EndOpen, RecordFine, Gone
  <2>3. QED
    BY <2>2, OneRecordSameOpenings
<1>3. QED
  BY <1>2, SameRecordsSameOpenings DEF EndOpen

LEMMA CloseShut ==
  ASSUME LifeInv, ShutInv, NEW w \in Worker, CloseStep(w)
  PROVE  ShutInv'
<1>1. PICK t, h : t = task[w] /\ h = t.h
  OBVIOUS
<1>2. GoesKept(w) /\ t.pc \in ClosePcs
  BY <1>1, CloseKeeps
<1>3. h \in Handle /\ RecordFine(record[h])
  BY <1>1, <1>2, CloseAt DEF LifeInv, StateFine
<1>4. UNCHANGED revocationVars /\ index' = index
  BY DEF CloseStep, CloseThrows, CloseAdd, CloseAdvance, CloseMark, CloseRemark, Mark, ParticipantFinishes,
     ParticipantFails, PutOff, CloseFinish, CloseUnlist, CloseDone, cookieVars
<1>5. SameOpenings
  <2>1. CASE record' = record
    BY <2>1, SameRecordsSameOpenings
  <2>2. ASSUME NEW r, record' = [record EXCEPT ![h] = r],
               \/ record[h].state \in Full /\ \E state \in {"closing", "closed"} : r = [record[h] EXCEPT !.state = state]
               \/ r = [state |-> "mark"]
        PROVE  SameOpenings
    <3>1. r.state # "open"
      BY <1>3, <2>2 DEF RecordFine, Gone, Full
    <3>2. QED
      BY <1>3, <2>2, <3>1, OneRecordSameOpenings
  <2>3. CASE CloseAdvance(w)
    <3>1. CASE record[h].state \in {"open", "closing"}
      <4>1. record' = [record EXCEPT ![h] = [record[h] EXCEPT !.state = "closing"]]
        BY <1>1, <2>3, <3>1 DEF CloseAdvance
      <4>2. QED
        BY <2>2, <3>1, <4>1 DEF Full
    <3>2. CASE record[h].state \in {"gone", "closed", "mark"}
      BY <1>1, <2>1, <2>3, <3>2 DEF CloseAdvance
    <3>3. QED
      BY <1>3, <3>1, <3>2 DEF RecordFine, Gone, Full
  <2>4. CASE CloseMark(w) \/ CloseRemark(w)
    BY <1>1, <2>1, <2>2, <2>4 DEF CloseMark, CloseRemark, Mark
  <2>5. CASE CloseFinish(w)
    <3>1. CASE record[h].state = "gone"
      BY <1>1, <2>1, <2>5, <3>1 DEF CloseFinish
    <3>2. CASE record[h].state \in Full
      <4>1. PICK r : r = [record[h] EXCEPT !.state = "closed"]
        OBVIOUS
      <4>2. record' = [record EXCEPT ![h] = r]
        BY <1>1, <1>3, <2>5, <3>2, <4>1 DEF CloseFinish, Full, LifeInv, StateFine
      <4>3. QED
        BY <2>2, <3>2, <4>1, <4>2
    <3>3. CASE record[h].state = "mark"
      <4>1. PICK r : r = [state |-> "mark"]
        OBVIOUS
      <4>2. record[h] = r
        BY <1>3, <3>3, <4>1 DEF RecordFine, Gone, Full
      <4>3. [record[h] EXCEPT !.state = record[h].state] = r
        BY <4>1, <4>2
      <4>4. record' = [record EXCEPT ![h] = r]
        BY <1>1, <1>3, <2>5, <3>3, <4>3 DEF CloseFinish, LifeInv, StateFine
      <4>5. QED
        BY <2>2, <4>1, <4>4
    <3>4. QED
      BY <1>3, <3>1, <3>2, <3>3 DEF RecordFine, Gone, Full
  <2>6. QED
    BY <2>1, <2>3, <2>4, <2>5 DEF CloseStep, CloseThrows, CloseAdd, ParticipantFinishes, ParticipantFails, PutOff,
       CloseUnlist, CloseDone
<1>6. QED
  BY <1>2, <1>4, <1>5, BoundariesStay, ShutKept

(* The login's own check: a boundary that landed is at or after the time   *)
(* it landed, so one at or after the proof revokes the proof.              *)
LEMMA LoginCheckShut ==
  ASSUME LifeInv, ShutInv, NEW w \in Worker, LoginCheck(w)
  PROVE  ShutInv'
<1>1. PICK t, h : t = task[w] /\ h = t.login.handle
  OBVIOUS
<1>2. t.pc = "login.check" /\ t.pc \in LoginPcs
  BY <1>1 DEF LoginCheck, At, LoginPcs
<1>3. LifeFine(t) /\ HasLogin(t) /\ LoginOf(t) = t.login /\ h \in Handle /\ t.login.proven \in 0 .. now
  BY <1>1, <1>2, LoginAt
<1>4. UNCHANGED revocationVars /\ record' = record /\ index' = index
  BY DEF LoginCheck, cookieVars
<1>5. Boundaries /\ SameOpenings
  BY <1>4, BoundariesStay, SameRecordsSameOpenings
<1>6. \A g \in Handle : (\E s \in Secret : index'[s] = g) => Issued(g)
  BY <1>4 DEF Issued
<1>7. CASE Revoked(Owner[h], t.login.proven)
  <2>1. PICK n, failing : n = Closing("revoked", h, {}, failing, t.login) /\ task' = [task EXCEPT ![w] = n]
    BY <1>1, <1>7 DEF LoginCheck, Go
  <2>2. n.pc = "close.add" /\ n.for = "revoked"
    BY <2>1 DEF Closing
  <2>3. ~HasLogin(n) /\ ~Checked(n) /\ n.pc \notin UsePcs
    BY <2>2 DEF HasLogin, Checked, LoginPcs, ClosePcs, UsePcs, LivePcs, RaisePcs
  <2>4. QED
    BY <1>5, <1>6, <2>1, <2>3, ShutGoes
<1>8. CASE ~Revoked(Owner[h], t.login.proven)
  <2>1. PICK n : n = [pc |-> "login.list", login |-> t.login] /\ task' = [task EXCEPT ![w] = n]
    BY <1>1, <1>8 DEF LoginCheck, Go
  <2>2. n.pc = "login.list" /\ n.login = t.login
    BY <2>1
  <2>3. HasLogin(n) /\ LoginOf(n) = t.login /\ n.pc \notin UsePcs
    BY <2>2 DEF HasLogin, LoginOf, LoginPcs, UsePcs, LivePcs, RaisePcs
  <2>4. record[h].state = "open" => record[h].proven = t.login.proven
    BY <1>1, <1>3 DEF ShutInv, ShutFine
  <2>5. record[h].state = "open" => Shut(h)
    <3>1. Owner[h] \in Subject
      BY <1>3, LifecycleAssumption
    <3>2. /\ boundary[Owner[h]].sessions \in Int /\ landed[Owner[h]] <= boundary[Owner[h]].sessions
          /\ landed[Owner[h]] \in {None} \cup 0 .. now
      BY <3>1 DEF ShutInv, BoundaryFine
    <3>3. now \in Int /\ t.login.proven \in Int /\ 0 <= t.login.proven
      BY <1>3, RevocationAssumption DEF LifeInv, StateFine
    <3>4. boundary[Owner[h]].sessions = None \/ t.login.proven > boundary[Owner[h]].sessions
      BY <1>8 DEF Revoked, Compared
    <3>5. ~(t.login.proven <= landed[Owner[h]])
      BY <3>2, <3>3, <3>4 DEF None
    <3>6. QED
      BY <2>4, <3>5 DEF Shut
  <2>6. ShutFine(n)'
    <3>1. record'[h].state = "open" => Shut(h)' /\ record'[h].proven = t.login.proven
      BY <1>3, <1>4, <1>5, <2>4, <2>5 DEF Boundaries, SameOpenings
    <3>2. LoginOf(n).handle = h
      BY <1>1, <2>3
    <3>3. QED
      BY <2>3, <3>1, <3>2 DEF ShutFine, HasLogin, LoginOf, Checked, Shut
  <2>7. QED
    BY <1>5, <1>6, <2>1, <2>3, <2>6, ShutStep DEF SameOpenings
<1>9. QED
  BY <1>7, <1>8

LEMMA LoginListShut ==
  ASSUME LifeInv, ShutInv, NEW w \in Worker, LoginList(w)
  PROVE  ShutInv'
<1>1. task[w].pc = "login.list"
  BY DEF LoginList, At
<1>2. UNCHANGED revocationVars /\ record' = record /\ index' = index
  BY DEF LoginList, cookieVars
<1>3. PICK n : /\ task' = [task EXCEPT ![w] = n]
               /\ n.pc \notin UsePcs
               /\ HasLogin(n) => HasLogin(task[w]) /\ LoginOf(n) = LoginOf(task[w])
  BY ListingGoes
<1>4. Checked(task[w])
  BY <1>1 DEF Checked
<1>5. \A g \in Handle : (\E s \in Secret : index'[s] = g) => Issued(g)
  BY <1>2 DEF Issued
<1>6. QED
  BY <1>2, <1>3, <1>4, <1>5, BoundariesStay, SameRecordsSameOpenings, ShutGoes

LEMMA LoginSaveShut ==
  ASSUME LifeInv, ShutInv, NEW w \in Worker, LoginSave(w)
  PROVE  ShutInv'
<1>1. PICK t, h, r, n : /\ t = task[w] /\ h = t.login.handle /\ r = Opening(t.openedAt, t.login.proven)
                        /\ n = [pc |-> "login.check", login |-> t.login]
  OBVIOUS
<1>2. t.pc = "login.save" /\ t.pc \in LoginPcs
  BY <1>1 DEF LoginSave, At, LoginPcs
<1>3. HasLogin(t) /\ LoginOf(t) = t.login /\ h \in Handle /\ Pends(t, h) /\ Unsaved(t)
  BY <1>1, <1>2, LoginAt
<1>4. /\ task' = [task EXCEPT ![w] = n] /\ record' = [record EXCEPT ![h] = r]
      /\ UNCHANGED revocationVars /\ index' = index
  BY <1>1 DEF LoginSave, Go, cookieVars
<1>5. record'[h] = r /\ \A g \in Handle \ {h} : record'[g] = record[g]
  BY <1>3, <1>4 DEF LifeInv, StateFine
<1>6. \A g \in Handle : SameOpening(g) \/ (Unsaved(task[w]) /\ Pends(task[w], g))
  BY <1>1, <1>3, <1>5 DEF SameOpening
<1>7. n.pc = "login.check" /\ n.login = t.login
  BY <1>1
<1>8. HasLogin(n) /\ LoginOf(n) = t.login /\ n.pc \notin UsePcs /\ ~Checked(n)
  BY <1>7 DEF HasLogin, LoginOf, Checked, LoginPcs, ClosePcs, UsePcs, LivePcs, RaisePcs
<1>9. ShutFine(n)'
  <2>1. record'[h].proven = t.login.proven
    BY <1>1, <1>5 DEF Opening
  <2>2. LoginOf(n).handle = h
    BY <1>1, <1>8
  <2>3. QED
    BY <1>8, <2>1, <2>2 DEF ShutFine, HasLogin, LoginOf, Checked
<1>10. \A g \in Handle : (\E s \in Secret : index'[s] = g) => Issued(g)
  BY <1>4 DEF Issued
<1>11. QED
  BY <1>4, <1>6, <1>8, <1>9, <1>10, BoundariesStay, ShutStep

LEMMA LoginIssueShut ==
  ASSUME LifeInv, ShutInv, NEW w \in Worker, LoginIssue(w)
  PROVE  ShutInv'
<1>1. PICK t, h : t = task[w] /\ h = t.login.handle
  OBVIOUS
<1>2. t.pc = "login.issue" /\ t.pc \in LoginPcs
  BY <1>1 DEF LoginIssue, At, LoginPcs
<1>3. h \in Handle /\ Pends(t, h) /\ Checked(t)
  BY <1>1, <1>2, LoginAt DEF Checked
<1>4. PICK s, n : /\ s \in Secret \ drawn /\ n = [pc |-> "login.answer", s |-> s]
                  /\ index' = [index EXCEPT ![s] = h]
                  /\ task' = [task EXCEPT ![w] = n]
  BY <1>1 DEF LoginIssue, Go
<1>5. \A r \in Secret : index'[r] \in {index[r], h}
  BY <1>4 DEF LifeInv, StateFine
<1>6. record' = record /\ task' = [task EXCEPT ![w] = n] /\ UNCHANGED revocationVars
  BY <1>4 DEF LoginIssue
<1>7. n.pc = "login.answer" /\ ~HasLogin(n) /\ ~Checked(n) /\ n.pc \notin UsePcs
  BY <1>4 DEF HasLogin, Checked, LoginPcs, ClosePcs, UsePcs, LivePcs, RaisePcs
<1>8. ShutFine(n)'
  BY <1>7 DEF ShutFine, HasLogin, Checked
<1>9. \A g \in Handle : (\E r \in Secret : index'[r] = g) => Issued(g) \/ (Pends(task[w], g) /\ Checked(task[w]))
  BY <1>1, <1>3, <1>5 DEF Issued
<1>10. QED
  BY <1>6, <1>7, <1>8, <1>9, BoundariesStay, SameRecordsSameOpenings, ShutStep DEF SameOpenings

LEMMA LoginShut ==
  ASSUME LifeInv, ShutInv, NEW w \in Worker, LoginStep(w)
  PROVE  ShutInv'
<1>1. PICK t : t = task[w]
  OBVIOUS
<1>2. CASE \/ LoginStamp(w) \/ LoginKeep(w) \/ LoginTakeBack(w) \/ LoginReadLeft(w) \/ LoginRelist(w)
           \/ LoginRefused(w) \/ LoginAnswer(w)
  <2>1. UNCHANGED revocationVars /\ record' = record /\ index' = index
    BY <1>2 DEF LoginStamp, LoginKeep, LoginTakeBack, LoginReadLeft, LoginRelist, LoginRefused, LoginAnswer, cookieVars
  <2>2. QED
    BY <1>2, <2>1, LoginKeeps, BoundariesStay, SameRecordsSameOpenings, ShutKept
<1>3. CASE LoginEnd(w)
  <2>1. t.pc = "login.putback" /\ t.pc \in LoginPcs
    BY <1>1, <1>3 DEF LoginEnd, At, LoginPcs
  <2>2. t.ending \subseteq Knowns
    BY <1>1, <2>1, LoginAt, KeepAt
  <2>3. PICK h \in t.ending : EndOpen(h) \/ record' = record
    BY <1>1, <1>3 DEF LoginEnd
  <2>4. h \in Handle /\ UNCHANGED revocationVars /\ index' = index
    BY <1>3, <2>2, <2>3 DEF LoginEnd, Knowns, cookieVars
  <2>5. SameOpenings
    BY <2>3, <2>4, EndOpenSameOpenings, SameRecordsSameOpenings
  <2>6. QED
    BY <1>3, <2>4, <2>5, LoginKeeps, BoundariesStay, ShutKept
<1>4. QED
  BY <1>2, <1>3, LoginCheckShut, LoginListShut, LoginSaveShut, LoginIssueShut DEF LoginStep

LEMMA StartLoginShut ==
  ASSUME LifeInv, ShutInv, NEW w \in Worker, StartLogin(w)
  PROVE  ShutInv'
<1>1. PICK h, login :
        /\ h \in load.handles \ drawn
        /\ login = [handle |-> h, proven |-> now]
        /\ \/ Go(w, [pc |-> "login.stamp", login |-> login])
           \/ \E s \in carried :
                /\ index[s] # NoHandle
                /\ Go(w, Closing("earlier", index[s], {}, FALSE, login))
  BY DEF StartLogin
<1>2. record' = record /\ index' = index /\ UNCHANGED revocationVars
  BY DEF StartLogin
<1>3. h \in Handle /\ ~Known(h)
  BY <1>1, LifecycleAssumption DEF LifeInv, StateFine, Knowns, Known
<1>4. PICK n :
        /\ task' = [task EXCEPT ![w] = n]
        /\ \/ n = [pc |-> "login.stamp", login |-> login]
           \/ \E s \in carried : \E failing : n = Closing("earlier", index[s], {}, failing, login)
  BY <1>1 DEF Go
<1>5. \/ n.pc = "login.stamp" /\ n.login = login
      \/ n.pc = "close.add" /\ n.for = "earlier" /\ n.with = login
  BY <1>4 DEF Closing
<1>6. n.pc \notin UsePcs /\ ~Checked(n) /\ LoginOf(n).handle = h
  BY <1>1, <1>5 DEF LoginOf, Checked, LoginPcs, ClosePcs, UsePcs, LivePcs, RaisePcs
<1>7. record'[h].state # "open"
  BY <1>2, <1>3 DEF Known
<1>8. ShutFine(n)'
  BY <1>6, <1>7 DEF ShutFine, HasLogin, LoginOf, Checked
<1>9. \A g \in Handle : (\E s \in Secret : index'[s] = g) => Issued(g)
  BY <1>2 DEF Issued
<1>10. QED
  BY <1>2, <1>4, <1>6, <1>8, <1>9, BoundariesStay, SameRecordsSameOpenings, ShutStep DEF SameOpenings

(* A use goes on with a session that was issued.                           *)
LEMMA UseShutGoes ==
  ASSUME LifeInv, ShutInv, NEW w \in Worker, NEW n, task' = [task EXCEPT ![w] = n], Boundaries, SameOpenings,
         n.pc \in {"idle"} \cup UsePcs, n.pc \in UsePcs => Issued(n.h),
         \A s \in Secret : index'[s] \in Handle => index'[s] = index[s] \/ Issued(index'[s])
  PROVE  ShutInv'
<1>1. ~HasLogin(n) /\ ~Checked(n)
  BY DEF HasLogin, Checked, LoginPcs, ClosePcs, UsePcs, LivePcs, RaisePcs
<1>2. \A h \in Handle : (\E s \in Secret : index'[s] = h) \/ (n.pc \in UsePcs /\ n.h = h) => Issued(h)
  BY DEF Issued
<1>3. QED
  BY <1>1, <1>2, ShutGoes

(* A use goes on with its session, and issues a secret only for it.        *)
Turned(t, n) ==
  /\ n.pc \in {"idle"} \cup UsePcs
  /\ n.pc \in UsePcs => n.h = t.h
  /\ n.pc = "idle" => n.told.said # "complete"

Turns(w) == \E n : task' = [task EXCEPT ![w] = n] /\ Turned(task[w], n)

LEMMA UseTurns ==
  ASSUME LifeInv, NEW w \in Worker, UseStep(w)
  PROVE  /\ \A s \in Secret : index'[s] \in Handle => index'[s] = index[s] \/ Issued(index'[s])
         /\ Turns(w) /\ task[w].pc \in UsePcs /\ Issued(task[w].h)
<1>1. PICK t : t = task[w]
  OBVIOUS
<1>2. t.pc \in UsePcs
  BY <1>1 DEF UseStep, LiveRead, LiveEnd, LiveCheck, EnterIndex, RaiseIssue, RaiseRetire, RaiseUpdate, At, LivePcs,
     RaisePcs, UsePcs
<1>3. LifeFine(t) /\ t.h \in Handle /\ Issued(t.h) /\ RecordFine(record[t.h]) /\ t.s \in Secret
  BY <1>1, <1>2, UseAt DEF LifeInv, StateFine
<1>4. \A s \in Secret : index'[s] \in Handle => index'[s] = index[s] \/ Issued(index'[s])
  <2>1. CASE index' = index
    BY <2>1
  <2>2. CASE RaiseIssue(w)
    <3>1. PICK r \in Secret : index' = [index EXCEPT ![r] = t.h]
      BY <1>1, <2>2 DEF RaiseIssue
    <3>2. QED
      BY <1>3, <3>1 DEF LifeInv, StateFine
  <2>3. CASE RaiseRetire(w)
    <3>1. index' = [index EXCEPT ![t.s] = NoHandle]
      BY <1>1, <2>3 DEF RaiseRetire
    <3>2. QED
      BY <1>3, <3>1, LifecycleAssumption DEF LifeInv, StateFine
  <2>4. QED
    BY <2>1, <2>2, <2>3 DEF UseStep, LiveRead, LiveEnd, LiveCheck, EnterIndex, RaiseUpdate, cookieVars
<1>5. Turns(w)
  <2>1. ASSUME NEW n, task' = [task EXCEPT ![w] = n], n.pc \in UsePcs, n.h = t.h
        PROVE  Turns(w)
    BY <1>1, <2>1 DEF Turns, Turned, UsePcs, LivePcs, RaisePcs
  <2>2. ASSUME NEW answer, Answer(w, answer), answer.said # "complete"
        PROVE  Turns(w)
    <3>1. PICK n : n = Idle(answer)
      OBVIOUS
    <3>2. n.pc = "idle" /\ n.told = answer /\ task' = [task EXCEPT ![w] = n]
      BY <2>2, <3>1 DEF Answer, Go, Idle
    <3>3. QED
      BY <2>2, <3>2 DEF Turns, Turned, UsePcs, LivePcs, RaisePcs
  <2>0. Nothing.said # "complete"
    BY DEF Nothing
  <2>3. ASSUME NEW n, NEW pc \in UsePcs, NEW found, NEW again,
               \/ n = [t EXCEPT !.pc = pc]
               \/ n = [t EXCEPT !.pc = pc, !.found = found]
               \/ n = [t EXCEPT !.pc = pc, !.again = again]
        PROVE  n.pc \in UsePcs /\ n.h = t.h
    BY <1>1, <1>2, <1>3, <2>3, UseAt
  <2>4. CASE LiveEnd(w) \/ EnterIndex(w) \/ RaiseUpdate(w)
    <3>1. PICK answer : /\ answer = Nothing \/ answer = [said |-> "entered", s |-> t.s, raised |-> t.found.raised]
                        /\ Answer(w, answer)
      BY <1>1, <2>4 DEF LiveEnd, EnterIndex, RaiseUpdate, Absentee
    <3>2. QED
      BY <2>0, <2>2, <3>1
  <2>5. CASE LiveRead(w)
    <3>1. PICK pc, found, n : \/ Answer(w, Nothing)
                              \/ /\ task' = [task EXCEPT ![w] = n] /\ pc \in UsePcs
                                 /\ n = [t EXCEPT !.pc = pc] \/ n = [t EXCEPT !.pc = pc, !.found = found]
      BY <1>1, <2>5 DEF LiveRead, Absentee, Go, UsePcs, LivePcs
    <3>2. QED
      BY <2>0, <2>1, <2>2, <2>3, <3>1
  <2>6. CASE LiveCheck(w)
    <3>1. t.for \in {"raise", "enter"}
      BY <1>1, <1>2, <2>6, UseAt DEF LiveCheck, At, LivePcs
    <3>2. CASE Answer(w, Nothing)
      BY <2>0, <2>2, <3>2
    <3>3. ASSUME NEW n, NEW pc, NEW again, task' = [task EXCEPT ![w] = n], pc \in UsePcs,
                 n = [t EXCEPT !.pc = pc] \/ n = [t EXCEPT !.pc = pc, !.again = again]
          PROVE  Turns(w)
      BY <2>1, <2>3, <3>3
    <3>4. {"raise.issue", "enter.index", "live.read"} \subseteq UsePcs
      BY DEF UsePcs, LivePcs
    <3>5. CASE Revoked(Owner[t.h], t.found.openedAt)
      BY <1>1, <2>6, <3>2, <3>5 DEF LiveCheck, Absentee
    <3>6. CASE ~Revoked(Owner[t.h], t.found.openedAt) /\ t.for = "raise"
      <4>1. task' = [task EXCEPT ![w] = [t EXCEPT !.pc = "raise.issue"]]
        BY <1>1, <2>6, <3>6 DEF LiveCheck, Go
      <4>2. QED
        BY <3>3, <3>4, <4>1
    <3>7. CASE ~Revoked(Owner[t.h], t.found.openedAt) /\ t.for = "enter"
      <4>1. \/ Answer(w, Nothing)
            \/ task' = [task EXCEPT ![w] = [t EXCEPT !.pc = "enter.index"]]
            \/ task' = [task EXCEPT ![w] = [t EXCEPT !.pc = "live.read", !.again = TRUE]]
        BY <1>1, <2>6, <3>7 DEF LiveCheck, Go
      <4>2. PICK again : again = TRUE
        OBVIOUS
      <4>3. QED
        BY <3>2, <3>3, <3>4, <4>1, <4>2
    <3>8. QED
      BY <3>1, <3>5, <3>6, <3>7
  <2>7. CASE RaiseIssue(w)
    <3>1. PICK r, n : /\ n = [pc |-> "raise.retire", s |-> t.s, h |-> t.h, new |-> r]
                      /\ task' = [task EXCEPT ![w] = n]
      BY <1>1, <2>7 DEF RaiseIssue, Go
    <3>2. n.pc \in UsePcs /\ n.h = t.h
      BY <3>1 DEF UsePcs, RaisePcs
    <3>3. QED
      BY <2>1, <3>1, <3>2
  <2>8. CASE RaiseRetire(w)
    <3>1. PICK n : n = [t EXCEPT !.pc = "raise.update"] /\ task' = [task EXCEPT ![w] = n]
      BY <1>1, <2>8 DEF RaiseRetire, Go
    <3>2. "raise.update" \in UsePcs
      BY DEF UsePcs, RaisePcs
    <3>3. QED
      BY <2>1, <2>3, <3>1, <3>2
  <2>9. QED
    BY <2>4, <2>5, <2>6, <2>7, <2>8 DEF UseStep
<1>6. QED
  BY <1>1, <1>2, <1>3, <1>4, <1>5

LEMMA UseShut ==
  ASSUME LifeInv, ShutInv, NEW w \in Worker, UseStep(w)
  PROVE  ShutInv'
<1>1. PICK t : t = task[w]
  OBVIOUS
<1>2. t.pc \in UsePcs
  BY <1>1 DEF UseStep, LiveRead, LiveEnd, LiveCheck, EnterIndex, RaiseIssue, RaiseRetire, RaiseUpdate, At, LivePcs,
     RaisePcs, UsePcs
<1>3. LifeFine(t) /\ t.h \in Handle /\ Issued(t.h) /\ RecordFine(record[t.h]) /\ t.s \in Secret
  BY <1>1, <1>2, UseAt DEF LifeInv, StateFine
<1>4. UNCHANGED revocationVars
  BY DEF UseStep, LiveRead, LiveEnd, LiveCheck, EnterIndex, RaiseIssue, RaiseRetire, RaiseUpdate
<1>5. Boundaries
  BY <1>4, BoundariesStay
<1>6. SameOpenings
  <2>1. CASE record' = record
    BY <2>1, SameRecordsSameOpenings
  <2>2. CASE EndOpen(t.h)
    BY <1>3, <2>2, EndOpenSameOpenings
  <2>3. CASE record[t.h].state = "open" /\ record' = [record EXCEPT ![t.h].raised = TRUE]
    <3>1. PICK r : r = [record[t.h] EXCEPT !.raised = TRUE]
      OBVIOUS
    <3>2. /\ record' = [record EXCEPT ![t.h] = r]
          /\ r.openedAt = record[t.h].openedAt /\ r.proven = record[t.h].proven
      BY <1>3, <2>3, <3>1 DEF RecordFine, Gone
    <3>3. QED
      BY <1>3, <2>3, <3>2, OneRecordSameOpenings
  <2>4. QED
    BY <1>1, <2>1, <2>2, <2>3 DEF UseStep, LiveRead, LiveEnd, LiveCheck, EnterIndex, RaiseIssue, RaiseRetire, RaiseUpdate
<1>7. QED
  <2>1. PICK n : task' = [task EXCEPT ![w] = n] /\ Turned(task[w], n)
    BY UseTurns DEF Turns
  <2>2. QED
    BY <1>5, <1>6, <2>1, UseTurns, UseShutGoes DEF Turned

LEMMA StartUseShut ==
  ASSUME LifeInv, ShutInv, NEW w \in Worker, NEW use, StartUse(w, use)
  PROVE  ShutInv'
<1>1. UNCHANGED revocationVars /\ record' = record /\ index' = index
  BY DEF StartUse, cookieVars
<1>2. Boundaries /\ SameOpenings
  BY <1>1, BoundariesStay, SameRecordsSameOpenings
<1>3. PICK s, n :
     /\ s \in carried
     /\ task' = [task EXCEPT ![w] = n]
     /\ \/ n = Idle(Nothing)
        \/ /\ index[s] # NoHandle
           /\ n = [pc |-> "live.read", for |-> use, s |-> s, h |-> index[s], found |-> Gone, again |-> FALSE]
  BY DEF StartUse, Answer, Go
<1>4. CASE n = Idle(Nothing)
  <2>1. n.pc = "idle" /\ n.pc \notin UsePcs
    BY <1>4 DEF Idle, UsePcs, LivePcs, RaisePcs
  <2>2. QED
    BY <1>1, <1>2, <1>3, <2>1, UseShutGoes
<1>5. CASE /\ index[s] # NoHandle
           /\ n = [pc |-> "live.read", for |-> use, s |-> s, h |-> index[s], found |-> Gone, again |-> FALSE]
  <2>1. n.pc = "live.read" /\ n.h = index[s]
    BY <1>5
  <2>2. Issued(n.h)
    BY <1>3, <1>5, <2>1, OpenedKnown
  <2>3. n.pc \in UsePcs
    BY <2>1 DEF UsePcs, LivePcs
  <2>4. QED
    BY <1>1, <1>2, <1>3, <2>2, <2>3, UseShutGoes
<1>6. QED
  BY <1>3, <1>4, <1>5

LEMMA RevokeWriteShut ==
  ASSUME LifeInv, ShutInv, NEW w \in Worker, RevokeWrite(w)
  PROVE  ShutInv'
<1>1. PICK s, deadline, keep : s = task[w].subject /\ deadline = task[w].deadline /\ keep = FALSE
  OBVIOUS
<1>2. s \in Subject /\ deadline \in Nat
  BY <1>1 DEF RevokeWrite, At, LifeInv, LifeFine, RevokePcs
<1>3. BoundaryLands(s, deadline, keep) /\ record' = record /\ index' = index
  BY <1>1 DEF RevokeWrite, cookieVars
<1>4. Boundaries
  BY <1>2, <1>3, BoundaryShuts DEF Boundaries
<1>5. GoesKept(w)
  BY OthersKeep DEF RevokeStep
<1>6. QED
  BY <1>3, <1>4, <1>5, SameRecordsSameOpenings, ShutKept

(* What passes beside the workers opens and issues nothing.                *)
LEMMA ShutBeside ==
  ASSUME LifeInv, ShutInv, task' = task, index' = index, Boundaries, SameOpenings
  PROVE  ShutInv'
<1>1. ASSUME NEW v \in Worker, NEW t, t = task[v] PROVE ShutFine(t)'
  <2>1. ShutFine(t) /\ LifeFine(t)
    BY <1>1 DEF ShutInv, LifeInv
  <2>2. PICK h : h = LoginOf(t).handle
    OBVIOUS
  <2>3. HasLogin(t) => h \in Handle /\ SameOpening(h)
    BY <2>1, <2>2 DEF LifeFine, LoginFine, SameOpenings
  <2>4. HasLogin(t) /\ record'[h].state = "open" => record'[h].proven = LoginOf(t).proven
    BY <2>1, <2>2, <2>3 DEF ShutFine, SameOpening
  <2>5. Checked(t) => HasLogin(t)
    BY DEF Checked, HasLogin, LoginPcs
  <2>6. Checked(t) /\ record'[h].state = "open" => Shut(h)'
    BY <2>1, <2>2, <2>3, <2>5 DEF ShutFine, SameOpening, Boundaries
  <2>7. QED
    BY <2>2, <2>4, <2>6 DEF ShutFine, HasLogin, LoginOf, Checked, Shut
<1>2. \A v \in Worker : \A t : t = task[v] => ShutFine(t)'
  BY <1>1
<1>3. (\A v \in Worker : ShutFine(task[v]))'
  BY <1>2 DEF ShutFine, HasLogin, LoginOf, Checked, Shut
<1>4. ASSUME NEW h \in Handle, Issued(h)', record'[h].state = "open" PROVE Shut(h)'
  <2>1. Issued(h)
    BY <1>4 DEF Issued
  <2>2. Shut(h)
    BY <1>4, <2>1 DEF ShutInv, SameOpenings, SameOpening
  <2>3. QED
    BY <1>4, <2>2 DEF Boundaries, SameOpenings
<1>5. QED
  BY <1>3, <1>4 DEF ShutInv, Boundaries

LEMMA ShutSteps == LifeInv /\ ShutInv /\ [Next]_vars => ShutInv'
<1> SUFFICES ASSUME LifeInv, ShutInv, [Next]_vars PROVE ShutInv'
  OBVIOUS
<1>1. ASSUME UNCHANGED sessionVars, now' \in 0 .. MaxNow, now <= now', UNCHANGED <<boundary, landed>> PROVE ShutInv'
  <2>1. Boundaries
    BY <1>1, BoundariesLast DEF Boundaries
  <2>2. record' = record /\ task' = task /\ index' = index
    BY <1>1 DEF sessionVars, cookieVars
  <2>3. QED
    BY <2>1, <2>2, SameRecordsSameOpenings, ShutBeside
<1>2. now \in 0 .. MaxNow
  BY DEF LifeInv, StateFine
<1>3. CASE UNCHANGED vars
  <2>1. now' \in 0 .. MaxNow /\ now <= now' /\ UNCHANGED sessionVars /\ UNCHANGED <<boundary, landed>>
    BY <1>2, <1>3, RevocationAssumption DEF vars, revocationVars
  <2>2. QED
    BY <1>1, <2>1
<1>4. CASE ClockTicks /\ UNCHANGED sessionVars
  <2>1. now' \in 0 .. MaxNow /\ now <= now' /\ UNCHANGED <<boundary, landed>>
    BY <1>2, <1>4, RevocationAssumption DEF ClockTicks
  <2>2. QED
    BY <1>1, <1>4, <2>1
<1>5. ASSUME NEW w \in Worker, UNCHANGED revocationVars, record' = record, index' = index, GoesKept(w) PROVE ShutInv'
  BY <1>5, BoundariesStay, SameRecordsSameOpenings, ShutKept
<1>6. ASSUME NEW w \in Worker, Work(w) PROVE ShutInv'
  <2>1. CASE RevokeLate(w) \/ RevokeList(w)
    <3>1. UNCHANGED revocationVars /\ record' = record /\ index' = index
      BY <2>1 DEF RevokeLate, RevokeList, cookieVars
    <3>2. QED
      BY <1>5, <2>1, <3>1, OthersKeep DEF RevokeStep
  <2>2. QED
    BY <1>6, <2>1, CloseShut, LoginShut, UseShut, RevokeWriteShut DEF Work, RevokeStep
<1>7. ASSUME NEW w \in Worker, Start(w) \/ Vanish(w) PROVE ShutInv'
  <2>1. CASE StartClose(w) \/ StartSweep(w) \/ StartRevoke(w) \/ Vanish(w)
    <3>1. UNCHANGED revocationVars /\ record' = record /\ index' = index
      BY <2>1 DEF StartClose, StartSweep, StartRevoke, Vanish, cookieVars
    <3>2. QED
      BY <1>5, <2>1, <3>1, OthersKeep
  <2>2. QED
    BY <1>7, <2>1, StartLoginShut, StartUseShut DEF Start
<1>8. ASSUME NEW h \in Handle, LifetimePasses(h) \/ StoreDrops(h) \/ ListingEnds(h) PROVE ShutInv'
  <2>1. UNCHANGED revocationVars /\ task' = task /\ index' = index
    BY <1>8 DEF LifetimePasses, StoreDrops, ListingEnds, cookieVars
  <2>2. CASE record' = record
    BY <2>1, <2>2, BoundariesStay, SameRecordsSameOpenings, ShutBeside
  <2>3. CASE StoreDrops(h)
    <3>1. PICK r : r = Gone
      OBVIOUS
    <3>2. record' = [record EXCEPT ![h] = r] /\ r.state # "open"
      BY <2>3, <3>1 DEF StoreDrops, Gone
    <3>3. QED
      BY <2>1, <3>2, OneRecordSameOpenings, BoundariesStay, ShutBeside
  <2>4. QED
    BY <1>8, <2>2, <2>3 DEF LifetimePasses, ListingEnds
<1>9. QED
  BY <1>3, <1>4, <1>6, <1>7, <1>8 DEF Next

LEMMA ShutInits == Init => ShutInv
<1> SUFFICES ASSUME Init PROVE ShutInv
  OBVIOUS
<1>1. \A w \in Worker : task[w] = Idle(Nothing)
  BY AtFirst
<1>2. now = 0 /\ boundary = [s \in Subject |-> [sessions |-> None, delegations |-> None]] /\ landed = [s \in Subject |-> None]
  BY DEF Init, RevocationInit
<1>3. BoundaryFine /\ DOMAIN landed = Subject /\ DOMAIN boundary = Subject
  BY <1>2 DEF BoundaryFine, None
<1>4. ShutFine(Idle(Nothing))
  BY DEF ShutFine, Idle, HasLogin, Checked, LoginPcs, ClosePcs
<1>5. ASSUME NEW h \in Handle, record[h].state = "open" PROVE Shut(h)
  <2>1. record[h].proven = 0
    BY <1>5, AtFirst DEF Init, Opening, Gone
  <2>2. landed[Owner[h]] = None
    BY <1>2, LifecycleAssumption
  <2>3. QED
    BY <2>1, <2>2 DEF Shut, None
<1>6. QED
  BY <1>1, <1>3, <1>4, <1>5 DEF ShutInv

LEMMA ShutAlways == Spec => [](LifeInv /\ ShutInv)
<1>1. Init => LifeInv /\ ShutInv
  BY LifeInits, ShutInits
<1>2. LifeInv /\ ShutInv /\ [Next]_vars => (LifeInv /\ ShutInv)'
  BY LifeSteps, ShutSteps
<1>3. QED
  BY <1>1, <1>2, PTL DEF Spec

(* No session anyone can enter has a login proven before a revocation of   *)
(* its subject landed, unless the boundary shuts it: a boundary is no      *)
(* earlier than the time it landed, and the login reads it once its record *)
(* is saved with an opening read before.                                   *)
THEOREM RevokedLoginAlwaysShut == Spec => []ShutByBoundary
<1>1. LifeInv /\ ShutInv => ShutByBoundary
  BY DEF ShutInv, ShutByBoundary, Enterable, Issued, Shut
<1>2. QED
  BY <1>1, ShutAlways, PTL

(* Every variable keeps to its type, with any number of sessions, workers  *)
(* and secrets.                                                            *)
THEOREM LifecycleTypeCorrect == Spec => []TypeOK
<1>1. LifeInv /\ ShutInv => TypeOK
  <2> SUFFICES ASSUME LifeInv, ShutInv PROVE TypeOK
    OBVIOUS
  <2>1. now \in 0 .. MaxNow /\ MaxNow \in Nat
    BY RevocationAssumption DEF LifeInv, StateFine
  <2>2. \A s \in Subject : landed[s] \in {None} \cup 0 .. MaxNow
    <3>1. 0 .. now \subseteq 0 .. MaxNow
      BY <2>1
    <3>2. QED
      BY <3>1 DEF ShutInv, BoundaryFine
  <2>3. \A h \in Handle : record[h].state \in Full \cup {"gone", "mark"} /\ (record[h].state \in Full => record[h].openedAt <= now)
    BY <2>1 DEF LifeInv, StateFine, RecordFine, Gone, Full
  <2>4. ASSUME NEW w \in Worker, "h" \in DOMAIN task[w] PROVE task[w].h \in Handle
    <3>1. LifeFine(task[w])
      BY DEF LifeInv
    <3>2. QED
      BY <2>4, <3>1 DEF LifeFine, Knowns, Known
  <2>5. QED
    BY <2>1, <2>2, <2>3, <2>4 DEF TypeOK, LifeInv, StateFine, Knowns
<1>2. QED
  BY <1>1, ShutAlways, PTL

----------------------------------------------------------------------------
(* Forward: what the life of a session says of any step.                   *)
LEMMA Forward ==
  ASSUME LifeInv, [Next]_vars, NEW h \in Handle
  PROVE  /\ Known(h) => Known(h)' /\ (record[h].state # "open" => record'[h].state # "open")
         /\ Ended(h) => Ended(h)'
<1>1. RecordFine(record[h]) /\ RecordFine(record[h])'
  BY LifeSteps DEF LifeInv, StateFine
<1>2. /\ record[h].state \in {"gone", "mark", "open", "closing", "closed"}
      /\ record'[h].state \in {"gone", "mark", "open", "closing", "closed"}
  BY <1>1 DEF RecordFine, Gone, Full
<1>3. life[h] = LifeAt(record[h], h \in over) /\ life'[h] = LifeAt(record'[h], h \in over')
  BY LifeIs
<1>4. /\ life[h] = "new" <=> ~Known(h)
      /\ life[h] = "open" <=> record[h].state = "open"
      /\ life[h] = "ended" <=> Ended(h)
      /\ life[h] \in {"new", "open", "closing", "ended"}
  BY <1>2, <1>3 DEF LifeAt, Known, Ended
<1>5. /\ life'[h] = "new" <=> ~Known(h)'
      /\ life'[h] = "open" <=> record'[h].state = "open"
      /\ life'[h] = "ended" <=> Ended(h)'
      /\ life'[h] \in {"new", "open", "closing", "ended"}
  BY <1>2, <1>3 DEF LifeAt, Known, Ended
<1>6. \/ life'[h] = life[h]
      \/ life[h] = "new" /\ life'[h] = "open"
      \/ life[h] = "open" /\ life'[h] \in {"closing", "ended"}
      \/ life[h] = "closing" /\ life'[h] = "ended"
  <2>1. DOMAIN life = Handle
    BY LifeIs
  <2>2. ASSUME NEW g \in Handle, NEW from, NEW to, Life!Becomes(g, from, to), life[h] # life'[h]
        PROVE  life[h] \in from /\ life'[h] = to
    BY <2>1, <2>2 DEF Life!Becomes
  <2>3. CASE life' = life
    BY <2>3
  <2>4. CASE life[h] # life'[h] /\ Life!LifeNext
    <3>1. PICK g \in Handle : Life!Opens(g) \/ Life!EndsOpen(g) \/ Life!StartsClosing(g) \/ Life!EndsClosed(g)
      BY <2>4 DEF Life!LifeNext, Life!Finishes
    <3>2. PICK from, to : /\ Life!Becomes(g, from, to)
                          /\ \/ from = {"new"} /\ to = "open"
                             \/ from = {"open"} /\ to \in {"closing", "ended"}
                             \/ from = {"closing"} /\ to = "ended"
      BY <3>1 DEF Life!Opens, Life!EndsOpen, Life!StartsClosing, Life!EndsClosed
    <3>3. life[h] \in from /\ life'[h] = to
      BY <2>2, <2>4, <3>2
    <3>4. QED
      BY <3>2, <3>3
  <2>5. QED
    BY <2>3, <2>4, LifeStepsMap DEF Life!lifeVars
<1>7. QED
  BY <1>4, <1>5, <1>6

LEMMA OverLasts ==
  ASSUME [Next]_vars
  PROVE  over \subseteq over'
<1>1. ASSUME NEW w \in Worker, Work(w) PROVE over' = over
  BY <1>1 DEF Work, CloseStep, CloseThrows, CloseAdd, CloseAdvance, CloseMark, CloseRemark, Mark,
     ParticipantFinishes, ParticipantFails, PutOff, CloseFinish, CloseUnlist, CloseDone, LoginStep, LoginStamp,
     LoginSave, LoginCheck, LoginList, LoginKeep, LoginTakeBack, LoginReadLeft, LoginRelist, LoginEnd,
     LoginRefused, LoginIssue, LoginAnswer, UseStep, LiveRead, LiveEnd, LiveCheck, EnterIndex, RaiseIssue,
     RaiseRetire, RaiseUpdate, RevokeStep, RevokeWrite, RevokeLate, RevokeList
<1>2. ASSUME NEW w \in Worker, Start(w) \/ Vanish(w) PROVE over' = over
  BY <1>2 DEF Start, StartClose, StartSweep, StartLogin, StartUse, StartRevoke, Vanish
<1>3. ASSUME NEW h \in Handle, LifetimePasses(h) \/ StoreDrops(h) \/ ListingEnds(h) PROVE over \subseteq over'
  BY <1>3 DEF LifetimePasses, StoreDrops, ListingEnds
<1>4. QED
  BY <1>1, <1>2, <1>3 DEF Next, vars, sessionVars

(* A closing is taken off the list only once it ended.                     *)
LEMMA ClosingsLast ==
  ASSUME LifeInv, [Next]_vars, NEW h \in closings
  PROVE  h \in closings' \/ Ended(h)
<1>1. ASSUME NEW w \in Worker, CloseDone(w) PROVE h \in closings' \/ Ended(h)
  <2>1. closings' = closings \ {task[w].h} /\ task[w].pc = "close.done"
    BY <1>1 DEF CloseDone, At
  <2>2. Ended(task[w].h)
    BY <2>1 DEF LifeInv, LifeFine
  <2>3. QED
    BY <2>1, <2>2
<1>2. ASSUME NEW w \in Worker, Work(w), ~CloseDone(w) PROVE h \in closings'
  BY <1>2 DEF Work, CloseStep, CloseThrows, CloseAdd, CloseAdvance, CloseMark, CloseRemark, Mark,
     ParticipantFinishes, ParticipantFails, PutOff, CloseFinish, CloseUnlist, LoginStep, LoginStamp, LoginSave,
     LoginCheck, LoginList, LoginKeep, LoginTakeBack, LoginReadLeft, LoginRelist, LoginEnd, LoginRefused,
     LoginIssue, LoginAnswer, UseStep, LiveRead, LiveEnd, LiveCheck, EnterIndex, RaiseIssue, RaiseRetire,
     RaiseUpdate, RevokeStep, RevokeWrite, RevokeLate, RevokeList
<1>3. ASSUME NEW w \in Worker, Start(w) \/ Vanish(w) PROVE closings' = closings
  BY <1>3 DEF Start, StartClose, StartSweep, StartLogin, StartUse, StartRevoke, Vanish
<1>4. ASSUME NEW g \in Handle, LifetimePasses(g) \/ StoreDrops(g) \/ ListingEnds(g) PROVE closings' = closings
  BY <1>4 DEF LifetimePasses, StoreDrops, ListingEnds
<1>5. QED
  BY <1>1, <1>2, <1>3, <1>4 DEF Next, vars, sessionVars

LEMMA ReleasedLasts ==
  ASSUME LifeInv, [Next]_vars, NEW h \in Handle, Known(h), Released(h)
  PROVE  Released(h)'
<1>1. CASE record[h].state # "open" \/ h \in over
  BY <1>1, Forward, OverLasts DEF Released
<1>2. CASE h \in closings /\ ~Ended(h)
  BY <1>2, ClosingsLast DEF Released
<1>3. CASE Ended(h)
  BY <1>3, Forward DEF Ended, Released
<1>4. QED
  BY <1>1, <1>2, <1>3 DEF Released

(* A session leaves its listing because it ended, or as a login pushes it  *)
(* out or takes its own back.                                              *)
Unlists(w, h) ==
  \/ LoginList(w) \/ LoginRelist(w)
  \/ LoginTakeBack(w) /\ h = task[w].login.handle

LEMMA ListedLasts ==
  ASSUME LifeInv, [Next]_vars, NEW h \in Handle, NEW s \in Subject, h \in listed[s]
  PROVE  h \in listed'[s] \/ Ended(h) \/ h \in over \/ \E w \in Worker : Unlists(w, h)
<1>1. ASSUME NEW w \in Worker, CloseUnlist(w) PROVE h \in listed'[s] \/ Ended(h)
  <2>1. /\ task[w].pc = "close.unlist"
        /\ listed' = [listed EXCEPT ![Owner[task[w].h]] = @ \ {task[w].h}] \/ listed' = listed
    BY <1>1 DEF CloseUnlist, At
  <2>2. Ended(task[w].h)
    BY <2>1 DEF LifeInv, LifeFine
  <2>3. QED
    BY <2>1, <2>2 DEF LifeInv, StateFine
<1>2. ASSUME NEW w \in Worker, LoginTakeBack(w) PROVE h \in listed'[s] \/ Unlists(w, h)
  BY <1>2 DEF LoginTakeBack, Unlists, LifeInv, StateFine
<1>3. ASSUME NEW w \in Worker, Work(w), ~CloseUnlist(w), ~LoginTakeBack(w), ~LoginList(w), ~LoginRelist(w)
      PROVE  listed' = listed
  BY <1>3 DEF Work, CloseStep, CloseThrows, CloseAdd, CloseAdvance, CloseMark, CloseRemark, Mark,
     ParticipantFinishes, ParticipantFails, PutOff, CloseFinish, CloseDone, LoginStep, LoginStamp, LoginSave,
     LoginCheck, LoginKeep, LoginReadLeft, LoginEnd, LoginRefused, LoginIssue, LoginAnswer, UseStep, LiveRead,
     LiveEnd, LiveCheck, EnterIndex, RaiseIssue, RaiseRetire, RaiseUpdate, RevokeStep, RevokeWrite, RevokeLate,
     RevokeList
<1>4. ASSUME NEW w \in Worker, Start(w) \/ Vanish(w) PROVE listed' = listed
  BY <1>4 DEF Start, StartClose, StartSweep, StartLogin, StartUse, StartRevoke, Vanish
<1>5. ASSUME NEW g \in Handle, LifetimePasses(g) \/ StoreDrops(g) PROVE listed' = listed
  BY <1>5 DEF LifetimePasses, StoreDrops
<1>6. ASSUME NEW g \in Handle, ListingEnds(g) PROVE h \in listed'[s] \/ h \in over
  BY <1>6 DEF ListingEnds, LifeInv, StateFine
<1>7. ASSUME NEW w \in Worker, LoginList(w) \/ LoginRelist(w) PROVE Unlists(w, h)
  BY <1>7 DEF Unlists
<1>8. QED
  BY <1>1, <1>2, <1>3, <1>4, <1>5, <1>6, <1>7 DEF Next, vars, sessionVars


----------------------------------------------------------------------------
(* Who may be entered: by a cookie that was issued, or that a listing is   *)
(* to issue.                                                               *)
LEMMA EnteredIs == \A h : Entered(h) <=> Issued(h) \/ \E w \in Worker : Enters(task[w], h)
BY DEF Entered, Enters

LEMMA EnteredKnown ==
  ASSUME LifeInv, NEW h \in Handle, Entered(h)
  PROVE  Known(h)
<1>1. ASSUME NEW w \in Worker, Enters(task[w], h) PROVE Known(h)
  <2>1. LifeFine(task[w])
    BY DEF LifeInv
  <2>2. HasLogin(task[w]) /\ ~Unsaved(task[w])
    BY <1>1 DEF Enters, Pends, Checked, Unsaved, LoginPcs, ClosePcs
  <2>3. QED
    BY <1>1, <2>1, <2>2 DEF LifeFine, Enters, Pends
<1>2. QED
  BY <1>1, IssuedKnown, EnteredIs

LEMMA EnteredStep ==
  ASSUME LifeInv, NEW w \in Worker, NEW n, task' = [task EXCEPT ![w] = n], NEW h \in Handle, Entered(h)',
         Enters(n, h) => Entered(h),
         (\E s \in Secret : index'[s] = h) \/ (n.pc \in UsePcs /\ n.h = h) => Entered(h)
  PROVE  Entered(h)
<1>1. DOMAIN task' = Worker /\ task'[w] = n /\ \A v \in Worker \ {w} : task'[v] = task[v]
  BY DEF LifeInv
<1>2. Issued(h)' \/ \E v \in Worker : Enters(task'[v], h)
  BY DEF Entered, Enters, Pends, Checked, HasLogin, LoginOf
<1>3. CASE Issued(h)'
  <2>1. \/ \E s \in Secret : index'[s] = h
        \/ \E v \in Worker : task'[v].pc \in UsePcs /\ task'[v].h = h
    BY <1>3 DEF Issued
  <2>2. QED
    BY <1>1, <2>1 DEF Issued, Entered
<1>4. ASSUME NEW v \in Worker, Enters(task'[v], h) PROVE Entered(h)
  BY <1>1, <1>4, EnteredIs
<1>5. QED
  BY <1>2, <1>3, <1>4

LEMMA EnteredKept ==
  ASSUME LifeInv, NEW w \in Worker, GoesKept(w), NEW h \in Handle, Entered(h)',
         (\E s \in Secret : index'[s] = h) => Entered(h)
  PROVE  Entered(h)
<1>1. PICK n : task' = [task EXCEPT ![w] = n] /\ Keeps(task[w], n)
  BY DEF GoesKept
<1>2. (Enters(n, h) => Enters(task[w], h)) /\ n.pc \notin UsePcs
  BY <1>1 DEF Keeps
<1>3. QED
  BY <1>1, <1>2, EnteredIs, EnteredStep

LEMMA EnteredSame ==
  ASSUME NEW h \in Handle, Entered(h)', task' = task, index' = index
  PROVE  Entered(h)
BY DEF Entered, Issued, Pends, Checked, HasLogin, LoginOf

(* Only a listing brings one more.                                         *)
LEMMA EnteredBefore ==
  ASSUME LifeInv, [Next]_vars, NEW h \in Handle, Entered(h)'
  PROVE  Entered(h) \/ \E w \in Worker : LoginList(w) /\ h = task[w].login.handle
<1>1. ASSUME index' = index, \E s \in Secret : index'[s] = h PROVE Entered(h)
  BY <1>1 DEF Entered, Issued
<1>2. ASSUME NEW w \in Worker, CloseStep(w) PROVE Entered(h)
  <2>1. index' = index
    BY <1>2 DEF CloseStep, CloseThrows, CloseAdd, CloseAdvance, CloseMark, CloseRemark, Mark,
       ParticipantFinishes, ParticipantFails, PutOff, CloseFinish, CloseUnlist, CloseDone, cookieVars
  <2>2. QED
    BY <1>1, <1>2, <2>1, CloseKeeps, EnteredKept
<1>3. ASSUME NEW w \in Worker, RevokeStep(w) \/ StartClose(w) \/ StartSweep(w) \/ StartRevoke(w) \/ Vanish(w)
      PROVE  Entered(h)
  <2>1. index' = index
    BY <1>3 DEF RevokeStep, RevokeWrite, RevokeLate, RevokeList, StartClose, StartSweep, StartRevoke, Vanish, cookieVars
  <2>2. QED
    BY <1>1, <1>3, <2>1, OthersKeep, EnteredKept
<1>4. ASSUME NEW w \in Worker,
             \/ LoginStamp(w) \/ LoginSave(w) \/ LoginKeep(w) \/ LoginTakeBack(w) \/ LoginReadLeft(w)
             \/ LoginRelist(w) \/ LoginEnd(w) \/ LoginRefused(w) \/ LoginAnswer(w)
      PROVE  Entered(h)
  <2>1. index' = index
    BY <1>4 DEF LoginStamp, LoginSave, LoginKeep, LoginTakeBack, LoginReadLeft, LoginRelist, LoginEnd, LoginRefused,
       LoginAnswer, cookieVars
  <2>2. QED
    BY <1>1, <1>4, <2>1, LoginKeeps, EnteredKept
<1>5. ASSUME NEW w \in Worker, LoginIssue(w) PROVE Entered(h)
  <2>1. PICK t, g : t = task[w] /\ g = t.login.handle
    OBVIOUS
  <2>2. t.pc = "login.issue" /\ t.pc \in LoginPcs
    BY <1>5, <2>1 DEF LoginIssue, At, LoginPcs
  <2>3. g \in Handle /\ Enters(t, g)
    BY <2>1, <2>2, LoginAt DEF Checked, Enters
  <2>4. PICK s, n : /\ s \in Secret \ drawn /\ n = [pc |-> "login.answer", s |-> s]
                    /\ index' = [index EXCEPT ![s] = g]
                    /\ task' = [task EXCEPT ![w] = n]
    BY <1>5, <2>1 DEF LoginIssue, Go
  <2>5. \A r \in Secret : index'[r] \in {index[r], g}
    BY <2>4 DEF LifeInv, StateFine
  <2>6. (\E r \in Secret : index'[r] = h) => Issued(h) \/ h = g
    BY <2>5 DEF Issued
  <2>7. n.pc \notin UsePcs /\ ~Enters(n, h)
    BY <2>4 DEF Enters, Pends, HasLogin, LoginPcs, ClosePcs, UsePcs, LivePcs, RaisePcs
  <2>8. QED
    BY <2>1, <2>3, <2>4, <2>6, <2>7, EnteredIs, EnteredStep
<1>6. ASSUME NEW w \in Worker, LoginCheck(w) PROVE Entered(h)
  <2>1. index' = index
    BY <1>6 DEF LoginCheck, cookieVars
  <2>2. PICK n, g, failing :
          /\ task' = [task EXCEPT ![w] = n]
          /\ \/ n = Closing("revoked", g, {}, failing, task[w].login)
             \/ n = [pc |-> "login.list", login |-> task[w].login]
    BY <1>6 DEF LoginCheck, Go
  <2>3. (n.pc = "close.add" /\ n.for = "revoked") \/ n.pc = "login.list"
    BY <2>2 DEF Closing
  <2>4. ~Enters(n, h) /\ n.pc \notin UsePcs
    BY <2>3 DEF Enters, Pends, HasLogin, Checked, LoginPcs, ClosePcs, UsePcs, LivePcs, RaisePcs
  <2>5. QED
    BY <1>1, <2>1, <2>2, <2>4, EnteredStep
<1>7. ASSUME NEW w \in Worker, LoginList(w), h # task[w].login.handle PROVE Entered(h)
  <2>1. index' = index
    BY <1>7 DEF LoginList, cookieVars
  <2>2. PICK n : /\ task' = [task EXCEPT ![w] = n]
                 /\ \A g : Pends(n, g) => Pends(task[w], g)
                 /\ n.pc \notin UsePcs
    BY <1>7, ListingGoes
  <2>3. task[w].pc \in LoginPcs
    BY <1>7 DEF LoginList, At, LoginPcs
  <2>4. ~Pends(task[w], h)
    BY <1>7, <2>3 DEF Pends, LoginOf
  <2>5. QED
    BY <1>1, <2>1, <2>2, <2>4, EnteredStep DEF Enters
<1>8. ASSUME NEW w \in Worker, UseStep(w) PROVE Entered(h)
  <2>1. PICK n : /\ task' = [task EXCEPT ![w] = n]
                 /\ n.pc \in {"idle"} \cup UsePcs /\ (n.pc \in UsePcs => n.h = task[w].h)
    BY <1>8, UseTurns DEF Turns, Turned
  <2>2. ~Enters(n, h)
    BY <2>1 DEF Enters, Pends, HasLogin, LoginPcs, ClosePcs, UsePcs, LivePcs, RaisePcs
  <2>3. (\E s \in Secret : index'[s] = h) \/ (n.pc \in UsePcs /\ n.h = h) => Issued(h)
    BY <1>8, <2>1, UseTurns DEF Issued
  <2>4. QED
    BY <2>1, <2>2, <2>3, EnteredIs, EnteredStep
<1>9. ASSUME NEW w \in Worker, NEW use, StartUse(w, use) PROVE Entered(h)
  <2>1. index' = index
    BY <1>9 DEF StartUse, cookieVars
  <2>2. PICK s, n :
       /\ s \in carried
       /\ task' = [task EXCEPT ![w] = n]
       /\ \/ n = Idle(Nothing)
          \/ /\ index[s] # NoHandle
             /\ n = [pc |-> "live.read", for |-> use, s |-> s, h |-> index[s], found |-> Gone, again |-> FALSE]
    BY <1>9 DEF StartUse, Answer, Go
  <2>3. n.pc \in {"idle", "live.read"} /\ (n.pc = "live.read" => n.h = index[s] /\ index[s] # NoHandle)
    BY <2>2 DEF Idle
  <2>4. ~Enters(n, h)
    BY <2>3 DEF Enters, Pends, HasLogin, LoginPcs, ClosePcs
  <2>5. n.pc \in UsePcs /\ n.h = h => Issued(h)
    BY <2>2, <2>3, OpenedKnown DEF UsePcs, LivePcs, RaisePcs
  <2>6. QED
    BY <1>1, <2>1, <2>2, <2>4, <2>5, EnteredIs, EnteredStep
<1>10. ASSUME NEW w \in Worker, StartLogin(w) PROVE Entered(h)
  <2>1. index' = index
    BY <1>10 DEF StartLogin
  <2>2. PICK n, g, failing, login :
          /\ task' = [task EXCEPT ![w] = n]
          /\ \/ n = [pc |-> "login.stamp", login |-> login]
             \/ n = Closing("earlier", g, {}, failing, login)
    BY <1>10 DEF StartLogin, Go
  <2>3. n.pc = "login.stamp" \/ (n.pc = "close.add" /\ n.for = "earlier")
    BY <2>2 DEF Closing
  <2>4. ~Enters(n, h) /\ n.pc \notin UsePcs
    BY <2>3 DEF Enters, Checked, ClosePcs, UsePcs, LivePcs, RaisePcs
  <2>5. QED
    BY <1>1, <2>1, <2>2, <2>4, EnteredStep
<1>11. ASSUME task' = task, UNCHANGED cookieVars PROVE Entered(h)
  BY <1>11, EnteredSame DEF cookieVars
<1>12. ASSUME NEW g \in Handle, LifetimePasses(g) \/ StoreDrops(g) \/ ListingEnds(g) PROVE Entered(h)
  BY <1>11, <1>12 DEF LifetimePasses, StoreDrops, ListingEnds
<1>13. CASE UNCHANGED vars
  BY <1>11, <1>13 DEF vars, sessionVars
<1>14. ASSUME UNCHANGED sessionVars PROVE Entered(h)
  BY <1>11, <1>14 DEF sessionVars
<1>15. ASSUME NEW w \in Worker, Work(w)
       PROVE  Entered(h) \/ (LoginList(w) /\ h = task[w].login.handle)
  BY <1>2, <1>3, <1>4, <1>5, <1>6, <1>7, <1>8, <1>15 DEF Work, LoginStep
<1>16. ASSUME NEW w \in Worker, Start(w) \/ Vanish(w) PROVE Entered(h)
  BY <1>3, <1>9, <1>10, <1>16 DEF Start
<1>17. QED
  BY <1>12, <1>13, <1>14, <1>15, <1>16 DEF Next


----------------------------------------------------------------------------
(* What a listing pushes out stays in hand: of each session open and       *)
(* listed, or in the hands of this login, a step of the login leaves it    *)
(* listed, kept as a closing or in hand; it takes back only its own.       *)
Away(w, h) == LoginTakeBack(w) /\ h = task[w].login.handle

Covers(w, n) ==
  \A h \in Handle :
    record'[h].state = "open" /\ (Out(task[w], h) \/ h \in listed[Owner[h]]) =>
      h \in listed'[Owner[h]] \cup closings' \/ h \in over \/ Out(n, h) \/ Away(w, h)

Passes(w) ==
  \E n : /\ task' = [task EXCEPT ![w] = n] /\ OwnFine(n)
         /\ \A s \in Subject : \A h \in listed'[s] : Owner[h] = s
         /\ "login.end" \notin load.vanish => Covers(w, n)

LEMMA LoginListPasses ==
  ASSUME LifeInv, OwnInv, NEW w \in Worker, LoginList(w)
  PROVE  Passes(w) /\ task[w].login.handle \in listed'[Owner[task[w].login.handle]]
<1>1. PICK t, g, s : t = task[w] /\ g = t.login.handle /\ s = Owner[g]
  OBVIOUS
<1>2. t.pc = "login.list" /\ t.pc \in LoginPcs
  BY <1>1 DEF LoginList, At, LoginPcs
<1>3. g \in Handle /\ s \in Subject
  BY <1>1, <1>2, LoginAt, LifecycleAssumption
<1>4. PICK out, n :
        /\ out \subseteq listed[s] \ {g}
        /\ listed' = [listed EXCEPT ![s] = (@ \cup {g}) \ out]
        /\ task' = [task EXCEPT ![w] = n]
        /\ \/ out = {} /\ n = [pc |-> "login.issue", login |-> t.login]
           \/ n = [pc |-> "login.keep", login |-> t.login, out |-> out, todo |-> out]
  BY <1>1 DEF LoginList, OverCap, Go
<1>5. \/ n.pc = "login.issue" /\ out = {}
      \/ n.pc = "login.keep" /\ n.login = t.login /\ n.out = out /\ n.todo = out
  BY <1>4
<1>6. listed'[s] = (listed[s] \cup {g}) \ out /\ \A r \in Subject \ {s} : listed'[r] = listed[r]
  BY <1>3, <1>4 DEF LifeInv, StateFine
<1>7. \A h \in listed[s] : Owner[h] = s
  BY <1>3 DEF OwnInv
<1>8. OwnFine(n)
  BY <1>1, <1>4, <1>5, <1>7 DEF OwnFine, Out
<1>9. \A r \in Subject : \A h \in listed'[r] : Owner[h] = r
  BY <1>1, <1>6, <1>7 DEF OwnInv
<1>10. \A h \in Handle : Owner[h] \in Subject
  BY LifecycleAssumption
<1>11. Covers(w, n)
  BY <1>1, <1>2, <1>5, <1>6, <1>10 DEF Covers, Out
<1>12. QED
  BY <1>1, <1>3, <1>4, <1>6, <1>8, <1>9, <1>11 DEF Passes

LEMMA LoginKeepPasses ==
  ASSUME LifeInv, OwnInv, NEW w \in Worker, LoginKeep(w)
  PROVE  Passes(w)
<1>1. PICK t : t = task[w]
  OBVIOUS
<1>2. t.pc = "login.keep" /\ t.pc \in LoginPcs /\ listed' = listed
  BY <1>1 DEF LoginKeep, At, LoginPcs
<1>3. LifeFine(t) /\ LoginParts(t) /\ {"out", "todo"} \subseteq DOMAIN t /\ t.todo \subseteq t.out /\ OwnFine(t)
  BY <1>1, <1>2, LoginAt, KeepAt DEF OwnInv
<1>4. PICK h, n : /\ h \in t.todo /\ closings' = closings \cup {h}
                  /\ task' = [task EXCEPT ![w] = n]
                  /\ \/ n = [t EXCEPT !.todo = @ \ {h}]
                     \/ t.todo = {h} /\ \E g, failing : n = Closing("pushed", g, t.out \ {g}, failing, t.login)
  BY <1>1 DEF LoginKeep, Go
<1>5. \/ n.pc = "login.keep" /\ n.login = t.login /\ n.out = t.out /\ n.todo = t.todo \ {h}
      \/ n.pc = "close.add" /\ t.todo = {h}
  <2>1. CASE n = [t EXCEPT !.todo = @ \ {h}]
    BY <1>2, <1>3, <2>1 DEF LoginParts
  <2>2. ASSUME NEW g, NEW failing, n = Closing("pushed", g, t.out \ {g}, failing, t.login)
        PROVE  n.pc = "close.add"
    BY <2>2 DEF Closing
  <2>3. QED
    BY <1>4, <2>1, <2>2
<1>6. OwnFine(n)
  BY <1>2, <1>3, <1>5 DEF OwnFine, Out
<1>7. Covers(w, n)
  BY <1>1, <1>2, <1>4, <1>5 DEF Covers, Out
<1>8. QED
  BY <1>2, <1>4, <1>6, <1>7 DEF Passes, OwnInv

LEMMA LoginTakeBackPasses ==
  ASSUME LifeInv, OwnInv, NEW w \in Worker, LoginTakeBack(w)
  PROVE  Passes(w)
<1>1. PICK t, g, s : t = task[w] /\ g = t.login.handle /\ s = Owner[g]
  OBVIOUS
<1>2. t.pc = "login.keep" /\ t.pc \in LoginPcs
  BY <1>1 DEF LoginTakeBack, At, LoginPcs
<1>3. LifeFine(t) /\ t.todo \subseteq t.out /\ OwnFine(t) /\ g \in Handle /\ s \in Subject
  BY <1>1, <1>2, LoginAt, KeepAt, LifecycleAssumption DEF OwnInv
<1>4. PICK n : /\ n = [pc |-> "login.putback", login |-> t.login, todo |-> t.out, ending |-> {}]
               /\ task' = [task EXCEPT ![w] = n]
               /\ listed' = [listed EXCEPT ![s] = @ \ {g}] \/ listed' = listed
  BY <1>1 DEF LoginTakeBack, Go
<1>5. n.pc = "login.putback" /\ n.login = t.login /\ n.todo = t.out /\ n.ending = {}
  BY <1>4
<1>6. \A r \in Subject : listed'[r] \subseteq listed[r] /\ listed[r] \subseteq listed'[r] \cup {g}
  BY <1>4 DEF LifeInv, StateFine
<1>7. OwnFine(n)
  BY <1>2, <1>3, <1>5 DEF OwnFine, Out
<1>8. \A r \in Subject : \A h \in listed'[r] : Owner[h] = r
  BY <1>6 DEF OwnInv
<1>9. \A h \in Handle : Owner[h] \in Subject
  BY LifecycleAssumption
<1>10. Covers(w, n)
  BY <1>1, <1>2, <1>3, <1>5, <1>6, <1>9 DEF Covers, Out, Away
<1>11. QED
  BY <1>4, <1>7, <1>8, <1>10 DEF Passes

LEMMA LoginReadLeftPasses ==
  ASSUME LifeInv, OwnInv, NEW w \in Worker, LoginReadLeft(w)
  PROVE  Passes(w)
<1>1. PICK t : t = task[w]
  OBVIOUS
<1>2. t.pc = "login.putback" /\ t.pc \in LoginPcs /\ listed' = listed /\ record' = record /\ t.ending = {}
  BY <1>1 DEF LoginReadLeft, At, LoginPcs
<1>3. LifeFine(t) /\ LoginParts(t) /\ {"todo", "ending"} \subseteq DOMAIN t /\ OwnFine(t)
  BY <1>1, <1>2, LoginAt, KeepAt DEF OwnInv
<1>4. PICK h, u, n :
         /\ h \in t.todo
         /\ u = [t EXCEPT !.todo = @ \ {h}]
         /\ task' = [task EXCEPT ![w] = n]
         /\ \/ n = u /\ (h \in over \/ record[h].state \notin {"open", "closing"})
            \/ n = [pc |-> "login.relist", login |-> u.login, todo |-> u.todo, member |-> h]
            \/ n = [u EXCEPT !.ending = {h}]
  BY <1>1 DEF LoginReadLeft, Go
<1>5. /\ {"pc", "login", "todo", "ending"} \subseteq DOMAIN u
      /\ u.pc = "login.putback" /\ u.login = t.login /\ u.todo = t.todo \ {h} /\ u.ending = {}
  BY <1>2, <1>3, <1>4 DEF LoginParts
<1>6. /\ n.login = t.login /\ n.todo = t.todo \ {h}
      /\ \/ n.pc = "login.putback" /\ n.ending = {} /\ (h \in over \/ record[h].state \notin {"open", "closing"})
         \/ n.pc = "login.relist" /\ n.member = h
         \/ n.pc = "login.putback" /\ n.ending = {h}
  <2>1. CASE n = u /\ (h \in over \/ record[h].state \notin {"open", "closing"})
    BY <1>5, <2>1
  <2>2. CASE n = [pc |-> "login.relist", login |-> u.login, todo |-> u.todo, member |-> h]
    BY <1>5, <2>2
  <2>3. CASE n = [u EXCEPT !.ending = {h}]
    BY <1>5, <2>3
  <2>4. QED
    BY <1>4, <2>1, <2>2, <2>3
<1>7. OwnFine(n)
  BY <1>2, <1>3, <1>4, <1>6 DEF OwnFine, Out
<1>8. Covers(w, n)
  BY <1>1, <1>2, <1>4, <1>6 DEF Covers, Out
<1>9. QED
  BY <1>2, <1>4, <1>7, <1>8 DEF Passes, OwnInv

LEMMA LoginRelistPasses ==
  ASSUME LifeInv, OwnInv, NEW w \in Worker, LoginRelist(w)
  PROVE  Passes(w)
<1>1. PICK t, m, s : t = task[w] /\ m = t.member /\ s = Owner[t.login.handle]
  OBVIOUS
<1>2. t.pc = "login.relist" /\ t.pc \in LoginPcs
  BY <1>1 DEF LoginRelist, At, LoginPcs
<1>3. t.login.handle \in Handle /\ s \in Subject /\ OwnFine(t) /\ Owner[m] = s
  BY <1>1, <1>2, LoginAt, LifecycleAssumption DEF OwnInv, OwnFine, Out
<1>4. PICK ending, n :
        /\ n = [pc |-> "login.putback", login |-> t.login, todo |-> t.todo, ending |-> ending]
        /\ task' = [task EXCEPT ![w] = n]
        /\ \/ ending \subseteq listed[s] \ {m} /\ listed' = [listed EXCEPT ![s] = (@ \cup {m}) \ ending]
           \/ ending = {m} /\ listed' = listed
  BY <1>1 DEF LoginRelist, OverCap, Go
<1>5. n.pc = "login.putback" /\ n.login = t.login /\ n.todo = t.todo /\ n.ending = ending
  BY <1>4
<1>6. /\ \A r \in Subject \ {s} : listed'[r] = listed[r]
      /\ \/ ending \subseteq listed[s] \ {m} /\ listed'[s] = (listed[s] \cup {m}) \ ending
         \/ ending = {m} /\ listed'[s] = listed[s]
  BY <1>3, <1>4 DEF LifeInv, StateFine
<1>7. \A h \in listed[s] : Owner[h] = s
  BY <1>3 DEF OwnInv
<1>8. OwnFine(n)
  BY <1>1, <1>2, <1>3, <1>5, <1>6, <1>7 DEF OwnFine, Out
<1>9. \A r \in Subject : \A h \in listed'[r] : Owner[h] = r
  BY <1>3, <1>6, <1>7 DEF OwnInv
<1>10. \A h \in Handle : Owner[h] \in Subject
  BY LifecycleAssumption
<1>11. Covers(w, n)
  BY <1>1, <1>2, <1>3, <1>5, <1>6, <1>10 DEF Covers, Out
<1>12. QED
  BY <1>4, <1>8, <1>9, <1>11 DEF Passes

LEMMA LoginEndPasses ==
  ASSUME LifeInv, OwnInv, NEW w \in Worker, LoginEnd(w)
  PROVE  Passes(w)
<1>1. PICK t : t = task[w]
  OBVIOUS
<1>2. t.pc = "login.putback" /\ t.pc \in LoginPcs /\ listed' = listed
  BY <1>1 DEF LoginEnd, At, LoginPcs
<1>3. /\ LifeFine(t) /\ LoginParts(t) /\ {"todo", "ending"} \subseteq DOMAIN t /\ OwnFine(t)
      /\ t.todo \cup t.ending \subseteq Knowns
  BY <1>1, <1>2, LoginAt, KeepAt DEF OwnInv
<1>4. PICK h, n :
         /\ h \in t.ending /\ (EndOpen(h) \/ "login.end" \in load.vanish)
         /\ n = [t EXCEPT !.ending = @ \ {h}]
         /\ task' = [task EXCEPT ![w] = n]
  BY <1>1 DEF LoginEnd, Go
<1>5. n.pc = "login.putback" /\ n.login = t.login /\ n.todo = t.todo /\ n.ending = t.ending \ {h}
  BY <1>2, <1>3, <1>4 DEF LoginParts
<1>6. OwnFine(n)
  BY <1>2, <1>3, <1>4, <1>5 DEF OwnFine, Out
<1>7. ASSUME EndOpen(h) PROVE record'[h].state # "open"
  <2>1. h \in Handle /\ RecordFine(record[h])
    BY <1>3, <1>4 DEF Knowns, LifeInv, StateFine
  <2>2. QED
    BY <1>7, <2>1 DEF EndOpen, RecordFine, Gone, LifeInv, StateFine
<1>8. "login.end" \notin load.vanish => Covers(w, n)
  BY <1>1, <1>2, <1>4, <1>5, <1>7 DEF Covers, Out
<1>9. QED
  BY <1>2, <1>4, <1>6, <1>8 DEF Passes, OwnInv


(* No other step pushes a session out.                                     *)
Lists(w) ==
  LoginList(w) \/ LoginKeep(w) \/ LoginTakeBack(w) \/ LoginReadLeft(w) \/ LoginRelist(w) \/ LoginEnd(w)

Plain(w) == \E n : task' = [task EXCEPT ![w] = n] /\ n.pc \notin ListPcs

LEMMA ListsPasses ==
  ASSUME LifeInv, OwnInv, NEW w \in Worker, Lists(w)
  PROVE  Passes(w)
BY LoginListPasses, LoginKeepPasses, LoginTakeBackPasses, LoginReadLeftPasses, LoginRelistPasses, LoginEndPasses
   DEF Lists

LEMMA KeptPlain ==
  ASSUME NEW w, GoesKept(w), task[w].pc \notin ListPcs
  PROVE  Plain(w)
BY DEF GoesKept, Keeps, Plain

LEMMA NothingPlain ==
  ASSUME NEW w, Answer(w, Nothing)
  PROVE  Plain(w)
<1>1. PICK n : n = Idle(Nothing) /\ task' = [task EXCEPT ![w] = n]
  BY DEF Answer, Go
<1>2. n.pc = "idle"
  BY <1>1 DEF Idle
<1>3. QED
  BY <1>1, <1>2 DEF Plain, ListPcs

LEMMA OthersPlain ==
  ASSUME LifeInv, NEW w \in Worker, Work(w) \/ Start(w) \/ Vanish(w), ~Lists(w)
  PROVE  Plain(w) /\ (task[w].pc \in ListPcs => LoginRefused(w) \/ Vanish(w))
<1>1. CASE CloseStep(w)
  <2>1. task[w].pc \notin ListPcs
    BY <1>1, CloseKeeps DEF ClosePcs, ListPcs
  <2>2. QED
    BY <1>1, <2>1, CloseKeeps, KeptPlain
<1>2. CASE RevokeStep(w) \/ StartClose(w) \/ StartSweep(w) \/ StartRevoke(w)
  <2>1. task[w].pc \notin ListPcs
    BY <1>2 DEF RevokeStep, RevokeWrite, RevokeLate, RevokeList, StartClose, StartSweep, StartRevoke, At, ListPcs
  <2>2. QED
    BY <1>2, <2>1, OthersKeep, KeptPlain
<1>3. CASE LoginStamp(w) \/ LoginSave(w) \/ LoginAnswer(w)
  <2>1. task[w].pc \notin ListPcs
    BY <1>3 DEF LoginStamp, LoginSave, LoginAnswer, At, ListPcs
  <2>2. QED
    BY <1>3, <2>1, LoginKeeps, KeptPlain
<1>10. CASE LoginIssue(w)
  <2>1. PICK n, s : task' = [task EXCEPT ![w] = n] /\ n = [pc |-> "login.answer", s |-> s]
    BY <1>10 DEF LoginIssue, Go
  <2>2. n.pc = "login.answer" /\ task[w].pc \notin ListPcs
    BY <1>10, <2>1 DEF LoginIssue, At, ListPcs
  <2>3. QED
    BY <2>1, <2>2 DEF Plain, ListPcs
<1>4. CASE LoginRefused(w) \/ Vanish(w)
  BY <1>4, NothingPlain DEF LoginRefused, Vanish
<1>5. CASE LoginCheck(w)
  <2>1. PICK n, g, failing :
          /\ task' = [task EXCEPT ![w] = n]
          /\ \/ n = Closing("revoked", g, {}, failing, task[w].login)
             \/ n = [pc |-> "login.list", login |-> task[w].login]
    BY <1>5 DEF LoginCheck, Go
  <2>2. n.pc = "close.add" \/ n.pc = "login.list"
    BY <2>1 DEF Closing
  <2>3. QED
    BY <1>5, <2>1, <2>2 DEF Plain, LoginCheck, At, ListPcs
<1>6. CASE UseStep(w)
  <2>1. task[w].pc \notin ListPcs
    BY <1>6, UseTurns DEF UsePcs, LivePcs, RaisePcs, ListPcs
  <2>2. PICK n : task' = [task EXCEPT ![w] = n] /\ n.pc \in {"idle"} \cup UsePcs
    BY <1>6, UseTurns DEF Turns, Turned
  <2>3. QED
    BY <2>1, <2>2 DEF Plain, UsePcs, LivePcs, RaisePcs, ListPcs
<1>7. ASSUME NEW use, StartUse(w, use) PROVE Plain(w) /\ task[w].pc \notin ListPcs
  <2>1. PICK s, n :
       /\ task' = [task EXCEPT ![w] = n]
       /\ \/ n = Idle(Nothing)
          \/ n = [pc |-> "live.read", for |-> use, s |-> s, h |-> index[s], found |-> Gone, again |-> FALSE]
    BY <1>7 DEF StartUse, Answer, Go
  <2>2. n.pc \in {"idle", "live.read"}
    BY <2>1 DEF Idle
  <2>3. QED
    BY <1>7, <2>1, <2>2 DEF Plain, StartUse, At, ListPcs
<1>8. CASE StartLogin(w)
  <2>1. PICK n, g, failing, login :
          /\ task' = [task EXCEPT ![w] = n]
          /\ \/ n = [pc |-> "login.stamp", login |-> login]
             \/ n = Closing("earlier", g, {}, failing, login)
    BY <1>8 DEF StartLogin, Go
  <2>2. n.pc = "login.stamp" \/ n.pc = "close.add"
    BY <2>1 DEF Closing
  <2>3. QED
    BY <1>8, <2>1, <2>2 DEF Plain, StartLogin, At, ListPcs
<1>9. QED
  BY <1>1, <1>2, <1>3, <1>4, <1>5, <1>6, <1>7, <1>8, <1>10 DEF Work, Start, LoginStep, Lists

LEMMA ListedGrows ==
  ASSUME LifeInv, [Next]_vars, \A w \in Worker : ~Lists(w), NEW s \in Subject
  PROVE  listed'[s] \subseteq listed[s]
<1>1. ASSUME NEW w \in Worker, CloseUnlist(w) PROVE listed'[s] \subseteq listed[s]
  <2>1. listed' = [listed EXCEPT ![Owner[task[w].h]] = @ \ {task[w].h}] \/ listed' = listed
    BY <1>1 DEF CloseUnlist
  <2>2. QED
    BY <2>1 DEF LifeInv, StateFine
<1>2. ASSUME NEW w \in Worker, Work(w), ~CloseUnlist(w), ~Lists(w)
      PROVE  listed' = listed
  BY <1>2 DEF Work, CloseStep, CloseThrows, CloseAdd, CloseAdvance, CloseMark, CloseRemark, Mark,
     ParticipantFinishes, ParticipantFails, PutOff, CloseFinish, CloseDone, LoginStep, LoginStamp, LoginSave,
     LoginCheck, Lists, LoginRefused, LoginIssue, LoginAnswer, UseStep, LiveRead, LiveEnd, LiveCheck,
     EnterIndex, RaiseIssue, RaiseRetire, RaiseUpdate, RevokeStep, RevokeWrite, RevokeLate, RevokeList
<1>3. ASSUME NEW w \in Worker, Start(w) \/ Vanish(w) PROVE listed' = listed
  BY <1>3 DEF Start, StartClose, StartSweep, StartLogin, StartUse, StartRevoke, Vanish
<1>4. ASSUME NEW g \in Handle, LifetimePasses(g) \/ StoreDrops(g) PROVE listed' = listed
  BY <1>4 DEF LifetimePasses, StoreDrops
<1>5. ASSUME NEW g \in Handle, ListingEnds(g) PROVE listed'[s] \subseteq listed[s]
  BY <1>5 DEF ListingEnds, LifeInv, StateFine
<1>6. QED
  BY <1>1, <1>2, <1>3, <1>4, <1>5 DEF Next, vars, sessionVars

(* The steps of one worker, or what passes beside them.                    *)
LEMMA OneSteps ==
  ASSUME [Next]_vars
  PROVE  \/ \E w \in Worker : (Work(w) \/ Start(w) \/ Vanish(w)) /\ Lists(w)
         \/ /\ \A w \in Worker : ~Lists(w)
            /\ task' = task \/ \E w \in Worker : Work(w) \/ Start(w) \/ Vanish(w)
<1>1. \A w \in Worker : Lists(w) => Work(w)
  BY DEF Lists, Work, LoginStep
<1>2. CASE \E w \in Worker : Lists(w)
  BY <1>1, <1>2
<1>3. ASSUME NEW h \in Handle, LifetimePasses(h) \/ StoreDrops(h) \/ ListingEnds(h) PROVE task' = task
  BY <1>3 DEF LifetimePasses, StoreDrops, ListingEnds
<1>4. CASE \A w \in Worker : ~Lists(w)
  BY <1>3, <1>4 DEF Next, vars, sessionVars
<1>5. QED
  BY <1>2, <1>4

LEMMA OwnSteps == LifeInv /\ OwnInv /\ [Next]_vars => OwnInv'
<1> SUFFICES ASSUME LifeInv, OwnInv, [Next]_vars PROVE OwnInv'
  OBVIOUS
<1>1. DOMAIN task = Worker
  BY DEF LifeInv
<1>2. ASSUME NEW w \in Worker, NEW n, task' = [task EXCEPT ![w] = n], OwnFine(n)
      PROVE  \A v \in Worker : OwnFine(task'[v])
  BY <1>1, <1>2 DEF OwnInv
<1>3. ASSUME NEW n, n.pc \notin ListPcs PROVE OwnFine(n)
  BY <1>3 DEF OwnFine, Out, ListPcs
<1>4. CASE \E w \in Worker : Lists(w)
  BY <1>2, <1>4, ListsPasses DEF Passes, OwnInv, OwnFine, Out
<1>5. CASE /\ \A w \in Worker : ~Lists(w)
           /\ task' = task \/ \E w \in Worker : Work(w) \/ Start(w) \/ Vanish(w)
  <2>1. \A v \in Worker : OwnFine(task'[v])
    <3>1. CASE task' = task
      BY <3>1 DEF OwnInv
    <3>2. CASE \E w \in Worker : Work(w) \/ Start(w) \/ Vanish(w)
      BY <1>2, <1>3, <1>5, <3>2, OthersPlain DEF Plain
    <3>3. QED
      BY <1>5, <3>1, <3>2
  <2>2. \A s \in Subject : \A h \in listed'[s] : Owner[h] = s
    BY <1>5, ListedGrows DEF OwnInv
  <2>3. QED
    BY <2>1, <2>2 DEF OwnInv, OwnFine, Out
<1>6. QED
  BY <1>4, <1>5, OneSteps

LEMMA OwnInits == Init => OwnInv
<1> SUFFICES ASSUME Init PROVE OwnInv
  OBVIOUS
<1>1. \A w \in Worker : task[w].pc = "idle"
  BY AtFirst DEF Idle
<1>2. \A s \in Subject : \A h \in listed[s] : Owner[h] = s
  BY DEF Init
<1>3. QED
  BY <1>1, <1>2 DEF OwnInv, OwnFine, Out


Covered(h) == h \in listed[Owner[h]] \cup closings \/ \E w \in Worker : Out(task[w], h)

LEMMA OutIs == \A h : BeingPushedOut(h) <=> \E w \in Worker : Out(task[w], h)
BY DEF BeingPushedOut, Out, At

(* An open session anyone may enter stays covered, but for the handle of   *)
(* the login that takes it back, which nobody may enter.                   *)
LEMMA CoverStays ==
  ASSUME LifeInv, OwnInv, [Next]_vars, load.vanish \cap (ListPcs \cup {"login.end"}) = {},
         NEW h \in Handle, record'[h].state = "open", h \notin over, Known(h), Covered(h),
         \A w \in Worker : ~Away(w, h)
  PROVE  Covered(h)'
<1>1. DOMAIN task = Worker /\ Owner[h] \in Subject
  BY LifecycleAssumption DEF LifeInv
<1>2. ~Ended(h)
  BY Forward DEF Ended
<1>3. h \in closings => h \in closings'
  BY <1>2, ClosingsLast
<1>4. (\E w \in Worker : Out(task'[w], h)) => Covered(h)'
  BY DEF Covered, Out
<1>5. CASE \E w \in Worker : Lists(w)
  <2>1. PICK w \in Worker : Passes(w) /\ ~Away(w, h)
    BY <1>5, ListsPasses
  <2>2. PICK n : task' = [task EXCEPT ![w] = n] /\ Covers(w, n)
    BY <2>1 DEF Passes
  <2>3. task'[w] = n /\ \A v \in Worker \ {w} : task'[v] = task[v]
    BY <1>1, <2>2
  <2>4. CASE Out(task[w], h) \/ h \in listed[Owner[h]]
    <3>1. h \in listed'[Owner[h]] \cup closings' \/ Out(n, h)
      BY <2>1, <2>2, <2>4 DEF Covers
    <3>2. Out(n, h) => \E v \in Worker : Out(task'[v], h)
      BY <2>3
    <3>3. QED
      BY <1>4, <3>1, <3>2 DEF Covered
  <2>5. CASE \E v \in Worker \ {w} : Out(task[v], h)
    <3>1. \E v \in Worker : Out(task'[v], h)
      BY <2>3, <2>5
    <3>2. QED
      BY <1>4, <3>1
  <2>6. QED
    BY <1>3, <2>4, <2>5 DEF Covered
<1>6. CASE /\ \A w \in Worker : ~Lists(w)
           /\ task' = task \/ \E w \in Worker : Work(w) \/ Start(w) \/ Vanish(w)
  <2>1. h \in listed[Owner[h]] => h \in listed'[Owner[h]]
    <3>1. \A w \in Worker : ~Unlists(w, h)
      BY <1>6 DEF Lists, Unlists
    <3>2. QED
      BY <1>1, <1>2, <3>1, ListedLasts
  <2>2. ASSUME NEW v \in Worker, Out(task[v], h) PROVE Covered(h)'
    <3>1. task[v].pc \in ListPcs /\ task[v].pc \notin load.vanish
      BY <2>2 DEF Out, ListPcs
    <3>2. ~Vanish(v)
      BY <3>1 DEF Vanish
    <3>3. ~LoginRefused(v)
      BY <2>2 DEF LoginRefused, Out, At
    <3>4. CASE task' = task
      BY <1>4, <2>2, <3>4
    <3>5. CASE \E w \in Worker : Work(w) \/ Start(w) \/ Vanish(w)
      <4>1. PICK w \in Worker : Work(w) \/ Start(w) \/ Vanish(w)
        BY <3>5
      <4>2. w # v
        BY <1>6, <3>1, <3>2, <3>3, <4>1, OthersPlain
      <4>3. task'[v] = task[v]
        BY <1>1, <1>6, <4>1, <4>2, OthersPlain DEF Plain
      <4>4. QED
        BY <1>4, <2>2, <4>3
    <3>6. QED
      BY <1>6, <3>4, <3>5
  <2>3. QED
    BY <1>3, <2>1, <2>2 DEF Covered
<1>7. QED
  BY <1>5, <1>6, OneSteps

LEMMA CoverSteps == LifeInv /\ OwnInv /\ CoverInv /\ [Next]_vars => CoverInv'
<1> SUFFICES ASSUME LifeInv, OwnInv, CoverInv, [Next]_vars,
                    (load.vanish \cap {"login.keep", "login.putback", "login.relist", "login.end"} = {})',
                    NEW h \in (Handle \ over)', record'[h].state = "open", Entered(h)'
             PROVE  Covered(h)'
  BY DEF CoverInv, Covered, BeingPushedOut, Out, At
<1>1. load' = load
  BY DEF Next, vars
<1>2. load.vanish \cap (ListPcs \cup {"login.end"}) = {}
  BY <1>1 DEF ListPcs
<1>3. h \in Handle /\ h \notin over
  BY OverLasts
<1>4. ASSUME NEW w \in Worker, LoginList(w), h = task[w].login.handle PROVE Covered(h)'
  BY <1>4, LoginListPasses DEF Covered
<1>5. CASE Entered(h)
  <2>1. Known(h) /\ record[h].state = "open"
    BY <1>3, <1>5, EnteredKnown, Forward
  <2>2. Covered(h)
    BY <1>1, <1>3, <1>5, <2>1, OutIs DEF CoverInv, Covered
  <2>3. ASSUME NEW w \in Worker, Away(w, h) PROVE FALSE
    <3>1. task[w].pc = "login.keep" /\ task[w].pc \in LoginPcs
      BY <2>3 DEF Away, LoginTakeBack, At, LoginPcs
    <3>2. Pends(task[w], h)
      BY <2>3, <3>1, LoginAt DEF Away
    <3>3. ~Issued(h) /\ \A v \in Worker : Pends(task[v], h) => v = w
      BY <3>2, PendingDrawn
    <3>4. Enters(task[w], h)
      BY <1>5, <3>3, EnteredIs DEF Enters
    <3>5. PICK n : /\ task' = [task EXCEPT ![w] = n]
                   /\ n.pc = "login.putback"
      <4>1. PICK n : /\ n = [pc |-> "login.putback", login |-> task[w].login, todo |-> task[w].out, ending |-> {}]
                     /\ task' = [task EXCEPT ![w] = n]
        BY <2>3 DEF Away, LoginTakeBack, Go
      <4>2. n.pc = "login.putback"
        BY <4>1
      <4>3. QED
        BY <4>1, <4>2
    <3>6. index' = index
      BY <2>3 DEF Away, LoginTakeBack, cookieVars
    <3>7. DOMAIN task' = Worker /\ task'[w] = n /\ \A v \in Worker \ {w} : task'[v] = task[v]
      BY <3>5 DEF LifeInv
    <3>8. ~Issued(h)'
      BY <3>3, <3>5, <3>6, <3>7 DEF Issued, UsePcs, LivePcs, RaisePcs
    <3>9. \A v \in Worker : ~Enters(task'[v], h)
      BY <3>3, <3>5, <3>7 DEF Enters, Checked, ClosePcs
    <3>10. QED
      BY <3>8, <3>9 DEF Entered, Enters, Pends, Checked, HasLogin, LoginOf
  <2>4. QED
    BY <1>2, <1>3, <2>1, <2>2, <2>3, CoverStays
<1>6. QED
  BY <1>3, <1>4, <1>5, EnteredBefore


LEMMA CoverInits == Init => CoverInv
<1> SUFFICES ASSUME Init, NEW h \in Handle, record[h].state = "open" PROVE h \in listed[Owner[h]]
  BY DEF CoverInv
<1>1. h \in load.before
  BY DEF Init, Gone
<1>2. Owner[h] \in Subject
  BY LifecycleAssumption
<1>3. QED
  BY <1>1, <1>2 DEF Init

LEMMA CoverAlways == Spec => [](LifeInv /\ OwnInv /\ CoverInv)
<1>1. Init => LifeInv /\ OwnInv /\ CoverInv
  BY LifeInits, OwnInits, CoverInits
<1>2. LifeInv /\ OwnInv /\ CoverInv /\ [Next]_vars => (LifeInv /\ OwnInv /\ CoverInv)'
  BY LifeSteps, OwnSteps, CoverSteps
<1>3. QED
  BY <1>1, <1>2, PTL DEF Spec

(* Where no host stops in the midst of listing and what cannot be listed   *)
(* again can be ended, every open session with a cookie is listed, kept as *)
(* a closing or in the hands of the login that pushed it out.              *)
THEOREM OpenAlwaysListed == Spec => []ListedOrClosing
<1>1. LifeInv /\ CoverInv => ListedOrClosing
  BY DEF CoverInv, ListedOrClosing, NoneOpenUnlisted, Enterable, Entered, Issued
<1>2. QED
  BY <1>1, CoverAlways, PTL


----------------------------------------------------------------------------
(* Where a listing has room for every session, it pushes none out.         *)
LEMMA RoomyList ==
  ASSUME LifeInv, Roomy, NEW w \in Worker, LoginList(w), NEW g, g = task[w].login.handle
  PROVE  /\ g \in Handle /\ g \in listed'[Owner[g]] /\ \A s \in Subject : listed[s] \subseteq listed'[s]
         /\ \E n : task' = [task EXCEPT ![w] = n] /\ n.pc = "login.issue"
<1>1. PICK t, s : t = task[w] /\ s = Owner[g]
  OBVIOUS
<1>2. t.pc = "login.list" /\ t.pc \in LoginPcs
  BY <1>1 DEF LoginList, At, LoginPcs
<1>3. g \in Handle /\ g \in load.handles /\ s \in Subject
  BY <1>1, <1>2, LoginAt, LifecycleAssumption
<1>4. PICK out \in OverCap(listed[s], g, load.cap) :
        /\ listed' = [listed EXCEPT ![s] = (@ \cup {g}) \ out]
        /\ Go(w, IF out = {} THEN [pc |-> "login.issue", login |-> t.login]
                 ELSE [pc |-> "login.keep", login |-> t.login, out |-> out, todo |-> out])
  BY <1>1 DEF LoginList
<1>5. listed[s] \cup {g} \subseteq load.handles
  BY <1>3 DEF LifeInv, StateFine
<1>6. /\ IsFiniteSet(listed[s] \cup {g}) /\ Cardinality(listed[s] \cup {g}) <= Cardinality(load.handles)
      /\ Cardinality(listed[s] \cup {g}) \in Nat /\ Cardinality(load.handles) \in Nat
  BY <1>5, FS_Subset, FS_CardinalityType DEF Roomy
<1>7. load.cap \in Nat
  BY LifecycleAssumption DEF LifeInv, StateFine
<1>8. out = {}
  <2>1. ~(Cardinality(listed[s] \cup {g}) - load.cap > 0)
    BY <1>6, <1>7 DEF Roomy
  <2>2. out \in SUBSET (listed[s] \ {g}) /\ Cardinality(out) = 0
    BY <2>1, <1>4 DEF OverCap
  <2>3. IsFiniteSet(out)
    <3>1. out \subseteq listed[s] \cup {g}
      BY <2>2
    <3>2. QED
      BY <1>6, <3>1, FS_Subset
  <2>4. QED
    BY <2>2, <2>3, FS_EmptySet
<1>9. \A r \in Subject : listed'[r] = IF r = s THEN listed[r] \cup {g} ELSE listed[r]
  BY <1>4, <1>8 DEF LifeInv, StateFine
<1>10. PICK n : n = [pc |-> "login.issue", login |-> t.login] /\ task' = [task EXCEPT ![w] = n]
  BY <1>4, <1>8 DEF Go
<1>11. n.pc = "login.issue"
  BY <1>10
<1>12. QED
  BY <1>1, <1>3, <1>9, <1>10, <1>11

LEMMA RoomyLists ==
  ASSUME LifeInv, Roomy, CompleteInv, NEW w \in Worker, Lists(w)
  PROVE  LoginList(w)
<1>1. task[w].pc \notin ListPcs
  BY DEF CompleteInv, ListPcs
<1>2. QED
  BY <1>1 DEF Lists, LoginKeep, LoginTakeBack, LoginReadLeft, LoginRelist, LoginEnd, At, ListPcs

LEMMA ListedStays ==
  ASSUME LifeInv, Roomy, CompleteInv, [Next]_vars, NEW h \in Handle, h \in listed[Owner[h]]
  PROVE  h \in listed'[Owner[h]] \/ Released(h)'
<1>1. Owner[h] \in Subject
  BY LifecycleAssumption
<1>2. ASSUME Ended(h) \/ h \in over PROVE Released(h)'
  BY <1>2, Forward, OverLasts DEF Ended, Released
<1>3. ASSUME NEW w \in Worker, Unlists(w, h) PROVE h \in listed'[Owner[h]]
  <2>1. Lists(w)
    BY <1>3 DEF Unlists, Lists
  <2>2. LoginList(w)
    BY <2>1, RoomyLists
  <2>3. QED
    BY <1>1, <2>2, RoomyList
<1>4. QED
  BY <1>1, <1>2, <1>3, ListedLasts

(* What is owed a close stays released, listed or ahead of its follower.   *)
LEMMA OwedLasts ==
  ASSUME LifeInv, Roomy, CompleteInv, [Next]_vars, NEW t, OwedFine(t)
  PROVE  OwedFine(t)'
<1>1. ASSUME NEW h, Known(h)
      PROVE  /\ Known(h)' /\ (Released(h) => Released(h)')
             /\ (h \in listed[Owner[h]] => h \in listed'[Owner[h]] \/ Released(h)')
  <2>1. h \in Handle
    BY <1>1 DEF Known
  <2>2. QED
    BY <1>1, <2>1, Forward, ReleasedLasts, ListedStays
<1>2. QED
  BY <1>1 DEF OwedFine

Owes(t) ==
  \/ t.pc = "revoke.list"
  \/ t.pc \in ClosePcs /\ t.for = "follow"
  \/ t.pc = "idle" /\ t.told.said = "complete"

OwesNone(w) == \E n : task' = [task EXCEPT ![w] = n] /\ ~Owes(n)

LEMMA NothingOwes ==
  ASSUME NEW w, Answer(w, Nothing)
  PROVE  OwesNone(w)
<1>1. PICK n : n = Idle(Nothing) /\ task' = [task EXCEPT ![w] = n]
  BY DEF Answer, Go
<1>2. n.pc = "idle" /\ n.told.said = "nothing"
  BY <1>1 DEF Idle, Nothing
<1>3. QED
  BY <1>1, <1>2 DEF OwesNone, Owes, ClosePcs

LEMMA OtherOwes ==
  ASSUME NEW w, NEW n, task' = [task EXCEPT ![w] = n],
         n.pc \in LoginPcs \cup UsePcs \cup {"revoke.write"} \/ (n.pc \in ClosePcs /\ n.for # "follow")
  PROVE  OwesNone(w)
BY DEF OwesNone, Owes, LoginPcs, ClosePcs, UsePcs, LivePcs, RaisePcs

(* Only revocations answer complete.                                       *)
LEMMA MostOweNone ==
  ASSUME LifeInv, NEW w \in Worker,
         \/ LoginStamp(w) \/ LoginSave(w) \/ LoginCheck(w) \/ LoginIssue(w) \/ LoginAnswer(w) \/ LoginRefused(w)
         \/ UseStep(w) \/ Start(w) \/ Vanish(w) \/ RevokeLate(w)
  PROVE  OwesNone(w)
<1>1. CASE LoginAnswer(w) \/ LoginRefused(w) \/ Vanish(w) \/ RevokeLate(w)
  BY <1>1, NothingOwes DEF LoginAnswer, LoginRefused, Vanish, RevokeLate
<1>0. CASE LoginIssue(w)
  <2>1. PICK n, s : task' = [task EXCEPT ![w] = n] /\ n = [pc |-> "login.answer", s |-> s]
    BY <1>0 DEF LoginIssue, Go
  <2>2. n.pc = "login.answer"
    BY <2>1
  <2>3. QED
    BY <2>1, <2>2 DEF OwesNone, Owes, ClosePcs
<1>2. CASE LoginStamp(w) \/ LoginSave(w)
  <2>1. PICK n, login, at : /\ task' = [task EXCEPT ![w] = n]
                            /\ \/ n = [pc |-> "login.save", login |-> login, openedAt |-> at]
                               \/ n = [pc |-> "login.check", login |-> login]
    BY <1>2 DEF LoginStamp, LoginSave, Go
  <2>2. n.pc \in {"login.save", "login.check"}
    BY <2>1
  <2>3. QED
    BY <2>1, <2>2, OtherOwes DEF LoginPcs
<1>3. CASE LoginCheck(w) \/ StartLogin(w)
  <2>1. PICK n, for, g, failing, login :
          /\ task' = [task EXCEPT ![w] = n]
          /\ \/ for \in {"revoked", "earlier"} /\ n = Closing(for, g, {}, failing, login)
             \/ n = [pc |-> "login.list", login |-> login]
             \/ n = [pc |-> "login.stamp", login |-> login]
    <3>1. CASE LoginCheck(w)
      BY <3>1 DEF LoginCheck, Go
    <3>2. CASE StartLogin(w)
      BY <3>2 DEF StartLogin, Go
    <3>3. QED
      BY <1>3, <3>1, <3>2
  <2>2. n.pc \in {"login.list", "login.stamp"} \/ (n.pc = "close.add" /\ n.for # "follow")
    BY <2>1 DEF Closing
  <2>3. QED
    BY <2>1, <2>2, OtherOwes DEF LoginPcs, ClosePcs
<1>4. CASE UseStep(w)
  <2>1. PICK n : task' = [task EXCEPT ![w] = n] /\ Turned(task[w], n)
    BY <1>4, UseTurns DEF Turns
  <2>2. QED
    BY <2>1 DEF Turned, OwesNone, Owes, UsePcs, LivePcs, RaisePcs, ClosePcs
<1>5. CASE StartClose(w) \/ StartSweep(w)
  <2>1. PICK n, for, g, rest, failing :
          \/ Answer(w, Nothing)
          \/ /\ task' = [task EXCEPT ![w] = n]
             /\ for \in {"request", "sweep"} /\ n = Closing(for, g, rest, failing, Nothing)
    <3>1. CASE StartClose(w)
      BY <3>1 DEF StartClose, Go
    <3>2. CASE StartSweep(w)
      BY <3>2 DEF StartSweep, Go
    <3>3. QED
      BY <1>5, <3>1, <3>2
  <2>2. ASSUME for \in {"request", "sweep"}, n = Closing(for, g, rest, failing, Nothing)
        PROVE  n.pc = "close.add" /\ n.for # "follow"
    BY <2>2 DEF Closing
  <2>3. QED
    BY <2>1, <2>2, NothingOwes, OtherOwes DEF ClosePcs
<1>6. CASE StartRevoke(w)
  <2>1. PICK n, s, deadline : /\ n = [pc |-> "revoke.write", subject |-> s, deadline |-> deadline]
                              /\ task' = [task EXCEPT ![w] = n]
    BY <1>6 DEF StartRevoke, Go
  <2>2. n.pc = "revoke.write"
    BY <2>1
  <2>3. QED
    BY <2>1, <2>2, OtherOwes
<1>7. ASSUME NEW use, StartUse(w, use) PROVE OwesNone(w)
  <2>1. PICK s, n :
       \/ Answer(w, Nothing)
       \/ /\ task' = [task EXCEPT ![w] = n]
          /\ n = [pc |-> "live.read", for |-> use, s |-> s, h |-> index[s], found |-> Gone, again |-> FALSE]
    BY <1>7 DEF StartUse, Go
  <2>2. n = [pc |-> "live.read", for |-> use, s |-> s, h |-> index[s], found |-> Gone, again |-> FALSE]
          => n.pc = "live.read"
    OBVIOUS
  <2>3. QED
    BY <2>1, <2>2, NothingOwes, OtherOwes DEF UsePcs, LivePcs
<1>8. QED
  BY <1>0, <1>1, <1>2, <1>3, <1>4, <1>5, <1>6, <1>7 DEF Start


(* What a step leaves a worker with is owed a close as it must be.         *)
OwedOn(w) == \E n : task' = [task EXCEPT ![w] = n] /\ OwedFine(n)'

LEMMA OwesNoneOn ==
  ASSUME NEW w, OwesNone(w)
  PROVE  OwedOn(w)
BY DEF OwesNone, OwedOn, Owes, OwedFine

(* What follows a close that closed is owed no more than before it; after  *)
(* one that did not, the revocation answers nothing.                       *)
LEMMA NextOwes ==
  ASSUME LifeInv, Roomy, CompleteInv, [Next]_vars, NEW w \in Worker, task[w].pc \in ClosePcs,
         NEW result, CloseNext(w, result), result = "closed" => Ended(task[w].h)
  PROVE  OwedOn(w)
<1>1. PICK t, failing : t = task[w] /\ failing = (t.failing \/ result # "closed")
  OBVIOUS
<1>2. t.pc \in ClosePcs /\ t.for \in {"request", "sweep", "follow", "pushed", "earlier", "revoked"}
  BY <1>1 DEF LifeInv, LifeFine
<1>3. CASE t.for \in {"request", "revoked"}
  BY <1>1, <1>3, NothingOwes, OwesNoneOn DEF CloseNext
<1>4. ASSUME NEW h, NEW n, n = Closing(t.for, h, t.rest \ {h}, failing, t.with)
      PROVE  n.pc \in ClosePcs /\ n.for = t.for /\ n.h = h /\ n.rest = t.rest \ {h} /\ n.failing = failing /\ n.with = t.with
  BY <1>4 DEF Closing, ClosePcs
<1>5. CASE t.for \in {"sweep", "pushed"} /\ t.rest # {}
  <2>1. PICK h \in t.rest : Go(w, Closing(t.for, h, t.rest \ {h}, failing, t.with))
    BY <1>1, <1>5 DEF CloseNext
  <2>2. PICK n : n = Closing(t.for, h, t.rest \ {h}, failing, t.with) /\ task' = [task EXCEPT ![w] = n]
    BY <2>1 DEF Go
  <2>3. n.pc \in ClosePcs /\ n.for # "follow"
    BY <1>4, <1>5, <2>2
  <2>4. QED
    BY <2>2, <2>3, OtherOwes, OwesNoneOn
<1>6. CASE (t.for = "pushed" /\ t.rest = {}) \/ t.for = "earlier"
  <2>1. PICK n : /\ task' = [task EXCEPT ![w] = n]
                 /\ n = [pc |-> "login.issue", login |-> t.with] \/ n = [pc |-> "login.stamp", login |-> t.with]
    BY <1>1, <1>6 DEF CloseNext, Go
  <2>2. n.pc \in LoginPcs
    BY <2>1 DEF LoginPcs
  <2>3. QED
    BY <2>1, <2>2, OtherOwes, OwesNoneOn
<1>7. CASE t.for = "sweep" /\ t.rest = {}
  BY <1>1, <1>7, NothingOwes, OwesNoneOn DEF CloseNext
<1>8. CASE t.for = "follow"
  <2>1. OwedFine(t)'
    BY <1>1, OwedLasts DEF CompleteInv
  <2>2. \A h \in t.with : Known(h)' /\ (t.failing \/ Released(h)' \/ h \in {t.h} \cup t.rest)
    BY <1>2, <1>8, <2>1 DEF OwedFine
  <2>3. ASSUME ~failing PROVE \A h \in t.with : Known(h)' /\ (Released(h)' \/ h \in t.rest)
    <3>1. ~t.failing /\ result = "closed"
      BY <1>1, <2>3
    <3>2. t.h \in Handle /\ Ended(t.h)
      BY <1>1, <1>2, <3>1, CloseAt
    <3>3. Released(t.h)'
      BY <3>2, Forward DEF Ended, Released
    <3>4. QED
      BY <2>2, <3>1, <3>3
  <2>4. CASE t.rest # {}
    <3>1. PICK h \in t.rest : Go(w, Closing(t.for, h, t.rest \ {h}, failing, t.with))
      BY <1>1, <1>8, <2>4 DEF CloseNext
    <3>2. PICK n : n = Closing(t.for, h, t.rest \ {h}, failing, t.with) /\ task' = [task EXCEPT ![w] = n]
      BY <3>1 DEF Go
    <3>3. n.pc \in ClosePcs /\ n.h = h /\ n.rest = t.rest \ {h} /\ n.failing = failing /\ n.with = t.with
      BY <1>4, <3>2
    <3>4. \A g \in n.with : Known(g)' /\ (n.failing \/ Released(g)' \/ g \in {n.h} \cup n.rest)
      BY <2>2, <2>3, <3>1, <3>3
    <3>5. OwedFine(n)'
      BY <3>3, <3>4 DEF OwedFine, ClosePcs
    <3>6. QED
      BY <3>2, <3>5 DEF OwedOn
  <2>5. CASE t.rest = {} /\ failing
    BY <1>1, <1>8, <2>5, NothingOwes, OwesNoneOn DEF CloseNext
  <2>6. CASE t.rest = {} /\ ~failing
    <3>1. Answer(w, [said |-> "complete", owed |-> t.with])
      BY <1>1, <1>8, <2>6 DEF CloseNext
    <3>2. PICK n : n = Idle([said |-> "complete", owed |-> t.with]) /\ task' = [task EXCEPT ![w] = n]
      BY <3>1 DEF Answer, Go
    <3>3. n.pc = "idle" /\ n.told.owed = t.with
      BY <3>2 DEF Idle
    <3>4. OwedFine(n)'
      BY <2>3, <2>6, <3>3 DEF OwedFine, ClosePcs
    <3>5. QED
      BY <3>2, <3>4 DEF OwedOn
  <2>7. QED
    BY <2>4, <2>5, <2>6
<1>9. QED
  BY <1>2, <1>3, <1>5, <1>6, <1>7, <1>8

LEMMA CloseOwed ==
  ASSUME LifeInv, Roomy, CompleteInv, [Next]_vars, NEW w \in Worker, CloseStep(w)
  PROVE  OwedOn(w)
<1>1. CloseGoesOn(w) /\ task[w].pc \in ClosePcs
  BY CloseGoes
<1>2. ASSUME NEW n, task' = [task EXCEPT ![w] = n], Onward(task[w], n) PROVE OwedOn(w)
  <2>1. PICK t : t = task[w]
    OBVIOUS
  <2>2. OwedFine(t)'
    BY <2>1, OwedLasts DEF CompleteInv
  <2>3. OwedFine(n)'
    BY <1>1, <1>2, <2>1, <2>2 DEF OwedFine, Onward, ClosePcs
  <2>4. QED
    BY <1>2, <2>3 DEF OwedOn
<1>3. CASE Thrown(w)
  BY <1>1, <1>3, NextOwes, NothingOwes, OwesNoneOn DEF Thrown
<1>4. QED
  BY <1>1, <1>2, <1>3, NextOwes DEF CloseGoesOn

(* A boundary's landing owes a close to what may be entered: all of it is  *)
(* listed, or a closing on its way.                                        *)
LEMMA RevokeOwed ==
  ASSUME LifeInv, Roomy, CompleteInv, [Next]_vars, NEW w \in Worker, RevokeWrite(w) \/ RevokeList(w)
  PROVE  OwedOn(w)
<1>1. PICK t : t = task[w]
  OBVIOUS
<1>2. CASE RevokeWrite(w)
  <2>1. PICK owed : owed = {h \in Enterable : Owner[h] = t.subject}
    OBVIOUS
  <2>2. PICK n : /\ n = [pc |-> "revoke.list", subject |-> t.subject, owed |-> owed]
                 /\ task' = [task EXCEPT ![w] = n]
    BY <1>1, <1>2, <2>1 DEF RevokeWrite, Go
  <2>3. n.pc = "revoke.list" /\ n.subject = t.subject /\ n.owed = owed
    BY <2>2
  <2>4. ASSUME NEW h \in owed
        PROVE  h \in Handle /\ Known(h) /\ Owner[h] = t.subject /\ (Released(h) \/ h \in listed[Owner[h]])
    <3>1. h \in Handle /\ Entered(h) /\ Owner[h] = t.subject
      BY <2>1 DEF Enterable, Entered, Issued
    <3>2. QED
      BY <3>1, EnteredKnown DEF CompleteInv
  <2>5. OwedFine(n)
    BY <2>3, <2>4 DEF OwedFine, ClosePcs
  <2>6. QED
    BY <2>2, <2>5, OwedLasts DEF OwedOn
<1>3. CASE RevokeList(w)
  <2>1. PICK members : members = listed[t.subject]
    OBVIOUS
  <2>2. t.pc = "revoke.list"
    BY <1>1, <1>3 DEF RevokeList, At
  <2>3. \A h \in t.owed : Known(h) /\ (Released(h) \/ h \in members)
    BY <1>1, <2>1, <2>2 DEF CompleteInv, OwedFine
  <2>4. CASE members = {}
    <3>1. PICK n : n = Idle([said |-> "complete", owed |-> t.owed]) /\ task' = [task EXCEPT ![w] = n]
      BY <1>1, <1>3, <2>1, <2>4 DEF RevokeList, Answer, Go
    <3>2. n.pc = "idle" /\ n.told.owed = t.owed
      BY <3>1 DEF Idle
    <3>3. OwedFine(n)
      BY <2>3, <2>4, <3>2 DEF OwedFine, ClosePcs
    <3>4. QED
      BY <3>1, <3>3, OwedLasts DEF OwedOn
  <2>5. CASE members # {}
    <3>1. PICK h \in members : Go(w, Closing("follow", h, members \ {h}, FALSE, t.owed))
      BY <1>1, <1>3, <2>1, <2>5 DEF RevokeList
    <3>2. PICK n, failing : /\ failing = FALSE /\ n = Closing("follow", h, members \ {h}, failing, t.owed)
                            /\ task' = [task EXCEPT ![w] = n]
      BY <3>1 DEF Go
    <3>3. n.pc = "close.add" /\ n.h = h /\ n.rest = members \ {h} /\ n.with = t.owed
      BY <3>2 DEF Closing
    <3>4. OwedFine(n)
      BY <2>3, <3>1, <3>3 DEF OwedFine
    <3>5. QED
      BY <3>2, <3>4, OwedLasts DEF OwedOn
  <2>6. QED
    BY <2>4, <2>5
<1>4. QED
  BY <1>2, <1>3


LEMMA AllOwed ==
  ASSUME LifeInv, Roomy, CompleteInv, [Next]_vars, NEW v \in Worker, NEW t, t = task'[v]
  PROVE  OwedFine(t)'
<1>1. ASSUME NEW w \in Worker, OwedOn(w) PROVE OwedFine(t)'
  <2>1. PICK n : task' = [task EXCEPT ![w] = n] /\ OwedFine(n)'
    BY <1>1 DEF OwedOn
  <2>2. t = IF v = w THEN n ELSE task[v]
    BY <2>1 DEF LifeInv
  <2>3. CASE v = w
    BY <2>1, <2>2, <2>3
  <2>4. CASE v # w
    BY <2>2, <2>4, OwedLasts DEF CompleteInv
  <2>5. QED
    BY <2>3, <2>4
<1>2. ASSUME NEW w \in Worker, Lists(w) PROVE OwedOn(w)
  <2>1. PICK n : task' = [task EXCEPT ![w] = n] /\ n.pc = "login.issue"
    BY <1>2, RoomyLists, RoomyList
  <2>2. QED
    BY <2>1, OtherOwes, OwesNoneOn DEF LoginPcs
<1>3. ASSUME NEW w \in Worker, Work(w), ~Lists(w) PROVE OwedOn(w)
  BY <1>3, CloseOwed, RevokeOwed, MostOweNone, OwesNoneOn DEF Work, LoginStep, RevokeStep, Lists
<1>4. ASSUME NEW w \in Worker, Start(w) \/ Vanish(w) PROVE OwedOn(w)
  BY <1>4, MostOweNone, OwesNoneOn
<1>5. CASE task' = task
  BY <1>5, OwedLasts DEF CompleteInv
<1>6. CASE \E w \in Worker : Work(w) \/ Start(w) \/ Vanish(w)
  BY <1>1, <1>2, <1>3, <1>4, <1>6
<1>7. QED
  BY <1>5, <1>6, OneSteps

LEMMA CompleteSteps == LifeInv /\ CompleteInv /\ [Next]_vars => CompleteInv'
<1> SUFFICES ASSUME LifeInv, CompleteInv, [Next]_vars, Roomy'
             PROVE  /\ \A v \in Worker : \A t : t = task'[v] =>
                         OwedFine(t)' /\ t.pc \notin {"login.keep", "login.putback", "login.relist"}
                    /\ \A h \in Handle : Entered(h)' => (Released(h) \/ h \in listed[Owner[h]])'
  BY DEF CompleteInv, OwedFine
<1>1. Roomy
  BY DEF Next, vars, Roomy
<1>2. \A v \in Worker : task[v].pc \notin ListPcs
  BY <1>1 DEF CompleteInv, ListPcs
<1>3. ASSUME NEW v \in Worker, NEW t, t = task'[v]
      PROVE  t.pc \notin ListPcs
  <2>1. ASSUME NEW w \in Worker, Plain(w) PROVE t.pc \notin ListPcs
    BY <1>2, <1>3, <2>1 DEF Plain, LifeInv
  <2>2. ASSUME NEW w \in Worker, Lists(w) PROVE Plain(w)
    <3>1. PICK n : task' = [task EXCEPT ![w] = n] /\ n.pc = "login.issue"
      BY <1>1, <2>2, RoomyLists, RoomyList
    <3>2. QED
      BY <3>1 DEF Plain, ListPcs
  <2>3. CASE task' = task
    BY <1>2, <1>3, <2>3
  <2>4. CASE \E w \in Worker : Work(w) \/ Start(w) \/ Vanish(w)
    BY <2>1, <2>2, <2>4, OthersPlain
  <2>5. QED
    BY <2>3, <2>4, OneSteps
<1>4. ASSUME NEW h \in Handle, Entered(h)' PROVE (Released(h) \/ h \in listed[Owner[h]])'
  <2>1. CASE Entered(h)
    <3>1. Known(h)
      BY <2>1, EnteredKnown
    <3>2. Released(h) \/ h \in listed[Owner[h]]
      BY <1>1, <2>1 DEF CompleteInv
    <3>3. QED
      BY <1>1, <3>1, <3>2, ReleasedLasts, ListedStays
  <2>2. ASSUME NEW w \in Worker, LoginList(w), h = task[w].login.handle
        PROVE  h \in listed'[Owner[h]]
    BY <1>1, <2>2, RoomyList
  <2>3. QED
    BY <1>4, <2>1, <2>2, EnteredBefore
<1>5. QED
  BY <1>1, <1>3, <1>4, AllOwed DEF ListPcs

LEMMA CompleteInits == Init => CompleteInv
<1> SUFFICES ASSUME Init PROVE CompleteInv
  OBVIOUS
<1>1. \A w \in Worker : task[w].pc = "idle" /\ task[w].told.said = "nothing"
  BY AtFirst DEF Idle, Nothing
<1>2. ASSUME NEW h \in Handle PROVE Released(h) \/ h \in listed[Owner[h]]
  <2>1. CASE h \in load.before
    <3>1. Owner[h] \in Subject
      BY LifecycleAssumption
    <3>2. QED
      BY <2>1, <3>1 DEF Init
  <2>2. CASE h \notin load.before
    <3>1. record[h] = Gone
      BY <2>2 DEF Init
    <3>2. QED
      BY <3>1 DEF Gone, Released
  <2>3. QED
    BY <2>1, <2>2
<1>3. QED
  BY <1>1, <1>2 DEF CompleteInv, OwedFine, ClosePcs

LEMMA CompleteAlways == Spec => [](LifeInv /\ CompleteInv)
<1>1. Init => LifeInv /\ CompleteInv
  BY LifeInits, CompleteInits
<1>2. LifeInv /\ CompleteInv /\ [Next]_vars => (LifeInv /\ CompleteInv)'
  BY LifeSteps, CompleteSteps
<1>3. QED
  BY <1>1, <1>2, PTL DEF Spec

(* Where a listing has room for every session, a revocation that answers   *)
(* complete left none of the sessions open with a cookie when its boundary *)
(* landed: each is closed or a closing on its way.  Where a listing pushes *)
(* sessions out, a login that puts one back may have it listed after the   *)
(* revocation read the listing: session_putback_missed.                    *)
THEOREM CompleteAlwaysCloses == Spec => [](Roomy => CompleteClosesAll)
<1>1. LifeInv /\ CompleteInv => (Roomy => CompleteClosesAll)
  BY DEF CompleteInv, OwedFine, Released, CompleteClosesAll, At
<1>2. QED
  BY <1>1, CompleteAlways, PTL
=============================================================================
