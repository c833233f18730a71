-------------------------- MODULE SessionLifecycle -------------------------
(***************************************************************************)
(* Sessions from login to end, as modules/identity/session-lifecycle keeps *)
(* them: their records, the cookies that open them, the list of closings   *)
(* to finish and each subject's listing, changed by requests, sweeps and   *)
(* revocations that run at the same time on several hosts.                 *)
(*                                                                         *)
(* Each call to a store is one step, atomic and kept by failovers: what    *)
(* Records shows of one record.  Between two steps of a worker any other   *)
(* worker may take its own.  A worker may vanish between any two steps     *)
(* (Vanish): its host crashed, or a store was unavailable and the call     *)
(* threw, with or without the effect of the step before it.                *)
(***************************************************************************)
EXTENDS SubjectRevocation, KeyedSets

CONSTANTS
  Handle,       \* sessions
  Secret,       \* what session cookies carry
  Participant,  \* who a closing may call before the session is closed
  Worker,       \* requests and sweeps under way at once
  Owner,        \* [Handle -> Subject]: whose login a handle would be
  Loads         \* what may go on: see `load`

(* What the index holds where a secret opens no session.                   *)
NoHandle == "no handle"

ASSUME LifecycleAssumption ==
  /\ Owner \in [Handle -> Subject] /\ NoHandle \notin Handle
  /\ \A l \in Loads : l.before \subseteq l.handles /\ l.handles \subseteq Handle
                    /\ l.participants \subseteq Participant /\ l.cap \in Nat \ {0}

VARIABLES
  load,      \* what goes on: the operations workers take up, the sessions open before and
             \* those a login may draw, who closings call; it never changes
  record,    \* each session's record, or Gone
  over,      \* sessions whose lifetime has passed
  closings,  \* the closings to finish
  listed,    \* each subject's listed sessions
  index,     \* the session each secret opens, or NoHandle
  drawn,     \* handles and secrets drawn so far: 32 random bytes each, drawn once
  carried,   \* secrets a response carried out: what a request's cookie may hold
  first,     \* ghost: the secrets issued at a login
  finished,  \* ghost: participants that finished for each session
  task       \* what each worker is doing, or its last answer

cookieVars == <<index, drawn, carried, first>>
sessionVars == <<record, over, closings, listed, cookieVars, finished, task>>
vars == <<load, revocationVars, sessionVars>>

Gone == [state |-> "gone"]
Idle(answer) == [pc |-> "idle", told |-> answer]

(* An answer no property tells from another: closed, absent, unavailable.. *)
Nothing == [said |-> "nothing"]

(* The states of a record that holds a whole session (record.ts Full).     *)
Full == {"open", "closing", "closed"}

Opening(at, proven) ==
  [state |-> "open", openedAt |-> at, proven |-> proven, raised |-> FALSE]

Init ==
  /\ load \in Loads
  /\ RevocationInit
  /\ record = [h \in Handle |-> IF h \in load.before THEN Opening(0, 0) ELSE Gone]
  /\ over = {}
  /\ closings = {}
  /\ listed = [s \in Subject |-> {h \in load.before : Owner[h] = s}]
  /\ \E cookie \in [load.before -> Secret] :
       /\ \A g, h \in load.before : cookie[g] = cookie[h] => g = h
       /\ first = {cookie[h] : h \in load.before}
       /\ carried = first
       /\ drawn = load.before \cup first
       /\ index = [s \in Secret |->
            IF s \in first THEN CHOOSE h \in load.before : cookie[h] = s ELSE NoHandle]
  /\ finished = [h \in Handle |-> {}]
  /\ task = [w \in Worker |-> Idle(Nothing)]

----------------------------------------------------------------------------
(* Steps of a worker.                                                      *)

At(w, pc) == task[w].pc = pc

Go(w, next) == task' = [task EXCEPT ![w] = next]

Answer(w, answer) == Go(w, Idle(answer))

(* A close is called by an operation, which goes on when it returns: `for` *)
(* says which, `rest` the sessions it closes after this one, `failing`     *)
(* whether one it closed failed or is pending, `with` what it goes on with. *)
Closing(for, h, rest, failing, with) ==
  [pc |-> "close.add", for |-> for, h |-> h, rest |-> rest, failing |-> failing, with |-> with]

(* Its participants still to call, and whether one failed.                 *)
Calling(t, todo, missed) ==
  [pc |-> "close.call", for |-> t.for, h |-> t.h, rest |-> t.rest, failing |-> t.failing,
   with |-> t.with, todo |-> todo, missed |-> missed]

(* Broken: a listed session whose close failed does not count.             *)
CloseNextUncounted(w, result) ==
  LET t == task[w] IN
  IF t.for # "request" /\ t.rest # {}
  THEN \E h \in t.rest : Go(w, Closing(t.for, h, t.rest \ {h}, t.failing, t.with))
  ELSE Answer(w, IF t.for = "follow" THEN [said |-> "complete", owed |-> t.with] ELSE Nothing)

(* What follows a close, or one it gave up: `result` is closed, pending or *)
(* failed.                                                                 *)
CloseNext(w, result) ==
  LET t == task[w]
      failing == t.failing \/ result # "closed"
  IN  CASE t.for = "request" -> Answer(w, Nothing)
        [] t.for \in {"sweep", "follow", "pushed"} /\ t.rest # {} ->
             \E h \in t.rest : Go(w, Closing(t.for, h, t.rest \ {h}, failing, t.with))
        [] t.for = "sweep" /\ t.rest = {} -> Answer(w, Nothing)
        [] t.for = "follow" /\ t.rest = {} ->
             Answer(w, IF failing THEN Nothing ELSE [said |-> "complete", owed |-> t.with])
        [] t.for = "pushed" /\ t.rest = {} ->
             Go(w, [pc |-> "login.issue", login |-> t.with])
        [] t.for = "earlier" -> Go(w, [pc |-> "login.stamp", login |-> t.with])
        [] t.for = "revoked" -> Answer(w, Nothing)

(* A close that throws: caught where one close of several must not hold up *)
(* the rest, else it fails the operation that called it.                   *)
Thrown(w) ==
  IF task[w].for \in {"sweep", "follow", "pushed"} THEN CloseNext(w, "failed")
  ELSE Answer(w, Nothing)

CloseThrows(w) ==
  /\ task[w].pc \in {"close.add", "close.advance", "close.mark", "close.call", "close.remark",
                     "close.unlist", "close.done"}
  /\ Thrown(w)
  /\ UNCHANGED <<revocationVars, record, over, closings, listed, cookieVars, finished>>

(* Added to the closings first, so a closing that stops halfway is found.  *)
CloseAdd(w) ==
  /\ At(w, "close.add")
  /\ closings' = closings \cup {task[w].h}
  /\ Go(w, [task[w] EXCEPT !.pc = "close.advance"])
  /\ UNCHANGED <<revocationVars, record, over, listed, cookieVars, finished>>

(* advance: forward to closing, never back; a missing record is marked.    *)
CloseAdvance(w) ==
  LET h == task[w].h
      was == record[h]
  IN  /\ At(w, "close.advance")
      /\ CASE was.state = "gone" ->
                /\ Go(w, [task[w] EXCEPT !.pc = "close.mark"])
                /\ UNCHANGED record
           [] was.state \in {"open", "closing"} ->
                /\ record' = [record EXCEPT ![h].state = "closing"]
                /\ Go(w, Calling(task[w], load.participants, FALSE))
           [] was.state = "closed" ->
                /\ Go(w, [task[w] EXCEPT !.pc = "close.unlist"])
                /\ UNCHANGED record
           [] was.state = "mark" ->
                /\ Go(w, [task[w] EXCEPT !.pc = "close.done"])
                /\ UNCHANGED record
      /\ UNCHANGED <<revocationVars, over, closings, listed, cookieVars, finished>>

(* The mark of a session that has no record; a record placed meanwhile,    *)
(* the mark of another close say, is not overwritten, and the close throws. *)
Mark(w, from, next) ==
  LET h == task[w].h IN
  /\ At(w, from)
  /\ \/ /\ record[h].state = "gone"
        /\ record' = [record EXCEPT ![h] = [state |-> "mark"]]
        /\ Go(w, [task[w] EXCEPT !.pc = next])
     \/ /\ record[h].state # "gone"
        /\ Thrown(w)
        /\ UNCHANGED record
  /\ UNCHANGED <<revocationVars, over, closings, listed, cookieVars, finished>>

CloseMark(w) == Mark(w, "close.mark", "close.done")

(* The participants are called one at a time; one that fails does not stop *)
(* the rest.                                                               *)
ParticipantFinishes(w) ==
  /\ At(w, "close.call")
  /\ \E p \in task[w].todo :
       /\ finished' = [finished EXCEPT ![task[w].h] = @ \cup {p}]
       /\ Go(w, Calling(task[w], task[w].todo \ {p}, task[w].missed))
  /\ UNCHANGED <<revocationVars, record, over, closings, listed, cookieVars>>

ParticipantFails(w) ==
  /\ At(w, "close.call")
  /\ \E p \in task[w].todo : Go(w, Calling(task[w], task[w].todo \ {p}, TRUE))
  /\ UNCHANGED <<revocationVars, record, over, closings, listed, cookieVars, finished>>

(* Broken: a closing put off is taken off the list.                        *)
PutOffDone(w) ==
  /\ At(w, "close.call") /\ task[w].todo = {} /\ task[w].missed
  /\ closings' = closings \ {task[w].h}
  /\ CloseNext(w, "pending")
  /\ UNCHANGED <<revocationVars, record, over, listed, cookieVars, finished>>

(* One failed: the closing is put off in its record and left to the sweep. *)
PutOff(w) ==
  /\ At(w, "close.call") /\ task[w].todo = {} /\ task[w].missed
  /\ CloseNext(w, "pending")
  /\ UNCHANGED <<revocationVars, record, over, closings, listed, cookieVars, finished>>

(* Past its participants, a close goes on as one that found it closed.     *)
Past(w, pc) ==
  LET t == task[w] IN
  [Closing(t.for, t.h, t.rest, t.failing, t.with) EXCEPT !.pc = pc]

(* Broken: closed whoever failed.                                          *)
CloseFinishAnyway(w) ==
  /\ At(w, "close.call") /\ task[w].todo = {}
  /\ record' = [record EXCEPT ![task[w].h].state = "closed"]
  /\ Go(w, Past(w, "close.unlist"))
  /\ UNCHANGED <<revocationVars, over, closings, listed, cookieVars, finished>>

(* All finished: forward to closed.  Another close may have got there      *)
(* first, and its record may be gone since: that is marked again.          *)
CloseFinish(w) ==
  LET h == task[w].h IN
  /\ At(w, "close.call") /\ task[w].todo = {} /\ ~task[w].missed
  /\ IF record[h].state = "gone" THEN Go(w, Past(w, "close.remark")) /\ UNCHANGED record
     ELSE /\ Go(w, Past(w, "close.unlist"))
          /\ record' = [record EXCEPT ![h].state = IF @ = "mark" THEN @ ELSE "closed"]
  /\ UNCHANGED <<revocationVars, over, closings, listed, cookieVars, finished>>

CloseRemark(w) == Mark(w, "close.remark", "close.unlist")

(* A failed removal from the listing is passed: it costs a later close.    *)
CloseUnlist(w) ==
  LET h == task[w].h IN
  /\ At(w, "close.unlist")
  /\ \/ listed' = [listed EXCEPT ![Owner[h]] = @ \ {h}]
     \/ UNCHANGED listed
  /\ Go(w, [task[w] EXCEPT !.pc = "close.done"])
  /\ UNCHANGED <<revocationVars, record, over, closings, cookieVars, finished>>

CloseDone(w) ==
  /\ At(w, "close.done")
  /\ closings' = closings \ {task[w].h}
  /\ CloseNext(w, "closed")
  /\ UNCHANGED <<revocationVars, record, over, listed, cookieVars, finished>>

CloseStep(w) ==
  \/ CloseThrows(w)
  \/ CloseAdd(w)
  \/ CloseAdvance(w)
  \/ CloseMark(w)
  \/ ParticipantFinishes(w)
  \/ ParticipantFails(w)
  \/ PutOff(w)
  \/ CloseFinish(w)
  \/ CloseRemark(w)
  \/ CloseUnlist(w)
  \/ CloseDone(w)

----------------------------------------------------------------------------
(* closeRequest: the session the request's cookie opens.                   *)
StartClose(w) ==
  /\ "close" \in load.ops /\ At(w, "idle")
  /\ \E s \in carried :
       IF index[s] = NoHandle THEN Answer(w, Nothing)
       ELSE Go(w, Closing("request", index[s], {}, FALSE, Nothing))
  /\ UNCHANGED <<revocationVars, record, over, closings, listed, cookieVars, finished>>

(* Broken: a sweep passes what did not get to closing.                     *)
StartSweepClosing(w) ==
  /\ "sweep" \in load.ops /\ At(w, "idle")
  /\ \E due \in SUBSET {h \in closings : record[h].state = "closing"} : \E h \in due :
       Go(w, Closing("sweep", h, due \ {h}, FALSE, Nothing))
  /\ UNCHANGED <<revocationVars, record, over, closings, listed, cookieVars, finished>>

(* Every host sweeps on its interval: each kept closing that is due.  When *)
(* one is due again is a time at most an hour off; here it is any time.    *)
StartSweep(w) ==
  /\ "sweep" \in load.ops /\ At(w, "idle")
  /\ \E due \in SUBSET closings : \E h \in due :
       Go(w, Closing("sweep", h, due \ {h}, FALSE, Nothing))
  /\ UNCHANGED <<revocationVars, record, over, closings, listed, cookieVars, finished>>

----------------------------------------------------------------------------
(* Bound: a secret is left for every worker, so issuing one never blocks.  *)
SecretsLeft == Cardinality(Secret \ drawn) >= Cardinality(Worker)

(* Logging in.  The proof began at `proven`; a login may carry a cookie.   *)
StartLogin(w) ==
  /\ "login" \in load.ops /\ At(w, "idle") /\ SecretsLeft
  /\ \E h \in load.handles \ drawn :
       LET login == [handle |-> h, proven |-> now] IN
       /\ drawn' = drawn \cup {h}
       /\ \/ Go(w, [pc |-> "login.stamp", login |-> login])
          \/ \E s \in carried :
               /\ index[s] # NoHandle
               /\ Go(w, Closing("earlier", index[s], {}, FALSE, login))
  /\ UNCHANGED <<revocationVars, record, over, closings, listed, index, carried, first, finished>>

(* Broken: the opening is the time its write ends at the latest.           *)
LoginStampAhead(w) ==
  /\ At(w, "login.stamp")
  /\ Go(w, [pc |-> "login.save", login |-> task[w].login, openedAt |-> WriteDeadline])
  /\ UNCHANGED <<revocationVars, record, over, closings, listed, cookieVars, finished>>

(* The opening is the time read before the record is saved.                *)
LoginStamp(w) ==
  /\ At(w, "login.stamp")
  /\ Go(w, [pc |-> "login.save", login |-> task[w].login, openedAt |-> now])
  /\ UNCHANGED <<revocationVars, record, over, closings, listed, cookieVars, finished>>

LoginSave(w) ==
  LET login == task[w].login IN
  /\ At(w, "login.save")
  /\ record[login.handle] = Gone
  /\ record' = [record EXCEPT ![login.handle] = Opening(task[w].openedAt, login.proven)]
  /\ Go(w, [pc |-> "login.check", login |-> login])
  /\ UNCHANGED <<revocationVars, over, closings, listed, cookieVars, finished>>

(* Once saved: a boundary landing after this read is later than the opening. *)
LoginCheck(w) ==
  LET login == task[w].login IN
  /\ At(w, "login.check")
  /\ IF Revoked(Owner[login.handle], login.proven)
     THEN Go(w, Closing("revoked", login.handle, {}, FALSE, login))
     ELSE Go(w, [pc |-> "login.list", login |-> login])
  /\ UNCHANGED <<revocationVars, record, over, closings, listed, cookieVars, finished>>

(* Listing pushes out what is over the cap.                                *)
LoginList(w) ==
  LET login == task[w].login
      s == Owner[login.handle]
  IN  /\ At(w, "login.list")
      /\ \E out \in OverCap(listed[s], login.handle, load.cap) :
           /\ listed' = [listed EXCEPT ![s] = (@ \cup {login.handle}) \ out]
           /\ Go(w, IF out = {} THEN [pc |-> "login.issue", login |-> login]
                    ELSE [pc |-> "login.keep", login |-> login, out |-> out, todo |-> out])
      /\ UNCHANGED <<revocationVars, record, over, closings, cookieVars, finished>>

(* Each pushed-out session is kept as a closing before any is closed.      *)
LoginKeep(w) ==
  /\ At(w, "login.keep")
  /\ \E h \in task[w].todo :
       /\ closings' = closings \cup {h}
       /\ IF task[w].todo = {h}
          THEN \E g \in task[w].out : Go(w, Closing("pushed", g, task[w].out \ {g}, FALSE, task[w].login))
          ELSE Go(w, [task[w] EXCEPT !.todo = @ \ {h}])
  /\ UNCHANGED <<revocationVars, record, over, listed, cookieVars, finished>>

(* The closings refuse one: the opening is taken off the listing, if it    *)
(* can be, and what it pushed out is put back.                             *)
LoginTakeBack(w) ==
  LET login == task[w].login IN
  /\ At(w, "login.keep")
  /\ \/ listed' = [listed EXCEPT ![Owner[login.handle]] = @ \ {login.handle}]
     \/ UNCHANGED listed
  /\ Go(w, [pc |-> "login.putback", login |-> login, todo |-> task[w].out, ending |-> {}])
  /\ UNCHANGED <<revocationVars, record, over, closings, cookieVars, finished>>

(* One at a time: what the session has left is read first, and one that    *)
(* has nothing left is not listed again; one that cannot be read is ended. *)
LoginReadLeft(w) ==
  /\ At(w, "login.putback") /\ task[w].ending = {}
  /\ \E h \in task[w].todo :
       LET t == [task[w] EXCEPT !.todo = @ \ {h}]
           none == h \in over \/ record[h].state \notin {"open", "closing"}
       IN  \/ Go(w, IF none THEN t ELSE [pc |-> "login.relist", login |-> t.login, todo |-> t.todo, member |-> h])
           \/ Go(w, [t EXCEPT !.ending = {h}])
  /\ UNCHANGED <<revocationVars, record, over, closings, listed, cookieVars, finished>>

(* Broken: one that cannot be listed is left.                              *)
LoginRelistLeft(w) ==
  LET t == task[w] IN
  /\ At(w, "login.relist")
  /\ Go(w, [pc |-> "login.putback", login |-> t.login, todo |-> t.todo, ending |-> {}])
  /\ UNCHANGED <<revocationVars, record, over, closings, listed, cookieVars, finished>>

(* Listed again, or ended where that fails, as is what the listing pushes  *)
(* out to take it back.                                                    *)
LoginRelist(w) ==
  LET t == task[w]
      s == Owner[t.login.handle]
      back(ending) == [pc |-> "login.putback", login |-> t.login, todo |-> t.todo, ending |-> ending]
  IN  /\ At(w, "login.relist")
      /\ \/ \E out \in OverCap(listed[s], t.member, load.cap) :
              /\ listed' = [listed EXCEPT ![s] = (@ \cup {t.member}) \ out]
              /\ Go(w, back(out))
         \/ Go(w, back({t.member})) /\ UNCHANGED listed
      /\ UNCHANGED <<revocationVars, record, over, closings, cookieVars, finished>>

(* endOpen: an open record closed where it is, no participant called.      *)
EndOpen(h) ==
  record' = IF record[h].state = "open" THEN [record EXCEPT ![h].state = "closed"] ELSE record

(* One that cannot even be ended is lost, and counted in the log.          *)
LoginEnd(w) ==
  /\ At(w, "login.putback") /\ task[w].ending # {}
  /\ \E h \in task[w].ending :
       /\ EndOpen(h) \/ ("login.end" \in load.vanish /\ UNCHANGED record)
       /\ Go(w, [task[w] EXCEPT !.ending = @ \ {h}])
  /\ UNCHANGED <<revocationVars, over, closings, listed, cookieVars, finished>>

LoginRefused(w) ==
  /\ At(w, "login.putback") /\ task[w].ending = {} /\ task[w].todo = {}
  /\ Answer(w, Nothing)
  /\ UNCHANGED <<revocationVars, record, over, closings, listed, cookieVars, finished>>

(* The cookie comes last: its secret is saved, then a response carries it. *)
LoginIssue(w) ==
  /\ At(w, "login.issue")
  /\ \E s \in Secret \ drawn :
       /\ drawn' = drawn \cup {s}
       /\ first' = first \cup {s}
       /\ index' = [index EXCEPT ![s] = task[w].login.handle]
       /\ Go(w, [pc |-> "login.answer", s |-> s])
  /\ UNCHANGED <<revocationVars, record, over, closings, listed, carried, finished>>

LoginAnswer(w) ==
  /\ At(w, "login.answer")
  /\ carried' = carried \cup {task[w].s}
  /\ Answer(w, Nothing)
  /\ UNCHANGED <<revocationVars, record, over, closings, listed, index, drawn, first, finished>>

LoginStep(w) ==
  \/ LoginStamp(w)
  \/ LoginSave(w)
  \/ LoginCheck(w)
  \/ LoginList(w)
  \/ LoginKeep(w)
  \/ LoginTakeBack(w)
  \/ LoginReadLeft(w)
  \/ LoginRelist(w)
  \/ LoginEnd(w)
  \/ LoginRefused(w)
  \/ LoginIssue(w)
  \/ LoginAnswer(w)

----------------------------------------------------------------------------
(* Entering by a cookie, and raising the session it opens.  Both read the  *)
(* index, then whether the session is live; an entry judges requirements   *)
(* and asks both again.                                                    *)
StartUse(w, use) ==
  /\ use \in load.ops /\ At(w, "idle") /\ (use = "raise" => SecretsLeft)
  /\ \E s \in carried :
       IF index[s] = NoHandle THEN Answer(w, Nothing)
       ELSE Go(w, [pc |-> "live.read", for |-> use, s |-> s, h |-> index[s],
                   found |-> Gone, again |-> FALSE])
  /\ UNCHANGED <<revocationVars, record, over, closings, listed, cookieVars, finished>>

Absentee(w) == Answer(w, Nothing)

(* liveAt: the record while it is open; one whose lifetime passed is ended *)
(* there, so a longer lifetime never brings it back.                       *)
LiveRead(w) ==
  LET h == task[w].h IN
  /\ At(w, "live.read")
  /\ \/ /\ record[h].state # "open"
        /\ Absentee(w)
     \/ /\ record[h].state = "open" /\ h \in over
        /\ Go(w, [task[w] EXCEPT !.pc = "live.end"])
     \/ /\ record[h].state = "open" /\ h \notin over
        /\ Go(w, [task[w] EXCEPT !.pc = "live.check",
                                 !.found = IF task[w].again THEN @ ELSE record[h]])
  /\ UNCHANGED <<revocationVars, record, over, closings, listed, cookieVars, finished>>

LiveEnd(w) ==
  /\ At(w, "live.end")
  /\ EndOpen(task[w].h)
  /\ Absentee(w)
  /\ UNCHANGED <<revocationVars, over, closings, listed, cookieVars, finished>>

(* After the subject's boundary, and, for an entry, short of nothing: the  *)
(* requirements' answer is any.                                            *)
LiveCheck(w) ==
  LET t == task[w] IN
  /\ At(w, "live.check")
  /\ IF Revoked(Owner[t.h], t.found.openedAt) THEN Absentee(w)
     ELSE CASE t.for = "raise" -> Go(w, [t EXCEPT !.pc = "raise.issue"])
            [] t.for = "enter" /\ ~t.again -> Go(w, [t EXCEPT !.pc = "live.read", !.again = TRUE])
            [] t.for = "enter" /\ t.again ->
                 \/ Go(w, [t EXCEPT !.pc = "enter.index"])
                 \/ Answer(w, Nothing)
  /\ UNCHANGED <<revocationVars, record, over, closings, listed, cookieVars, finished>>

(* Broken: the entry decided is answered.                                  *)
EnterUnread(w) ==
  LET t == task[w] IN
  /\ At(w, "enter.index")
  /\ Answer(w, [said |-> "entered", s |-> t.s, raised |-> t.found.raised])
  /\ UNCHANGED <<revocationVars, record, over, closings, listed, cookieVars, finished>>

(* The index is read again after the entry is decided.                     *)
EnterIndex(w) ==
  LET t == task[w] IN
  /\ At(w, "enter.index")
  /\ IF index[t.s] = t.h
     THEN Answer(w, [said |-> "entered", s |-> t.s, raised |-> t.found.raised])
     ELSE Absentee(w)
  /\ UNCHANGED <<revocationVars, record, over, closings, listed, cookieVars, finished>>

RaiseIssue(w) ==
  /\ At(w, "raise.issue")
  /\ \E s \in Secret \ drawn :
       /\ drawn' = drawn \cup {s}
       /\ index' = [index EXCEPT ![s] = task[w].h]
       /\ Go(w, [pc |-> "raise.retire", s |-> task[w].s, h |-> task[w].h, new |-> s])
  /\ UNCHANGED <<revocationVars, record, over, closings, listed, carried, first, finished>>

(* The old cookie is retired before the record is raised.                  *)
RaiseRetire(w) ==
  /\ At(w, "raise.retire")
  /\ index' = [index EXCEPT ![task[w].s] = NoHandle]
  /\ Go(w, [task[w] EXCEPT !.pc = "raise.update"])
  /\ UNCHANGED <<revocationVars, record, over, closings, listed, drawn, carried, first, finished>>

(* A write that fails leaves the new cookie, and the session to raise      *)
(* again; it may have landed all the same.  A session no longer open takes *)
(* its new cookie with it.                                                 *)
RaiseUpdate(w) ==
  LET h == task[w].h IN
  /\ At(w, "raise.update")
  /\ \/ /\ record[h].state = "open"
        /\ record' = [record EXCEPT ![h].raised = TRUE]
        /\ carried' = carried \cup {task[w].new}
     \/ /\ record[h].state # "open"
        /\ UNCHANGED <<record, carried>>
     \/ /\ carried' = carried \cup {task[w].new}
        /\ UNCHANGED record
  /\ Answer(w, Nothing)
  /\ UNCHANGED <<revocationVars, over, closings, listed, index, drawn, first, finished>>

UseStep(w) ==
  \/ LiveRead(w)
  \/ LiveEnd(w)
  \/ LiveCheck(w)
  \/ EnterIndex(w)
  \/ RaiseIssue(w)
  \/ RaiseRetire(w)
  \/ RaiseUpdate(w)

----------------------------------------------------------------------------
(* Revoking a subject: the boundary, then each listed session closed.      *)
(* Ghost: the sessions owed a close, those open and with a cookie when the *)
(* boundary landed.                                                        *)
Enterable == {h \in Handle : record[h].state = "open" /\ \E s \in Secret : index[s] = h}

StartRevoke(w) ==
  /\ "revoke" \in load.ops /\ At(w, "idle")
  /\ \E s \in Subject : Go(w, [pc |-> "revoke.write", subject |-> s, deadline |-> WriteDeadline])
  /\ UNCHANGED <<revocationVars, record, over, closings, listed, cookieVars, finished>>

RevokeWrite(w) ==
  /\ At(w, "revoke.write")
  /\ BoundaryLands(task[w].subject, task[w].deadline, FALSE)
  /\ Go(w, [pc |-> "revoke.list", subject |-> task[w].subject,
            owed |-> {h \in Enterable : Owner[h] = task[w].subject}])
  /\ UNCHANGED <<record, over, closings, listed, cookieVars, finished>>

RevokeLate(w) ==
  /\ At(w, "revoke.write") /\ now > task[w].deadline
  /\ Answer(w, Nothing)
  /\ UNCHANGED <<revocationVars, record, over, closings, listed, cookieVars, finished>>

RevokeList(w) ==
  LET members == listed[task[w].subject] IN
  /\ At(w, "revoke.list")
  /\ IF members = {} THEN Answer(w, [said |-> "complete", owed |-> task[w].owed])
     ELSE \E h \in members : Go(w, Closing("follow", h, members \ {h}, FALSE, task[w].owed))
  /\ UNCHANGED <<revocationVars, record, over, closings, listed, cookieVars, finished>>

RevokeStep(w) == RevokeWrite(w) \/ RevokeLate(w) \/ RevokeList(w)

----------------------------------------------------------------------------
(* The worker's host crashed, or an error nobody catches ended it.         *)
Vanish(w) ==
  /\ task[w].pc \in load.vanish
  /\ Answer(w, Nothing)
  /\ UNCHANGED <<revocationVars, record, over, closings, listed, cookieVars, finished>>

LifetimePasses(h) ==
  /\ "expire" \in load.ops
  /\ record[h].state \in {"open", "closing"} /\ h \notin over
  /\ over' = over \cup {h}
  /\ UNCHANGED <<revocationVars, record, closings, listed, cookieVars, finished, task>>

(* The store drops an open record its lifetime after the opening, and a    *)
(* closed one its lifetime after the close; a closing is kept without end. *)
StoreDrops(h) ==
  /\ "expire" \in load.ops
  /\ \/ record[h].state = "open" /\ h \in over
     \/ record[h].state \in {"closed", "mark"}
  /\ record' = [record EXCEPT ![h] = Gone]
  /\ over' = over \cup {h}
  /\ UNCHANGED <<revocationVars, closings, listed, cookieVars, finished, task>>

(* A listing ends with the lifetime it was listed for.                     *)
ListingEnds(h) ==
  /\ h \in over /\ h \in listed[Owner[h]]
  /\ listed' = [listed EXCEPT ![Owner[h]] = @ \ {h}]
  /\ UNCHANGED <<revocationVars, record, over, closings, cookieVars, finished, task>>

Work(w) == CloseStep(w) \/ LoginStep(w) \/ UseStep(w) \/ RevokeStep(w)

Start(w) ==
  \/ StartClose(w)
  \/ StartSweep(w)
  \/ StartLogin(w)
  \/ StartUse(w, "enter")
  \/ StartUse(w, "raise")
  \/ StartRevoke(w)

Next ==
  /\ \/ \E w \in Worker : Work(w)
     \/ \E w \in Worker : Start(w)
     \/ \E w \in Worker : Vanish(w)
     \/ \E h \in Handle : LifetimePasses(h) \/ StoreDrops(h) \/ ListingEnds(h)
     \/ "clock" \in load.ops /\ ClockTicks /\ UNCHANGED sessionVars
  /\ UNCHANGED load

Spec == Init /\ [][Next]_vars

(* A worker goes on, and the sweeps, which the kernel runs on their        *)
(* interval beside the requests, take up every closing kept long enough:   *)
(* one put off is due again within the hour.                               *)
SweepTakesUp(w, h) == StartSweep(w) /\ h \in {task'[w].h} \cup task'[w].rest

FairSpec ==
  /\ Spec
  /\ \A w \in Worker : WF_vars(Work(w) /\ UNCHANGED load)
  /\ \A h \in Handle : SF_vars(\E w \in Worker : SweepTakesUp(w, h) /\ UNCHANGED load)

----------------------------------------------------------------------------
(* The abstract session life this implements: a marked or dropped record   *)
(* is an ended one, a handle nothing was saved at yet a new one.           *)
life == [h \in Handle |->
  CASE record[h].state \in {"open", "closing"} -> record[h].state
    [] record[h].state \in {"closed", "mark"} -> "ended"
    [] record[h].state = "gone" -> IF h \in over THEN "ended" ELSE "new"]

Life == INSTANCE SessionLife WITH called <- load.participants

(* A session goes only forward, and a closing one ends only after every    *)
(* participant finished with it, however closes of it overlap, stop        *)
(* halfway and are taken up again (advance, lifecycle.ts).                 *)
IsSessionLife == Life!LifeSpec

(* Every variable keeps to its type.                                       *)
TypeOK ==
  /\ now \in 0..MaxNow
  /\ \A s \in Subject : landed[s] \in {None} \cup 0..MaxNow
  /\ \A h \in Handle : record[h].state \in Full \cup {"gone", "mark"}
  /\ \A h \in Handle : record[h].state \in Full => record[h].openedAt <= now
  /\ over \subseteq Handle /\ closings \subseteq Handle
  /\ listed \in [Subject -> SUBSET Handle]
  /\ index \in [Secret -> Handle \cup {NoHandle}]
  /\ drawn \subseteq Handle \cup Secret
  /\ first \cup carried \subseteq Secret \cap drawn
  /\ finished \in [Handle -> SUBSET Participant]
  /\ \A w \in Worker : "h" \in DOMAIN task[w] => task[w].h \in Handle

(* A closing session is on the list of closings, so a sweep finds it: no   *)
(* other worker's close takes it off while it is still closing.            *)
ClosingKept == \A h \in Handle : record[h].state = "closing" => h \in closings

(* The cookie a login issued never enters the session once raised: it is   *)
(* retired before the raise, and an entry reads the index after the record. *)
OldCookieNeverRaised ==
  \A w \in Worker :
    At(w, "idle") /\ task[w].told.said = "entered" /\ task[w].told.raised
      => task[w].told.s \notin first

(* A login whose proof began before a revocation of its subject landed     *)
(* opens nothing anyone can enter: either its own check saw the boundary,  *)
(* or the boundary is at or after its opening, which every entry compares. *)
ShutByBoundary ==
  \A h \in Enterable :
    record[h].proven <= landed[Owner[h]] => Revoked(Owner[h], record[h].openedAt)

(* What a login is doing with the sessions its listing pushed out.         *)
BeingPushedOut(h) ==
  \E w \in Worker :
    \/ At(w, "login.keep") /\ h \in task[w].todo
    \/ At(w, "login.putback") /\ h \in task[w].todo \cup task[w].ending
    \/ At(w, "login.relist") /\ h \in task[w].todo \cup {task[w].member}

(* None stays open and unlisted: a session with a cookie is listed, kept   *)
(* as a closing or in the hands of the login that pushed it out, so that a *)
(* revocation or a sweep finds it (listing.ts, store.ts Listing).          *)
NoneOpenUnlisted ==
  \A h \in Enterable \ over : h \in listed[Owner[h]] \cup closings \/ BeingPushedOut(h)

(* So it is where no host stops in the midst of listing, and what cannot   *)
(* be listed again can be ended.                                           *)
ListedOrClosing ==
  load.vanish \cap {"login.keep", "login.putback", "login.relist", "login.end"} = {} => NoneOpenUnlisted

(* A revocation that answers complete left none of the sessions that were  *)
(* open with a cookie when its boundary landed: each is closed, or a       *)
(* closing on its way, or in the hands of the login that pushed it out.    *)
CompleteClosesAll ==
  \A w \in Worker :
    At(w, "idle") /\ task[w].told.said = "complete" =>
      \A h \in task[w].told.owed :
        record[h].state # "open" \/ h \in closings \/ h \in over \/ BeingPushedOut(h)

Trouble == \E w \in Worker : CloseThrows(w) \/ ParticipantFails(w) \/ Vanish(w)

(* Once participants stop failing and stores answer, every session kept as *)
(* a closing is closed, whoever began its close and wherever that stopped. *)
ClosingsFinish ==
  <>[][~Trouble]_vars =>
    \A h \in Handle : h \in closings ~> record[h].state \notin {"open", "closing"}
=============================================================================
