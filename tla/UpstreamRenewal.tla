-------------------------- MODULE UpstreamRenewal --------------------------
(***************************************************************************)
(* A session's upstream tokens of one IdP, as modules/upstream-login/      *)
(* federation-tokens keeps them: received at a login, handed and renewed   *)
(* near their end under a lock, disconnected, withdrawn, and removed when  *)
(* the session closes.  Every write goes over the version read, and only   *)
(* while the session lets someone in.                                      *)
(*                                                                         *)
(* Each call to a store is one step.  Time is left out: whether tokens are *)
(* due may differ at every look; the lock lapses when its holder stopped,  *)
(* or stalls (a trouble).  An entry's version is drawn fresh at each       *)
(* write, and so is the login or the token it is written for: the entry    *)
(* stands for its version.  Sealing again keeps the version and is left    *)
(* out with the seal.  The upstream rotates at every renewal: one that     *)
(* does not has no token to lose, and its answer is written the same way.  *)
(***************************************************************************)
EXTENDS Naturals

CONSTANTS
  Worker,  \* requests and closings under way at once, over all hosts
  Loads    \* what may go on: see `load`

ASSUME RenewalAssumption ==
  /\ \A l \in Loads : l.logins \in Nat /\ l.tokens \in Nat /\ l.troubles \in Nat
  /\ "none" \notin Worker

VARIABLES
  load,      \* what goes on: operations taken up, logins, refresh tokens issued, and how
             \* many troubles of which kinds; it never changes
  record,    \* the session's record: gone, or with or without an entry of the IdP
  lock,      \* the worker whose mark the refresh lock holds, or none
  entering,  \* the session is open: not closing, closed or ended
  spell,     \* it is short of a requirement: not yet, now, or no more
  closed,    \* ghost: this participant finished closing it
  logins,    \* logins received so far
  receipts,  \* entries whose receipts logins were answered
  issued,    \* refresh tokens the upstream issued so far
  valid,     \* those it takes: neither rotated nor revoked
  removed,   \* ghost: logins whose entry was removed or replaced
  rotated,   \* those it rotated
  resent,    \* ghost: times a rotated one was sent again
  troubles,
  job        \* each worker's work under way

upstreamVars == <<issued, valid, rotated, resent>>
sessionVars == <<entering, spell, closed>>
vars == <<load, record, lock, sessionVars, logins, receipts, upstreamVars, removed, troubles, job>>

Gone == [kind |-> "gone"]
Empty == [kind |-> "empty"]
Entry(l, t) == [kind |-> "entry", login |-> l, token |-> t]
Linked(r) == r.kind = "entry"

None == [at |-> "none"]
Idle(w) == job[w] = None
At(w, at) == job[w].at = at
Becomes(w, j) == job' = [job EXCEPT ![w] = j]
Goes(w, at) == Becomes(w, [job[w] EXCEPT !.at = at])
Ends(w) == Becomes(w, None)

(* lifetimeOf: something is left of the session, which lets someone in.    *)
Lives == entering /\ spell # "now"

Init ==
  /\ load \in Loads
  /\ record = Gone /\ lock = "none"
  /\ entering = TRUE /\ spell = "not yet" /\ closed = FALSE
  /\ logins = 0 /\ receipts = {} /\ issued = 0 /\ valid = {} /\ rotated = {} /\ resent = 0 /\ removed = {}
  /\ troubles = 0
  /\ job = [w \in Worker |-> None]

Trouble(kind) == kind \in load.kinds /\ troubles < load.troubles /\ troubles' = troubles + 1

(* Whichever entry was there and is no more.                               *)
Removing(next) ==
  removed' = removed \cup
    (IF Linked(record) /\ (~Linked(next) \/ next.login # record.login) THEN {record.login} ELSE {})

----------------------------------------------------------------------------
(* rewrite: no write for a session that lets nobody in; then over any      *)
(* entry, or the version named, of a record not gone.  `then` and `else`   *)
(* say where the caller goes on.                                           *)
Rewrite(j, next, over, then, else) ==
  LET call == [at |-> "rewrite.life", next |-> next, over |-> over, then |-> then, else |-> else] IN
  [f \in DOMAIN j \cup DOMAIN call |-> IF f \in DOMAIN call THEN call[f] ELSE j[f]]

Calling(j, at) == [f \in DOMAIN j \ {"next", "over", "then", "else"} |-> IF f = "at" THEN at ELSE j[f]]

RewriteLife(w) ==
  LET j == job[w] IN
  /\ At(w, "rewrite.life")
  /\ IF Lives THEN Goes(w, "rewrite.update") ELSE Becomes(w, Calling(j, j.else))
  /\ UNCHANGED <<record, lock, sessionVars, logins, receipts, upstreamVars, removed, troubles>>

(* Broken: written over whatever the record holds by now.                  *)
WrittenOver(j, r) == IF r # Gone THEN j.next ELSE r

Written(j, r) == IF r # Gone /\ (j.over = Gone \/ j.over = r) THEN j.next ELSE r

RewriteUpdate(w) ==
  LET j == job[w]
      after == Written(j, record) IN
  /\ At(w, "rewrite.update")
  /\ record' = after
  /\ Removing(after)
  /\ Becomes(w, Calling(j, IF after = j.next THEN j.then ELSE j.else))
  /\ UNCHANGED <<lock, sessionVars, logins, receipts, upstreamVars, troubles>>

RewriteStep(w) == RewriteLife(w) \/ RewriteUpdate(w)

----------------------------------------------------------------------------
(* current: tokens due are renewed under the lock, read again under it.    *)
CurrentFind(w) ==
  /\ At(w, "current.find")
  /\ \/ Linked(record) /\ Becomes(w, [job[w] EXCEPT !.at = "current.hold", !.read = record])
     \/ Ends(w)
  /\ UNCHANGED <<record, lock, sessionVars, logins, receipts, upstreamVars, removed, troubles>>

CurrentHold(w) ==
  /\ At(w, "current.hold")
  /\ \/ lock = "none" /\ lock' = w /\ Goes(w, "current.again")
     \/ lock # "none" /\ Ends(w) /\ UNCHANGED lock
  /\ UNCHANGED <<record, sessionVars, logins, receipts, upstreamVars, removed, troubles>>

(* Broken: read again, but not looked at for what it may hold no more.     *)
CurrentUnlinked(w) ==
  /\ At(w, "current.again")
  /\ Becomes(w, [job[w] EXCEPT !.at = "renew.ask", !.read = record])
  /\ UNCHANGED <<record, lock, sessionVars, logins, receipts, upstreamVars, removed, troubles>>

CurrentAgain(w) ==
  /\ At(w, "current.again")
  /\ \/ Linked(record) /\ Becomes(w, [job[w] EXCEPT !.at = "renew.ask", !.read = record])
     \/ Goes(w, "current.release")
  /\ UNCHANGED <<record, lock, sessionVars, logins, receipts, upstreamVars, removed, troubles>>

(* Broken: let go whoever holds it by now.                                 *)
CurrentLetGo(w) ==
  /\ At(w, "current.release")
  /\ lock' = "none"
  /\ Ends(w)
  /\ UNCHANGED <<record, sessionVars, logins, receipts, upstreamVars, removed, troubles>>

CurrentRelease(w) ==
  /\ At(w, "current.release")
  /\ lock' = IF lock = w THEN "none" ELSE lock
  /\ Ends(w)
  /\ UNCHANGED <<record, sessionVars, logins, receipts, upstreamVars, removed, troubles>>

(* The upstream takes a valid token, rotating it or not, says no more of   *)
(* the grant, or asks for the user; a token rotated ends the whole grant.  *)
Answered(w, next) == Becomes(w, [job[w] EXCEPT !.at = "renew.held", !.next = next])

RenewAsk(w) ==
  LET e == job[w].read IN
  /\ At(w, "renew.ask")
  /\ \/ /\ e.token \in valid /\ issued < load.tokens
        /\ issued' = issued + 1 /\ valid' = (valid \ {e.token}) \cup {issued'}
        /\ rotated' = rotated \cup {e.token}
        /\ \/ Answered(w, Entry(e.login, issued')) /\ UNCHANGED troubles
           \/ Trouble("lost") /\ Goes(w, "current.release")
        /\ UNCHANGED resent
     \/ /\ e.token \in valid
        /\ Answered(w, Empty) \/ Goes(w, "current.release")
        /\ UNCHANGED <<upstreamVars, troubles>>
     \/ /\ e.token \notin valid
        /\ resent' = IF e.token \in rotated THEN resent + 1 ELSE resent
        /\ valid' = {} /\ Answered(w, Empty)
        /\ UNCHANGED <<issued, rotated, troubles>>
  /\ UNCHANGED <<record, lock, sessionVars, logins, receipts, removed>>

(* Nothing the refresh answered is written once the lock is lost; and it   *)
(* is written over the version read alone.                                 *)
RenewHeld(w) ==
  LET j == job[w] IN
  /\ At(w, "renew.held")
  /\ IF lock = w
     THEN Becomes(w, Rewrite([at |-> "none", read |-> j.read], j.next, j.read, "current.release", "current.release"))
     ELSE Goes(w, "current.release")
  /\ UNCHANGED <<record, lock, sessionVars, logins, receipts, upstreamVars, removed, troubles>>

CurrentStep(w) ==
  \/ CurrentFind(w)
  \/ CurrentHold(w)
  \/ CurrentAgain(w)
  \/ RenewAsk(w)
  \/ RenewHeld(w)
  \/ CurrentRelease(w)

----------------------------------------------------------------------------
(* receive: a login's entry over what the record holds, or as its first;   *)
(* then the session is asked again, and the entry forgotten if it closed.  *)
(* Tokens that cannot be read take the entry out.                          *)
Attempts == 3  \* keepAttempts

ReceiveKeep(w) ==
  LET j == job[w] IN
  /\ At(w, "receive.keep")
  /\ \/ Becomes(w, IF j.attempts = Attempts THEN None
                   ELSE Rewrite([j EXCEPT !.attempts = @ + 1], j.entry, Gone, "receive.check", "receive.life"))
     \/ j.attempts = 0 /\ Becomes(w, Rewrite(j, Empty, Gone, "end", "end"))
  /\ UNCHANGED <<record, lock, sessionVars, logins, receipts, upstreamVars, removed, troubles>>

ReceiveLife(w) ==
  /\ At(w, "receive.life")
  /\ IF Lives THEN Goes(w, "receive.save") ELSE Ends(w)
  /\ UNCHANGED <<record, lock, sessionVars, logins, receipts, upstreamVars, removed, troubles>>

ReceiveSave(w) ==
  LET j == job[w] IN
  /\ At(w, "receive.save")
  /\ \/ record = Gone /\ record' = j.entry /\ Goes(w, "receive.check")
     \/ record # Gone /\ Goes(w, "receive.keep") /\ UNCHANGED record
  /\ UNCHANGED <<lock, sessionVars, logins, receipts, upstreamVars, removed, troubles>>

(* Broken: the login's tokens are taken as kept.                           *)
ReceiveUnchecked(w) ==
  /\ At(w, "receive.check")
  /\ Ends(w) /\ receipts' = receipts \cup {job[w].entry}
  /\ UNCHANGED <<record, lock, sessionVars, logins, upstreamVars, removed, troubles>>

ReceiveCheck(w) ==
  /\ At(w, "receive.check")
  /\ IF Lives THEN Ends(w) /\ receipts' = receipts \cup {job[w].entry}
     ELSE Goes(w, "forget") /\ UNCHANGED receipts
  /\ UNCHANGED <<record, lock, sessionVars, logins, upstreamVars, removed, troubles>>

(* forget, of a receive or a withdrawal: the entry of the login, whatever  *)
(* it was renewed to since is another version and stays.                   *)
Forget(w) ==
  LET j == job[w] IN
  /\ At(w, "forget")
  /\ Becomes(w, Rewrite(j, Empty, j.entry, "end", "forget.life"))
  /\ UNCHANGED <<record, lock, sessionVars, logins, receipts, upstreamVars, removed, troubles>>

ForgetLife(w) ==
  /\ At(w, "forget.life")
  /\ IF Lives THEN Ends(w) ELSE Goes(w, "forget.remove")
  /\ UNCHANGED <<record, lock, sessionVars, logins, receipts, upstreamVars, removed, troubles>>

ForgetRemove(w) ==
  /\ At(w, "forget.remove")
  /\ record' = Gone /\ Removing(Gone) /\ Ends(w)
  /\ UNCHANGED <<lock, sessionVars, logins, receipts, upstreamVars, troubles>>

DisconnectFind(w) ==
  LET j == job[w] IN
  /\ At(w, "disconnect.find")
  /\ Becomes(w, IF Linked(record) THEN Rewrite(j, Empty, Gone, "end", "end") ELSE None)
  /\ UNCHANGED <<record, lock, sessionVars, logins, receipts, upstreamVars, removed, troubles>>

CloseRemove(w) ==
  /\ At(w, "close.remove")
  /\ record' = Gone /\ Removing(Gone) /\ Ends(w)
  /\ closed' = TRUE
  /\ UNCHANGED <<lock, entering, spell, logins, receipts, upstreamVars, troubles>>

Over(w) ==
  /\ At(w, "end") /\ Ends(w)
  /\ UNCHANGED <<record, lock, sessionVars, logins, receipts, upstreamVars, removed, troubles>>

KeepStep(w) ==
  \/ ReceiveKeep(w)
  \/ ReceiveLife(w)
  \/ ReceiveSave(w)
  \/ ReceiveCheck(w)
  \/ Forget(w)
  \/ ForgetLife(w)
  \/ ForgetRemove(w)
  \/ DisconnectFind(w)
  \/ CloseRemove(w)
  \/ Over(w)

----------------------------------------------------------------------------
Begins(w, op, j) == op \in load.ops /\ Idle(w) /\ Becomes(w, j)

(* A request enters the session first.                                     *)
BeginCurrent(w) ==
  /\ Lives /\ Linked(record)
  /\ Begins(w, "current", [at |-> "current.find", read |-> Gone, next |-> Gone])
  /\ UNCHANGED <<record, lock, sessionVars, logins, receipts, upstreamVars, removed, troubles>>

BeginReceive(w) ==
  /\ Lives /\ logins < load.logins /\ issued < load.tokens
  /\ logins' = logins + 1 /\ issued' = issued + 1 /\ valid' = valid \cup {issued'}
  /\ Begins(w, "receive", [at |-> "receive.keep", entry |-> Entry(logins', issued'), attempts |-> 0])
  /\ UNCHANGED <<record, lock, sessionVars, receipts, rotated, resent, removed, troubles>>

BeginDisconnect(w) ==
  /\ Lives /\ Linked(record)
  /\ Begins(w, "disconnect", [at |-> "disconnect.find"])
  /\ UNCHANGED <<record, lock, sessionVars, logins, receipts, upstreamVars, removed, troubles>>

(* A receipt names the version the login kept.                             *)
BeginWithdraw(w) ==
  /\ \E e \in receipts : Begins(w, "withdraw", [at |-> "forget", entry |-> e])
  /\ UNCHANGED <<record, lock, sessionVars, logins, receipts, upstreamVars, removed, troubles>>

BeginClose(w) ==
  /\ ~closed /\ entering' = FALSE
  /\ Begins(w, "close", [at |-> "close.remove"])
  /\ UNCHANGED <<record, lock, spell, closed, logins, receipts, upstreamVars, removed, troubles>>

Shortens ==
  /\ "shorten" \in load.ops /\ spell = "not yet" /\ spell' = "now"
  /\ UNCHANGED <<record, lock, entering, closed, logins, receipts, upstreamVars, removed, troubles, job>>

StepsUp ==
  /\ spell = "now" /\ spell' = "past"
  /\ UNCHANGED <<record, lock, entering, closed, logins, receipts, upstreamVars, removed, troubles, job>>

(* Its lifetime over: freely once its holder is gone, or by a stall.       *)
LockLapses ==
  /\ lock # "none"
  /\ \/ (Idle(lock) \/ At(lock, "current.hold")) /\ UNCHANGED troubles
     \/ ~Idle(lock) /\ Trouble("stall")
  /\ lock' = "none"
  /\ UNCHANGED <<record, sessionVars, logins, receipts, upstreamVars, removed, job>>

(* A host stops, or a store call fails: the request ends where it is.  A   *)
(* lock it holds lapses.                                                   *)
Crash(w) ==
  /\ ~Idle(w) /\ job[w].at \in load.crashes /\ Trouble("crash")
  /\ Ends(w)
  /\ UNCHANGED <<record, lock, sessionVars, logins, receipts, upstreamVars, removed>>

Work(w) == RewriteStep(w) \/ CurrentStep(w) \/ KeepStep(w)

Next ==
  /\ \/ \E w \in Worker :
          \/ Work(w) \/ Crash(w)
          \/ BeginCurrent(w) \/ BeginReceive(w) \/ BeginDisconnect(w) \/ BeginWithdraw(w) \/ BeginClose(w)
     \/ Shortens \/ StepsUp \/ LockLapses
  /\ UNCHANGED load

Spec == Init /\ [][Next]_vars

----------------------------------------------------------------------------
Records == {Gone, Empty} \cup {Entry(l, t) : l \in 1 .. load.logins, t \in 1 .. load.tokens}

TypeOK ==
  /\ load \in Loads
  /\ record \in Records
  /\ lock \in Worker \cup {"none"}
  /\ entering \in BOOLEAN /\ spell \in {"not yet", "now", "past"} /\ closed \in BOOLEAN
  /\ logins \in 0 .. load.logins /\ issued \in 0 .. load.tokens
  /\ receipts \subseteq Records /\ removed \subseteq 1 .. logins
  /\ valid \subseteq 1 .. issued /\ rotated \subseteq 1 .. issued /\ resent \in Nat
  /\ troubles \in 0 .. load.troubles
  /\ \A w \in Worker : At(w, "renew.ask") => Linked(job[w].read)

(* A login's tokens, once disconnected, withdrawn, replaced by another     *)
(* login's, refused by the upstream or removed by a close, are never in    *)
(* the record again: no renewal under way brings them back, whoever lost   *)
(* its lock meanwhile (renewing.ts "neither is brought back nor written    *)
(* over").                                                                 *)
NeverBroughtBack == Linked(record) => record.login \notin removed

(* While the session is open and was never short of a requirement, a       *)
(* refresh token the upstream rotated, which sent again costs the user the *)
(* link, is sent again at most once for each holder that stalled or        *)
(* stopped and each answer lost, and never without: of requests that find  *)
(* the tokens due at once one sends each, and one that lost the lock takes *)
(* it from nobody (renewal.ts current "read again under the lock", "only   *)
(* while it still holds its own mark").                                    *)
RotatedNeverSent == entering /\ spell = "not yet" => resent <= troubles

(* Once this participant closed the session no token is kept, but by a     *)
(* login's receive that has yet to look at the session again, and takes    *)
(* them out then (renewal.ts receive), where none stops in the midst.      *)
TakingOut(w) ==
  \/ job[w].at \in {"receive.check", "forget", "forget.life", "forget.remove"}
  \/ At(w, "rewrite.life") /\ job[w].next = Empty /\ "entry" \in DOMAIN job[w]

TakesOut == {"receive.check", "forget", "forget.life", "forget.remove", "rewrite.life"}

ClosedKeepsNoTokens ==
  load.crashes \cap TakesOut = {} /\ closed /\ record # Gone => \E w \in Worker : TakingOut(w)
=============================================================================
