-------------------------- MODULE RefreshFamilies --------------------------
(***************************************************************************)
(* Families of refresh tokens, as modules/oauth/refresh keeps them: started*)
(* by a code's redemption or alone, each with one secret that may be used  *)
(* next, and ended with every access token issued from them, by a reuse, a *)
(* revocation, the close of their session or the return of their code.     *)
(*                                                                         *)
(* Each call to a store is one step, atomic and kept by failovers (what    *)
(* Records shows of a record).  A worker is a stack of frames, the call it *)
(* is in first and what goes on when that returns below it; a throw goes   *)
(* down to the frame that catches it, and a crash of its host ends it all. *)
(*                                                                         *)
(* Lifetimes are left out: a family's records outlast what it issued, and  *)
(* a mark outlasts the family it ends (record.ts allowanceMs).             *)
(***************************************************************************)
EXTENDS KeyedSets, Sequences

CONSTANTS
  Family, Session, Access, Redemption,  \* the names that may be drawn, or are known
  Worker,      \* requests, closes and sweeps under way at once
  MaxSecrets,  \* bound: the secrets drawn for one family
  Loads        \* what may go on: see `load`

NoSession == "no session"

ASSUME FamiliesAssumption ==
  /\ MaxSecrets \in Nat \ {0}
  /\ NoSession \notin Session /\ "none" \notin Family
  /\ \A l \in Loads : l.families \subseteq Family /\ l.codes \subseteq Redemption
                    /\ {l.tokens, l.tokensPerFamily, l.familiesPerSession} \subseteq Nat \ {0}

VARIABLES
  load,       \* what goes on: operations taken up, the frames that may throw or crash,
              \* and the caps of the lists; it never changes
  family,     \* each family's record: none, live with its current secret, or revoked
  begun,      \* what each redemption left: none, the family it starts, or taken
  bySession,  \* the families of each session
  issued,     \* the access tokens of each family
  link,       \* the family each access token came from, or none
  settles,    \* families whose revocation must still be finished
  denied,     \* access tokens on the denylist
  entering,   \* sessions that enter at use: neither closing nor closed
  drawn,      \* names drawn so far
  secrets,    \* how many secrets were drawn for each family
  spent,      \* ghost: each rotation made, [family, from, to]
  given,      \* refresh tokens a response carried out, <<family, secret>>
  held,       \* access tokens a response carried out
  finished,   \* ghost: sessions this participant finished closing
  takenBack,  \* ghost: redemptions taken back to the end
  task        \* each worker's stack of frames

familyVars == <<family, begun, link, secrets, spent>>
listVars == <<bySession, issued, settles>>
outsideVars == <<denied, entering, drawn, given, held, finished, takenBack>>
vars == <<load, familyVars, listVars, outsideVars, task>>

NoFamily == [state |-> "none"]
Revoked == [state |-> "revoked"]
LiveFamily(n, s) == [state |-> "live", current |-> n, session |-> s]
Alive(f) == family[f].state = "live"

FamiliesInit ==
  /\ load \in Loads
  /\ family = [f \in Family |-> NoFamily]
  /\ begun = [r \in Redemption |-> "none"]
  /\ bySession = [s \in Session |-> NoMembers]
  /\ issued = [f \in Family |-> NoMembers]
  /\ link = [a \in Access |-> "none"]
  /\ settles = {} /\ denied = {}
  /\ entering = Session
  /\ drawn = {} /\ secrets = [f \in Family |-> 0]
  /\ spent = {} /\ given = {} /\ held = {}
  /\ finished = {} /\ takenBack = {}
  /\ task = [w \in Worker |-> <<>>]

----------------------------------------------------------------------------
(* Frames.                                                                 *)

Top(w) == Head(task[w])
Doing(w, pc) == task[w] # <<>> /\ Top(w).pc = pc

(* The top frame makes way for these.                                      *)
Become(w, frames) == task' = [task EXCEPT ![w] = frames \o Tail(@)]

To(w, pc) == Become(w, <<[Top(w) EXCEPT !.pc = pc]>>)
Return(w) == Become(w, <<>>)

(* What catches: a sweep, which goes on to what is listed next, and the    *)
(* steps of a code's redemption (CodeGrant) that void the code.            *)
VoidIfFails == {"redeem.pin", "redeem.session", "redeem.add", "redeem.hooks"}
Catching(stack) == {i \in DOMAIN stack : stack[i].pc \in VoidIfFails \cup {"sweep", "voids"}}
Resumed(frame) == IF frame.pc \in VoidIfFails THEN [frame EXCEPT !.pc = "redeem.void"] ELSE frame

Unwound(stack) ==
  IF Catching(stack) = {} THEN <<>>
  ELSE LET i == CHOOSE i \in Catching(stack) : \A j \in Catching(stack) : i <= j IN
       <<Resumed(stack[i])>> \o SubSeq(stack, i + 1, Len(stack))

Throw(w) == task' = [task EXCEPT ![w] = Unwound(@)]

(* Frames that throw once what they called returned.                       *)
Throwing == [pc |-> "throw"]
Rethrow(w) == Doing(w, "throw") /\ Throw(w) /\ UNCHANGED <<familyVars, listVars, outsideVars>>

(* A store that is unavailable, or a full list that refuses.               *)
Fails(w) ==
  /\ task[w] # <<>> /\ Top(w).pc \in load.fails
  /\ Throw(w)
  /\ UNCHANGED <<familyVars, listVars, outsideVars>>

Crash(w) ==
  /\ task[w] # <<>> /\ Top(w).pc \in load.crashes
  /\ task' = [task EXCEPT ![w] = <<>>]
  /\ UNCHANGED <<familyVars, listVars, outsideVars>>

----------------------------------------------------------------------------
(* revokeFamily: listed first, so a sweep finishes one stopped halfway;    *)
(* then marked, record or not; then every access token it issued revoked.  *)
Revoke(f) == [pc |-> "revoke.add", f |-> f, todo |-> {}, gone |-> {}]

(* Broken: the revocation is not listed.                                   *)
RevokeAddUnlisted(w) ==
  /\ Doing(w, "revoke.add")
  /\ To(w, "revoke.mark")
  /\ UNCHANGED <<familyVars, listVars, outsideVars>>

RevokeAdd(w) ==
  /\ Doing(w, "revoke.add")
  /\ settles' = settles \cup {Top(w).f}
  /\ To(w, "revoke.mark")
  /\ UNCHANGED <<familyVars, bySession, issued, outsideVars>>

RevokeMark(w) ==
  LET f == Top(w).f IN
  /\ Doing(w, "revoke.mark")
  /\ IF family[f] = NoFamily THEN To(w, "revoke.save") /\ UNCHANGED family
     ELSE To(w, "revoke.members") /\ family' = [family EXCEPT ![f] = Revoked]
  /\ UNCHANGED <<begun, link, secrets, spent, listVars, outsideVars>>

(* No record: the mark keeps a family being started from coming alive; one *)
(* placed meanwhile is marked when the revocation is tried again.          *)
RevokeSave(w) ==
  LET f == Top(w).f IN
  /\ Doing(w, "revoke.save")
  /\ IF family[f] = NoFamily
     THEN To(w, "revoke.members") /\ family' = [family EXCEPT ![f] = Revoked]
     ELSE Throw(w) /\ UNCHANGED family
  /\ UNCHANGED <<begun, link, secrets, spent, listVars, outsideVars>>

(* Its tokens: the members, then those its cap pushed out and awaiting.    *)
RevokeMembers(w) ==
  LET t == Top(w) IN
  /\ Doing(w, "revoke.members")
  /\ Become(w, <<[t EXCEPT !.pc = "revoke.awaiting", !.todo = issued[t.f].held]>>)
  /\ UNCHANGED <<familyVars, listVars, outsideVars>>

(* Broken: those awaiting are left out.                                    *)
RevokeMembersOnly(w) ==
  /\ Doing(w, "revoke.awaiting")
  /\ To(w, "revoke.deny")
  /\ UNCHANGED <<familyVars, listVars, outsideVars>>

RevokeAwaiting(w) ==
  LET t == Top(w) IN
  /\ Doing(w, "revoke.awaiting")
  /\ Become(w, <<[t EXCEPT !.pc = "revoke.deny", !.todo = @ \cup issued[t.f].awaiting]>>)
  /\ UNCHANGED <<familyVars, listVars, outsideVars>>

RevokeDeny(w) ==
  LET t == Top(w) IN
  /\ Doing(w, "revoke.deny")
  /\ \/ \E a \in t.todo :
          /\ denied' = denied \cup {a}
          /\ Become(w, <<[t EXCEPT !.todo = @ \ {a}, !.gone = @ \cup {a}]>>)
     \/ /\ t.todo = {}
        /\ Become(w, <<[t EXCEPT !.pc = "revoke.settle", !.todo = issued[t.f].awaiting \cap t.gone]>>)
        /\ UNCHANGED denied
  /\ UNCHANGED <<familyVars, listVars, entering, drawn, given, held, finished, takenBack>>

(* Those awaiting are settled, only if this pass revoked them.             *)
RevokeSettle(w) ==
  LET t == Top(w) IN
  /\ Doing(w, "revoke.settle")
  /\ \/ \E a \in t.todo :
          /\ issued' = [issued EXCEPT ![t.f] = Settled(@, a)]
          /\ Become(w, <<[t EXCEPT !.todo = @ \ {a}]>>)
     \/ t.todo = {} /\ To(w, "revoke.done") /\ UNCHANGED issued
  /\ UNCHANGED <<familyVars, bySession, settles, outsideVars>>

RevokeDone(w) ==
  /\ Doing(w, "revoke.done")
  /\ settles' = settles \ {Top(w).f}
  /\ Return(w)
  /\ UNCHANGED <<familyVars, bySession, issued, outsideVars>>

RevokeStep(w) ==
  \/ RevokeAdd(w)
  \/ RevokeMark(w)
  \/ RevokeSave(w)
  \/ RevokeMembers(w)
  \/ RevokeAwaiting(w)
  \/ RevokeDeny(w)
  \/ RevokeSettle(w)
  \/ RevokeDone(w)

----------------------------------------------------------------------------
(* recordAccess: a token's family, and the token among the family's; what  *)
(* the cap pushes out is revoked, and the call fails.                      *)
Record(f, a) == [pc |-> "record.link", f |-> f, a |-> a]

RecordLink(w) ==
  LET t == Top(w) IN
  /\ Doing(w, "record.link")
  /\ link' = [link EXCEPT ![t.a] = t.f]
  /\ To(w, "record.add")
  /\ UNCHANGED <<family, begun, secrets, spent, listVars, outsideVars>>

PushedOut(f, todo) == [pc |-> "record.push", f |-> f, todo |-> todo]

RecordAdd(w) ==
  LET t == Top(w) IN
  /\ Doing(w, "record.add")
  /\ \E out \in OverCap(issued[t.f].held, t.a, load.tokensPerFamily) :
       /\ issued' = [issued EXCEPT ![t.f] = Added(@, t.a, out)]
       /\ IF out = {} THEN Return(w) ELSE Become(w, <<PushedOut(t.f, out)>>)
  /\ UNCHANGED <<familyVars, bySession, settles, outsideVars>>

RecordPush(w) ==
  LET t == Top(w) IN
  /\ Doing(w, "record.push")
  /\ \/ \E a \in t.todo :
          /\ denied' = denied \cup {a}
          /\ Become(w, <<[pc |-> "record.settle", f |-> t.f, a |-> a], PushedOut(t.f, t.todo \ {a})>>)
     \/ t.todo = {} /\ Throw(w) /\ UNCHANGED denied
  /\ UNCHANGED <<familyVars, listVars, entering, drawn, given, held, finished, takenBack>>

RecordSettle(w) ==
  LET t == Top(w) IN
  /\ Doing(w, "record.settle")
  /\ issued' = [issued EXCEPT ![t.f] = Settled(@, t.a)]
  /\ Return(w)
  /\ UNCHANGED <<familyVars, bySession, settles, outsideVars>>

RecordStep(w) == RecordLink(w) \/ RecordAdd(w) \/ RecordPush(w) \/ RecordSettle(w)

----------------------------------------------------------------------------
(* found: the family's record, unless a mark came first; its first access  *)
(* token; and a look whether it is live still.                             *)
Found(f, s, a) == [pc |-> "found.save", f |-> f, s |-> s, a |-> a]

(* Broken: the record holds no secret until the first is used.             *)
FoundSaveEmpty(w) ==
  LET t == Top(w) IN
  /\ Doing(w, "found.save")
  /\ \/ /\ family[t.f] = NoFamily
        /\ family' = [family EXCEPT ![t.f] = LiveFamily(0, t.s)]
        /\ secrets' = [secrets EXCEPT ![t.f] = 1]
        /\ Become(w, <<Record(t.f, t.a), [t EXCEPT !.pc = "found.confirm"]>>)
     \/ /\ family[t.f] # NoFamily
        /\ Throw(w)
        /\ UNCHANGED <<family, secrets>>
  /\ UNCHANGED <<begun, link, spent, listVars, outsideVars>>

(* Broken: the record is placed over a mark.                               *)
FoundSaveOver(w) ==
  LET t == Top(w) IN
  /\ Doing(w, "found.save")
  /\ family' = [family EXCEPT ![t.f] = LiveFamily(1, t.s)]
  /\ secrets' = [secrets EXCEPT ![t.f] = 1]
  /\ Become(w, <<Record(t.f, t.a), [t EXCEPT !.pc = "found.confirm"]>>)
  /\ UNCHANGED <<begun, link, spent, listVars, outsideVars>>

FoundSave(w) ==
  LET t == Top(w) IN
  /\ Doing(w, "found.save")
  /\ \/ /\ family[t.f] = NoFamily
        /\ family' = [family EXCEPT ![t.f] = LiveFamily(1, t.s)]
        /\ secrets' = [secrets EXCEPT ![t.f] = 1]
        /\ Become(w, <<Record(t.f, t.a), [t EXCEPT !.pc = "found.confirm"]>>)
     \/ /\ family[t.f] # NoFamily
        /\ Throw(w)
        /\ UNCHANGED <<family, secrets>>
  /\ UNCHANGED <<begun, link, spent, listVars, outsideVars>>

FoundConfirm(w) ==
  LET f == Top(w).f IN
  /\ Doing(w, "found.confirm")
  /\ IF Alive(f) /\ family[f].current = 1 THEN Return(w) ELSE Become(w, <<Revoke(f), Throwing>>)
  /\ UNCHANGED <<familyVars, listVars, outsideVars>>

(* starting: a redemption's family, named for it and listed under its      *)
(* session before its record is placed.                                    *)
Starting(r, f, s, a) == [pc |-> "start.name", r |-> r, f |-> f, s |-> s, a |-> a]

StartName(w) ==
  LET t == Top(w) IN
  /\ Doing(w, "start.name")
  /\ \/ /\ begun[t.r] = "none"
        /\ begun' = [begun EXCEPT ![t.r] = t.f]
        /\ To(w, "start.list")
     \/ begun[t.r] # "none" /\ Throw(w) /\ UNCHANGED begun
  /\ UNCHANGED <<family, link, secrets, spent, listVars, outsideVars>>

Dropping(s, todo) == [pc |-> "start.drop", s |-> s, todo |-> todo]

StartList(w) ==
  LET t == Top(w) IN
  /\ Doing(w, "start.list")
  /\ \E out \in OverCap(bySession[t.s].held, t.f, load.familiesPerSession) :
       /\ bySession' = [bySession EXCEPT ![t.s] = Added(@, t.f, out)]
       /\ IF out = {} THEN To(w, "start.enter") ELSE Become(w, <<Dropping(t.s, out)>>)
  /\ UNCHANGED <<familyVars, issued, settles, outsideVars>>

(* A family dropped from its session's list ends, and so does the start.   *)
StartDrop(w) ==
  LET t == Top(w) IN
  /\ Doing(w, "start.drop")
  /\ \/ \E f \in t.todo :
          Become(w, <<Revoke(f), [pc |-> "session.settled", s |-> t.s, f |-> f],
                      Dropping(t.s, t.todo \ {f})>>)
     \/ t.todo = {} /\ Throw(w)
  /\ UNCHANGED <<familyVars, listVars, outsideVars>>

(* One whose revocation came through is settled: here, and at a close.     *)
SessionSettled(w) ==
  LET t == Top(w) IN
  /\ Doing(w, "session.settled")
  /\ bySession' = [bySession EXCEPT ![t.s] = Settled(@, t.f)]
  /\ Return(w)
  /\ UNCHANGED <<familyVars, issued, settles, outsideVars>>

(* Broken: whether the session still enters is not asked.                  *)
StartEnterAny(w) ==
  LET t == Top(w) IN
  /\ Doing(w, "start.enter")
  /\ Become(w, <<Found(t.f, t.s, t.a)>>)
  /\ UNCHANGED <<familyVars, listVars, outsideVars>>

(* A close that came before the list held it found nothing to revoke.      *)
StartEnter(w) ==
  LET t == Top(w) IN
  /\ Doing(w, "start.enter")
  /\ IF t.s \in entering THEN Become(w, <<Found(t.f, t.s, t.a)>>)
     ELSE Become(w, <<Revoke(t.f), Throwing>>)
  /\ UNCHANGED <<familyVars, listVars, outsideVars>>

(* takingBack: no family of the redemption, or none any more.              *)
TakingBack(r) == [pc |-> "take.mark", r |-> r]

(* Broken: no mark is left where no family was started yet.                *)
TakeMarkNone(w) ==
  /\ Doing(w, "take.mark")
  /\ To(w, "take.read")
  /\ UNCHANGED <<familyVars, listVars, outsideVars>>

TakeMark(w) ==
  LET r == Top(w).r IN
  /\ Doing(w, "take.mark")
  /\ begun' = [begun EXCEPT ![r] = IF @ = "none" THEN "taken" ELSE @]
  /\ To(w, "take.read")
  /\ UNCHANGED <<family, link, secrets, spent, listVars, outsideVars>>

TakeRead(w) ==
  LET t == Top(w) IN
  /\ Doing(w, "take.read")
  /\ IF begun[t.r] \in Family
     THEN Become(w, <<Revoke(begun[t.r]), [t EXCEPT !.pc = "take.done"]>>)
     ELSE To(w, "take.done")
  /\ UNCHANGED <<familyVars, listVars, outsideVars>>

TakeDone(w) ==
  /\ Doing(w, "take.done")
  /\ takenBack' = takenBack \cup {Top(w).r}
  /\ Return(w)
  /\ UNCHANGED <<familyVars, listVars, denied, entering, drawn, given, held, finished>>

StartStep(w) ==
  \/ FoundSave(w)
  \/ FoundConfirm(w)
  \/ StartName(w)
  \/ StartList(w)
  \/ StartDrop(w)
  \/ SessionSettled(w)
  \/ StartEnter(w)
  \/ TakeMark(w)
  \/ TakeRead(w)
  \/ TakeDone(w)

----------------------------------------------------------------------------
(* A response carries out an access token, and a refresh token with it.    *)
Giving(tokens, a) == [pc |-> "give", tokens |-> tokens, a |-> a]

Give(w) ==
  /\ Doing(w, "give")
  /\ given' = given \cup Top(w).tokens
  /\ held' = held \cup {Top(w).a}
  /\ Return(w)
  /\ UNCHANGED <<familyVars, listVars, denied, entering, drawn, finished, takenBack>>

(* The grant's round.  Another client's token, one past its end or bound   *)
(* to another key, and what the client or a policy may not have are        *)
(* refused with nothing changed: each a choice here.                       *)
Using(f, n) == [pc |-> "use.read", f |-> f, n |-> n, s |-> NoSession, a |-> "none"]

(* The secret must be the current one; any other is a reuse.               *)
UseRead(w) ==
  LET t == Top(w) IN
  /\ Doing(w, "use.read")
  /\ \/ Return(w)
     \/ Alive(t.f) /\ family[t.f].current # t.n /\ Become(w, <<Revoke(t.f)>>)
     \/ /\ Alive(t.f) /\ family[t.f].current = t.n
        /\ Become(w, <<[t EXCEPT !.pc = "use.valid", !.s = family[t.f].session]>>)
  /\ UNCHANGED <<familyVars, listVars, outsideVars>>

Enters(s) == s \in entering \cup {NoSession}

(* Valid while its session enters; then an access token is issued, before  *)
(* anything of the family changes, and recorded.                           *)
UseValid(w) ==
  LET t == Top(w) IN
  /\ Doing(w, "use.valid")
  /\ \/ Return(w) /\ UNCHANGED drawn
     \/ /\ Enters(t.s)
        /\ \E a \in Access \ drawn :
             /\ drawn' = drawn \cup {a}
             /\ Become(w, <<Record(t.f, a), [t EXCEPT !.pc = "use.select", !.a = a]>>)
  /\ UNCHANGED <<familyVars, listVars, denied, entering, given, held, finished, takenBack>>

(* The claims selection is kept for the token, or the token is revoked.    *)
UseSelect(w) ==
  /\ Doing(w, "use.select")
  /\ \/ To(w, "use.enter") /\ UNCHANGED denied
     \/ /\ "use.select" \in load.fails
        /\ denied' = denied \cup {Top(w).a}
        /\ Throw(w)
  /\ UNCHANGED <<familyVars, listVars, entering, drawn, given, held, finished, takenBack>>

UseEnter(w) ==
  LET t == Top(w) IN
  /\ Doing(w, "use.enter")
  /\ IF Enters(t.s) THEN To(w, "use.rotate") /\ UNCHANGED denied
     ELSE Return(w) /\ denied' = denied \cup {t.a}
  /\ UNCHANGED <<familyVars, listVars, entering, drawn, given, held, finished, takenBack>>

(* Broken: rotates whatever secret is current by then.                     *)
UseRotateAny(w) ==
  LET t == Top(w)
      next == secrets[t.f] + 1
  IN  /\ Doing(w, "use.rotate")
      /\ IF Alive(t.f)
         THEN /\ family' = [family EXCEPT ![t.f].current = next]
              /\ secrets' = [secrets EXCEPT ![t.f] = next]
              /\ spent' = spent \cup {[family |-> t.f, from |-> t.n, to |-> next]}
              /\ Become(w, <<Giving({<<t.f, next>>}, t.a)>>)
         ELSE /\ Become(w, <<Revoke(t.f)>>)
              /\ UNCHANGED <<family, secrets, spent>>
      /\ UNCHANGED <<begun, link, listVars, outsideVars>>

(* Rotates only from the secret checked; else another use came first, or   *)
(* the family has ended: either way it is revoked.                         *)
UseRotate(w) ==
  LET t == Top(w)
      next == secrets[t.f] + 1
  IN  /\ Doing(w, "use.rotate")
      /\ IF Alive(t.f) /\ family[t.f].current = t.n
         THEN /\ family' = [family EXCEPT ![t.f].current = next]
              /\ secrets' = [secrets EXCEPT ![t.f] = next]
              /\ spent' = spent \cup {[family |-> t.f, from |-> t.n, to |-> next]}
              /\ Become(w, <<Giving({<<t.f, next>>}, t.a)>>)
         ELSE /\ Become(w, <<Revoke(t.f)>>)
              /\ UNCHANGED <<family, secrets, spent>>
      /\ UNCHANGED <<begun, link, listVars, outsideVars>>

UseStep(w) ==
  \/ Give(w)
  \/ UseRead(w)
  \/ UseValid(w)
  \/ UseSelect(w)
  \/ UseEnter(w)
  \/ UseRotate(w)

----------------------------------------------------------------------------
(* session's closing of a session: each family it started, then those its  *)
(* list pushed out.                                                        *)
CloseMembers(w) ==
  LET t == Top(w) IN
  /\ Doing(w, "close.members")
  /\ Become(w, <<[t EXCEPT !.pc = "close.each", !.todo = bySession[t.s].held]>>)
  /\ UNCHANGED <<familyVars, listVars, outsideVars>>

CloseEach(w) ==
  LET t == Top(w) IN
  /\ Doing(w, "close.each")
  /\ \/ \E f \in t.todo : Become(w, <<Revoke(f), [t EXCEPT !.todo = @ \ {f}]>>)
     \/ /\ t.todo = {}
        /\ Become(w, <<[t EXCEPT !.pc = "close.rest", !.todo = bySession[t.s].awaiting]>>)
  /\ UNCHANGED <<familyVars, listVars, outsideVars>>

CloseRest(w) ==
  LET t == Top(w) IN
  /\ Doing(w, "close.rest")
  /\ \/ /\ \E f \in t.todo :
             Become(w, <<Revoke(f), [pc |-> "session.settled", s |-> t.s, f |-> f],
                         [t EXCEPT !.todo = @ \ {f}]>>)
        /\ UNCHANGED finished
     \/ /\ t.todo = {}
        /\ finished' = finished \cup {t.s}
        /\ Return(w)
  /\ UNCHANGED <<familyVars, listVars, denied, entering, drawn, given, held, takenBack>>

(* The sweep hands over each family listed; one that fails stays.          *)
SweepNext(w) ==
  LET t == Top(w) IN
  /\ Doing(w, "sweep")
  /\ \/ \E f \in t.todo : Become(w, <<Revoke(f), [t EXCEPT !.todo = @ \ {f}]>>)
     \/ t.todo = {} /\ Return(w)
  /\ UNCHANGED <<familyVars, listVars, outsideVars>>

(* A client's revocation of its refresh token: a marked family's is        *)
(* finished, another client's is left alone.                               *)
ControlRead(w) ==
  LET f == Top(w).f IN
  /\ Doing(w, "control.read")
  /\ \/ family[f] # Revoked /\ Return(w)
     \/ family[f] # NoFamily /\ Become(w, <<Revoke(f)>>)
  /\ UNCHANGED <<familyVars, listVars, outsideVars>>

(* adopt: a token issued from one of the family joins it; one that joined  *)
(* after a revocation listed the family's is revoked with it.              *)
AdoptRead(w) ==
  LET t == Top(w) IN
  /\ Doing(w, "adopt.read")
  /\ IF Alive(t.f)
     THEN Become(w, <<Record(t.f, t.a), [t EXCEPT !.pc = "adopt.check"]>>) /\ UNCHANGED denied
     ELSE Return(w) /\ denied' = denied \cup {t.a}
  /\ UNCHANGED <<familyVars, listVars, entering, drawn, given, held, finished, takenBack>>

AdoptCheck(w) ==
  LET t == Top(w) IN
  /\ Doing(w, "adopt.check")
  /\ Become(w, IF Alive(t.f) THEN <<Giving({}, t.a)>> ELSE <<Revoke(t.f)>>)
  /\ UNCHANGED <<familyVars, listVars, outsideVars>>

EndStep(w) ==
  \/ CloseMembers(w)
  \/ CloseEach(w)
  \/ CloseRest(w)
  \/ SweepNext(w)
  \/ ControlRead(w)
  \/ AdoptRead(w)
  \/ AdoptCheck(w)

Work(w) == RevokeStep(w) \/ RecordStep(w) \/ StartStep(w) \/ UseStep(w) \/ EndStep(w) \/ Rethrow(w)

----------------------------------------------------------------------------
(* What a worker takes up.                                                 *)
Begin(w, op, stack) ==
  /\ op \in load.ops /\ task[w] = <<>>
  /\ task' = [task EXCEPT ![w] = stack]

(* Bound: a name is left for every worker, so drawing one never blocks.    *)
NamesLeft == Cardinality(Access \cap drawn) + Cardinality(Worker) <= load.tokens

(* A family of its own, of no session: device-grant's, jwt-bearer's.       *)
BeginStart(w) ==
  /\ NamesLeft
  /\ \E f \in load.families \ drawn, a \in Access \ drawn :
       /\ drawn' = drawn \cup {f, a}
       /\ Begin(w, "start", <<Found(f, NoSession, a), Giving({<<f, 1>>}, a)>>)
  /\ UNCHANGED <<familyVars, listVars, denied, entering, given, held, finished, takenBack>>

BeginUse(w) ==
  /\ NamesLeft
  /\ \E t \in given : t[2] < MaxSecrets /\ Begin(w, "use", <<Using(t[1], t[2])>>)
  /\ UNCHANGED <<familyVars, listVars, outsideVars>>

BeginClose(w) ==
  /\ \E s \in Session :
       /\ entering' = entering \ {s}
       /\ Begin(w, "close", <<[pc |-> "close.members", s |-> s, todo |-> {}]>>)
  /\ UNCHANGED <<familyVars, listVars, denied, drawn, given, held, finished, takenBack>>

BeginSweep(w) ==
  /\ Begin(w, "sweep", <<[pc |-> "sweep", todo |-> settles]>>)
  /\ UNCHANGED <<familyVars, listVars, outsideVars>>

BeginControl(w) ==
  /\ \E t \in given : Begin(w, "control", <<[pc |-> "control.read", f |-> t[1]]>>)
  /\ UNCHANGED <<familyVars, listVars, outsideVars>>

(* A token holds while it is not denied and its family lives (conditionOver). *)
Holds(a) == a \notin denied /\ (link[a] \in Family => Alive(link[a]))

BeginAdopt(w) ==
  /\ NamesLeft
  /\ \E b \in held, a \in Access \ drawn :
       /\ Holds(b) /\ link[b] \in Family
       /\ drawn' = drawn \cup {a}
       /\ Begin(w, "adopt", <<[pc |-> "adopt.read", f |-> link[b], a |-> a]>>)
  /\ UNCHANGED <<familyVars, listVars, denied, entering, given, held, finished, takenBack>>

Beginning(w) ==
  \/ BeginStart(w)
  \/ BeginUse(w)
  \/ BeginClose(w)
  \/ BeginSweep(w)
  \/ BeginControl(w)
  \/ BeginAdopt(w)

FamiliesNext == \E w \in Worker : Work(w) \/ Beginning(w) \/ Fails(w) \/ Crash(w)

Trouble == \E w \in Worker : Fails(w) \/ Crash(w)

(* The frames of the stacks, by the calls they are in.                     *)
FamilyFrames ==
  [pc : {"revoke.add", "revoke.mark", "revoke.save", "revoke.members", "revoke.awaiting", "revoke.deny",
         "revoke.settle", "revoke.done"}, f : Family, todo : SUBSET Access, gone : SUBSET Access]
  \cup [pc : {"record.link", "record.add", "record.settle", "adopt.read", "adopt.check"}, f : Family, a : Access]
  \cup [pc : {"record.push"}, f : Family, todo : SUBSET Access]
  \cup [pc : {"found.save", "found.confirm"}, f : Family, s : Session \cup {NoSession}, a : Access]
  \cup [pc : {"start.name", "start.list", "start.enter"}, r : Redemption, f : Family, s : Session, a : Access]
  \cup [pc : {"start.drop", "close.members", "close.each", "close.rest"}, s : Session, todo : SUBSET Family]
  \cup [pc : {"session.settled"}, s : Session, f : Family]
  \cup [pc : {"take.mark", "take.read", "take.done"}, r : Redemption]
  \cup [pc : {"give"}, tokens : SUBSET (Family \X (1 .. MaxSecrets)), a : Access]
  \cup [pc : {"use.read", "use.valid"}, f : Family, n : 1 .. MaxSecrets - 1, s : Session \cup {NoSession},
         a : {"none"}]
  \cup [pc : {"use.select", "use.enter", "use.rotate"}, f : Family, n : 1 .. MaxSecrets - 1,
         s : Session \cup {NoSession}, a : Access]
  \cup [pc : {"sweep"}, todo : SUBSET Family]
  \cup [pc : {"control.read"}, f : Family]
  \cup [pc : {"throw"}]

FamiliesTypeOK ==
  /\ load \in Loads
  /\ family \in [Family -> {NoFamily, Revoked} \cup
                 {LiveFamily(n, s) : n \in 1 .. MaxSecrets, s \in Session \cup {NoSession}}]
  /\ begun \in [Redemption -> Family \cup {"none", "taken"}]
  /\ bySession \in [Session -> [held : SUBSET Family, awaiting : SUBSET Family]]
  /\ issued \in [Family -> [held : SUBSET Access, awaiting : SUBSET Access]]
  /\ link \in [Access -> Family \cup {"none"}]
  /\ settles \subseteq Family /\ denied \subseteq Access /\ entering \subseteq Session
  /\ drawn \subseteq Access \cup Family
  /\ secrets \in [Family -> 0 .. MaxSecrets]
  /\ spent \subseteq [family : Family, from : 1 .. MaxSecrets, to : 1 .. MaxSecrets]
  /\ given \subseteq Family \X (1 .. MaxSecrets) /\ held \subseteq Access
  /\ finished \subseteq Session /\ takenBack \subseteq Redemption

(* A refresh token is good for one round: however many uses of it race,    *)
(* one rotates the family from it (grant.ts, the rotation's change).       *)
SpentOnce ==
  \A x, y \in spent : x.family = y.family /\ x.from = y.from => x = y

(* Once a revocation of a family is off the settle list, nothing a client  *)
(* holds of it was missed: every access token is denied, whether recorded, *)
(* pushed out of the family's list or adopted while the revocation ran.    *)
CleanupReachesAll ==
  \A a \in held :
    link[a] \in Family /\ family[link[a]] = Revoked /\ link[a] \notin settles => a \in denied

(* However a revocation stopped, once stores answer and hosts stay up every *)
(* access token a client holds of an ended family is denied: the settle    *)
(* list names it until a sweep gets through.                               *)
EndedTokensDenied ==
  <>[][~Trouble]_vars =>
    \A a \in Access : (a \in held /\ link[a] \in Family /\ family[link[a]] = Revoked) ~> a \in denied

(* A session whose closing this participant finished keeps no family live, *)
(* nor starts one, though its list pushed families out and starts of its   *)
(* codes were under way (participantOver, starting).                       *)
ClosedKeepsNone ==
  \A f \in Family : Alive(f) => family[f].session \notin finished

(* A redemption taken back has no family, now or later (takingBack).       *)
TakenBackHasNone ==
  \A r \in takenBack : begun[r] # "none" /\ \A f \in Family : begun[r] = f => ~Alive(f)
=============================================================================
