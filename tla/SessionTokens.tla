--------------------------- MODULE SessionTokens ---------------------------
(***************************************************************************)
(* The access tokens issued from sessions, as modules/oauth/session-tokens *)
(* keeps them: each recorded before it is answered, at most so many to a   *)
(* session, those pushed out revoked at once or by a sweep, and all of     *)
(* them revoked when their session closes.  The session grant is here as   *)
(* the simplest grant that issues them; DeviceGrant adds another.          *)
(*                                                                         *)
(* Each call to a store is one step, atomic and kept by failovers (what    *)
(* Records shows of a record).  Lifetimes are left out: a record outlasts  *)
(* its token.  Token ids are drawn fresh, so an index entry is never found *)
(* to name another session.                                                *)
(***************************************************************************)
EXTENDS KeyedSets, Sequences, TLC

CONSTANTS
  Session, Token,
  Worker,  \* requests, closings and sweeps under way at once
  Loads    \* what may go on: see `load`

ASSUME SessionTokensAssumption ==
  \A l \in Loads :
    /\ l.tokens \subseteq Token
    /\ l.cap \in Nat \ {0} /\ l.margin \in 0 .. l.cap - 1 /\ l.faults \in Nat

VARIABLES
  load,      \* what goes on: operations taken up, tokens that may be issued, the cap of
             \* references to a session and its margin, the frames that may throw or crash
             \* and how many do; it never changes
  kept,      \* IssuedTokens: each session's references, held and awaiting
  index,     \* TokenIndex: the session of each token, or none
  pending,   \* PendingSessions: sessions whose sets may have some awaiting
  denied,    \* tokens revoked
  entering,  \* sessions that let in at use: not closing, closed or ended
  drawn,     \* tokens made so far
  given,     \* tokens a response carried out
  finished,  \* ghost: sessions this participant finished closing
  faults,    \* calls that failed and hosts that stopped, so far
  task       \* each worker's stack of calls

setVars == <<kept, index, pending>>
outsideVars == <<denied, entering, drawn, given, finished, faults>>
vars == <<load, setVars, outsideVars, task>>

(* What catches: issuing, which revokes the token it made; the session     *)
(* grant's look after it, which does too; and a sweep, which goes on.      *)
Handlers ==
  [pc \in {"issue.told", "session.keep", "sweep"} |->
     CASE pc = "issue.told" -> "issue.undo"
       [] pc = "session.keep" -> "session.undo"
       [] pc = "sweep" -> "sweep"]

INSTANCE Calls WITH OnThrow <- Handlers

SessionTokensInit ==
  /\ load \in Loads
  /\ kept = [s \in Session |-> NoMembers]
  /\ index = [t \in Token |-> "none"]
  /\ pending = {} /\ denied = {} /\ entering = Session
  /\ drawn = {} /\ given = {} /\ finished = {} /\ faults = 0
  /\ task = [w \in Worker |-> <<>>]

(* A store that is unavailable, or a full list that refuses.               *)
Fails(w) ==
  /\ ~Idle(w) /\ Top(w).pc \in load.fails /\ faults < load.faults
  /\ faults' = faults + 1 /\ Throw(w)
  /\ UNCHANGED <<setVars, denied, entering, drawn, given, finished>>

Crash(w) ==
  /\ ~Idle(w) /\ Top(w).pc \in load.crashes /\ faults < load.faults
  /\ faults' = faults + 1 /\ Drop(w)
  /\ UNCHANGED <<setVars, denied, entering, drawn, given, finished>>

(* Revoking a reference, by whoever holds it.                              *)
Deny(t) ==
  /\ denied' = denied \cup {t}
  /\ UNCHANGED <<entering, drawn, given, finished, faults>>

----------------------------------------------------------------------------
(* settler: what awaits is revoked and settled; then the session leaves    *)
(* the list, unless more awaits, and is listed again if more came.         *)
Settle(s) == [pc |-> "settle.read", s |-> s, todo |-> {}]

SettleRead(w) ==
  LET t == Top(w) IN
  /\ Doing(w, "settle.read")
  /\ Become(w, <<[t EXCEPT !.pc = "settle.deny", !.todo = kept[t.s].awaiting]>>)
  /\ UNCHANGED <<setVars, outsideVars>>

SettleDeny(w) ==
  LET t == Top(w) IN
  /\ Doing(w, "settle.deny")
  /\ \/ \E a \in t.todo :
          Become(w, <<[pc |-> "settle.take", s |-> t.s, a |-> a], [t EXCEPT !.todo = @ \ {a}]>>) /\ Deny(a)
     \/ t.todo = {} /\ To(w, "settle.check") /\ UNCHANGED outsideVars
  /\ UNCHANGED setVars

SettleTake(w) ==
  LET t == Top(w) IN
  /\ Doing(w, "settle.take")
  /\ kept' = [kept EXCEPT ![t.s] = Settled(@, t.a)]
  /\ Return(w)
  /\ UNCHANGED <<index, pending, outsideVars>>

SettleCheck(w) ==
  /\ Doing(w, "settle.check")
  /\ IF kept[Top(w).s].awaiting = {} THEN To(w, "settle.done") ELSE Return(w)
  /\ UNCHANGED <<setVars, outsideVars>>

SettleDone(w) ==
  /\ Doing(w, "settle.done")
  /\ pending' = pending \ {Top(w).s}
  /\ To(w, "settle.again")
  /\ UNCHANGED <<kept, index, outsideVars>>

(* Broken: nothing is read again once the session is off the list.         *)
SettleNotAgain(w) ==
  /\ Doing(w, "settle.again")
  /\ Return(w)
  /\ UNCHANGED <<setVars, outsideVars>>

SettleAgain(w) ==
  /\ Doing(w, "settle.again")
  /\ IF kept[Top(w).s].awaiting = {} THEN Return(w) ELSE To(w, "settle.add")
  /\ UNCHANGED <<setVars, outsideVars>>

SettleAdd(w) ==
  /\ Doing(w, "settle.add")
  /\ pending' = pending \cup {Top(w).s}
  /\ Return(w)
  /\ UNCHANGED <<kept, index, outsideVars>>

SettleStep(w) ==
  \/ SettleRead(w)
  \/ SettleDeny(w)
  \/ SettleTake(w)
  \/ SettleCheck(w)
  \/ SettleDone(w)
  \/ SettleAgain(w)
  \/ SettleAdd(w)

----------------------------------------------------------------------------
(* recorder: indexed, then kept; listed first when the set is near its     *)
(* size, and again when the add pushed one out.                            *)
Record(s, a) == [pc |-> "record.index", s |-> s, a |-> a]

RecordIndex(w) ==
  LET t == Top(w) IN
  /\ Doing(w, "record.index")
  /\ index' = [index EXCEPT ![t.a] = t.s]
  /\ To(w, "record.near")
  /\ UNCHANGED <<kept, pending, outsideVars>>

RecordNear(w) ==
  /\ Doing(w, "record.near")
  /\ To(w, IF Cardinality(kept[Top(w).s].held) >= load.cap - load.margin
           THEN "record.list" ELSE "record.add")
  /\ UNCHANGED <<setVars, outsideVars>>

RecordList(w) ==
  /\ Doing(w, "record.list")
  /\ pending' = pending \cup {Top(w).s}
  /\ To(w, "record.add")
  /\ UNCHANGED <<kept, index, outsideVars>>

RecordAdd(w) ==
  LET t == Top(w) IN
  /\ Doing(w, "record.add")
  /\ \E out \in OverCap(kept[t.s].held, t.a, load.cap) :
       /\ kept' = [kept EXCEPT ![t.s] = Added(@, t.a, out)]
       /\ IF out = {} THEN Return(w) ELSE To(w, "record.relist")
  /\ UNCHANGED <<index, pending, outsideVars>>

(* Broken: taken as listed before the add.                                 *)
RecordRelistNot(w) ==
  /\ Doing(w, "record.relist")
  /\ Become(w, <<Settle(Top(w).s)>>)
  /\ UNCHANGED <<setVars, outsideVars>>

RecordRelist(w) ==
  /\ Doing(w, "record.relist")
  /\ pending' = pending \cup {Top(w).s}
  /\ Become(w, <<Settle(Top(w).s)>>)
  /\ UNCHANGED <<kept, index, outsideVars>>

RecordStep(w) == RecordIndex(w) \/ RecordNear(w) \/ RecordList(w) \/ RecordAdd(w) \/ RecordRelist(w)

----------------------------------------------------------------------------
(* token-endpoint's issuance from a session: the token is made, or refused *)
(* by a policy; whoever records it is told; a failure revokes it.  `then`  *)
(* names the grant's own step once it is recorded.                         *)
Issue(s, then, d) == [pc |-> "issue.make", s |-> s, then |-> then, d |-> d]

IssueMake(w) ==
  LET t == Top(w) IN
  /\ Doing(w, "issue.make")
  /\ \/ \E a \in load.tokens \ drawn :
          /\ drawn' = drawn \cup {a}
          /\ Become(w, <<Record(t.s, a), [pc |-> "issue.told", s |-> t.s, then |-> t.then, d |-> t.d, a |-> a]>>)
     \/ Return(w) /\ UNCHANGED drawn
  /\ UNCHANGED <<setVars, denied, entering, given, finished, faults>>

IssueTold(w) ==
  /\ Doing(w, "issue.told")
  /\ To(w, Top(w).then)
  /\ UNCHANGED <<setVars, outsideVars>>

(* The failure told is the one thrown on, whether this revocation fails.   *)
IssueUndo(w) ==
  /\ Doing(w, "issue.undo")
  /\ Deny(Top(w).a) /\ Throw(w)
  /\ UNCHANGED setVars

IssueStep(w) == IssueMake(w) \/ IssueTold(w) \/ IssueUndo(w)

----------------------------------------------------------------------------
(* session-grant: entered, issued, and looked at again before it answers.  *)
SessionEnter(w) ==
  LET s == Top(w).s IN
  /\ Doing(w, "session.enter")
  /\ Become(w, IF s \in entering THEN <<Issue(s, "session.keep", "none")>> ELSE <<>>)
  /\ UNCHANGED <<setVars, outsideVars>>

SessionKeep(w) ==
  LET t == Top(w) IN
  /\ Doing(w, "session.keep")
  /\ IF t.s \in entering THEN Return(w) /\ given' = given \cup {t.a}
     ELSE To(w, "session.undo") /\ UNCHANGED given
  /\ UNCHANGED <<setVars, denied, entering, drawn, finished, faults>>

SessionUndo(w) ==
  /\ Doing(w, "session.undo")
  /\ Deny(Top(w).a) /\ Return(w)
  /\ UNCHANGED setVars

SessionStep(w) == SessionEnter(w) \/ SessionKeep(w) \/ SessionUndo(w)

----------------------------------------------------------------------------
(* The participant in closing: what the set holds is revoked, then what    *)
(* awaits, which is settled too.                                           *)
CloseHeld(w) ==
  LET t == Top(w) IN
  /\ Doing(w, "close.held")
  /\ Become(w, <<[t EXCEPT !.pc = "close.deny", !.todo = kept[t.s].held]>>)
  /\ UNCHANGED <<setVars, outsideVars>>

CloseDeny(w) ==
  LET t == Top(w) IN
  /\ Doing(w, "close.deny")
  /\ \/ \E a \in t.todo : Become(w, <<[t EXCEPT !.todo = @ \ {a}]>>) /\ Deny(a)
     \/ t.todo = {} /\ To(w, "close.awaiting") /\ UNCHANGED outsideVars
  /\ UNCHANGED setVars

CloseAwaiting(w) ==
  LET t == Top(w) IN
  /\ Doing(w, "close.awaiting")
  /\ Become(w, <<[t EXCEPT !.pc = "close.rest", !.todo = kept[t.s].awaiting]>>)
  /\ UNCHANGED <<setVars, outsideVars>>

CloseRest(w) ==
  LET t == Top(w) IN
  /\ Doing(w, "close.rest")
  /\ \/ \E a \in t.todo :
          Become(w, <<[pc |-> "settle.take", s |-> t.s, a |-> a], [t EXCEPT !.todo = @ \ {a}]>>) /\ Deny(a)
     \/ /\ t.todo = {} /\ Return(w)
        /\ finished' = finished \cup {t.s}
        /\ UNCHANGED <<denied, entering, drawn, given, faults>>
  /\ UNCHANGED setVars

CloseStep(w) == CloseHeld(w) \/ CloseDeny(w) \/ CloseAwaiting(w) \/ CloseRest(w)

SweepNext(w) ==
  LET t == Top(w) IN
  /\ Doing(w, "sweep")
  /\ \/ \E s \in t.todo : Become(w, <<Settle(s), [t EXCEPT !.todo = @ \ {s}]>>)
     \/ t.todo = {} /\ Return(w)
  /\ UNCHANGED <<setVars, outsideVars>>

Work(w) ==
  SettleStep(w) \/ RecordStep(w) \/ IssueStep(w) \/ SessionStep(w) \/ CloseStep(w) \/ SweepNext(w)

----------------------------------------------------------------------------
(* What a worker takes up.                                                 *)
Begin(w, op, stack) == op \in load.ops /\ Start(w, stack)

BeginSession(w) ==
  /\ \E s \in Session : Begin(w, "session", <<[pc |-> "session.enter", s |-> s]>>)
  /\ load.tokens # drawn
  /\ UNCHANGED <<setVars, outsideVars>>

(* session-lifecycle closes it first, and calls its participants; again    *)
(* while one has not finished.                                             *)
BeginClose(w) ==
  /\ \E s \in Session \ finished :
       /\ entering' = entering \ {s}
       /\ Begin(w, "close", <<[pc |-> "close.held", s |-> s, todo |-> {}]>>)
  /\ UNCHANGED <<setVars, denied, drawn, given, finished, faults>>

BeginSweep(w) ==
  /\ pending # {}
  /\ Begin(w, "sweep", <<[pc |-> "sweep", s |-> "every", todo |-> pending]>>)
  /\ UNCHANGED <<setVars, outsideVars>>

Trouble == \E w \in Worker : Fails(w) \/ Crash(w)

SessionTokensNext ==
  \E w \in Worker :
    Work(w) \/ BeginSession(w) \/ BeginClose(w) \/ BeginSweep(w) \/ Fails(w) \/ Crash(w)

----------------------------------------------------------------------------
TokenPcs ==
  {"settle.read", "settle.deny", "settle.take", "settle.check", "settle.done", "settle.again", "settle.add",
   "record.index", "record.near", "record.list", "record.add", "record.relist",
   "issue.make", "issue.told", "issue.undo", "session.enter", "session.keep", "session.undo",
   "close.held", "close.deny", "close.awaiting", "close.rest", "sweep"}

SessionTokensTypeOK ==
  /\ load \in Loads
  /\ kept \in [Session -> [held : SUBSET Token, awaiting : SUBSET Token]]
  /\ index \in [Token -> Session \cup {"none"}]
  /\ pending \subseteq Session /\ entering \subseteq Session /\ finished \subseteq Session
  /\ given \subseteq drawn /\ denied \subseteq drawn /\ drawn \subseteq Token
  /\ faults \in 0 .. load.faults
  /\ \A w \in Worker : Len(task[w]) <= 3

(* Once this participant finished closing a session, every token a client  *)
(* got from it is revoked: whether held by its set, pushed out between the *)
(* participant's two reads, or being made and recorded as the session      *)
(* closed (module.ts closing; grant.ts stillOpen, keep).                   *)
ClosedKeepsNone == \A a \in given : index[a] \in finished => a \in denied

(* What an add pushed out is never forgotten: its session is on the list   *)
(* the sweeps walk, or someone who will list it or settle it is under way, *)
(* whichever of a sweep and an add read or wrote last, and though one call *)
(* fails or one host stops anywhere but between the add and its listing    *)
(* (module.ts settler, recorder: "whichever came last").                   *)
AwaitingFollowed ==
  \A s \in Session : kept[s].awaiting # {} =>
    s \in pending \/ Engaged({"record.relist", "settle.read", "settle.deny", "settle.take", "settle.check",
                              "settle.done", "settle.again", "settle.add"}, s)
=============================================================================
