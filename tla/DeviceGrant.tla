---------------------------- MODULE DeviceGrant ----------------------------
(***************************************************************************)
(* The device authorization grant, as modules/oauth/device-grant serves    *)
(* it: a device is authorized, one of the browsers shown its code decides  *)
(* it, and one of its polls takes the decision and is answered a token     *)
(* issued from the deciding session, recorded as SessionTokens has it.     *)
(*                                                                         *)
(* A poll that comes too soon is refused and only widens its interval, and *)
(* another client's poll writes nothing: either is a refusal here.  A      *)
(* subject's revocation keeps its sessions from entering (SessionLifecycle,*)
(* ShutByBoundary), so the grant's own check of it may refuse only then.   *)
(***************************************************************************)
EXTENDS SessionTokens

CONSTANT Device

VARIABLES
  device,   \* each device's record: its state, and the session that approved it
  coded,    \* devices a user code names
  ended,    \* devices whose code's lifetime is over
  told,     \* decisions told to a browser, <<device, action, worker>>
  answers   \* tokens answered to a device, <<device, token>>

deviceVars == <<device, coded, ended, told, answers>>
allVars == <<vars, deviceVars>>

NoDevice == [state |-> "none"]
InState(st) == [state |-> st]
ApprovedBy(s) == [state |-> "approved", session |-> s]
Live(d) == device[d].state # "none" /\ d \notin ended

Init ==
  /\ SessionTokensInit
  /\ device = [d \in Device |-> NoDevice]
  /\ coded = {} /\ ended = {} /\ told = {} /\ answers = {}

----------------------------------------------------------------------------
(* Device authorization: the record, then the user code that names it.     *)
AuthorizeSave(w) ==
  LET d == Top(w).d IN
  /\ Doing(w, "authorize.save")
  /\ device' = [device EXCEPT ![d] = InState("pending")]
  /\ To(w, "authorize.code")
  /\ UNCHANGED <<setVars, outsideVars, coded, ended, told, answers>>

AuthorizeCode(w) ==
  /\ Doing(w, "authorize.code")
  /\ coded' = coded \cup {Top(w).d}
  /\ Return(w)
  /\ UNCHANGED <<setVars, outsideVars, device, ended, told, answers>>

----------------------------------------------------------------------------
(* Verification: a signed-in browser is counted and finds the device; an   *)
(* approval asks the policies; then the record is decided from pending.    *)
VerifyEnter(w) ==
  /\ Doing(w, "verify.enter")
  /\ \/ Top(w).s \in entering /\ To(w, "verify.find")
     \/ Return(w)
  /\ UNCHANGED <<setVars, outsideVars, deviceVars>>

VerifyFind(w) ==
  LET t == Top(w) IN
  /\ Doing(w, "verify.find")
  /\ \/ /\ t.d \in coded /\ Live(t.d)
        /\ To(w, IF t.action = "approve" THEN "verify.admit" ELSE "verify.decide")
     \/ (t.d \notin coded \/ ~Live(t.d)) /\ Return(w)
  /\ UNCHANGED <<setVars, outsideVars, deviceVars>>

VerifyAdmit(w) ==
  /\ Doing(w, "verify.admit")
  /\ To(w, "verify.decide") \/ Return(w)
  /\ UNCHANGED <<setVars, outsideVars, deviceVars>>

(* Broken: an approval that keeps no session.                              *)
DecidedUnbound(t) == InState(IF t.action = "approve" THEN "approved" ELSE "denied")

Decided(t) == IF t.action = "approve" THEN ApprovedBy(t.s) ELSE InState("denied")

(* Broken: decided over what another decided since the device was found.   *)
VerifyDecideAnew(w) ==
  LET t == Top(w) IN
  /\ Doing(w, "verify.decide")
  /\ \/ Live(t.d) /\ To(w, "verify.tell") /\ device' = [device EXCEPT ![t.d] = Decided(t)]
     \/ ~Live(t.d) /\ Return(w) /\ UNCHANGED device
  /\ UNCHANGED <<setVars, outsideVars, coded, ended, told, answers>>

VerifyDecide(w) ==
  LET t == Top(w)
      open == Live(t.d) /\ device[t.d].state = "pending" IN
  /\ Doing(w, "verify.decide")
  /\ \/ open /\ To(w, "verify.tell") /\ device' = [device EXCEPT ![t.d] = Decided(t)]
     \/ ~open /\ Return(w) /\ UNCHANGED device
  /\ UNCHANGED <<setVars, outsideVars, coded, ended, told, answers>>

VerifyTell(w) ==
  LET t == Top(w) IN
  /\ Doing(w, "verify.tell")
  /\ told' = told \cup {<<t.d, t.action, w>>}
  /\ Return(w)
  /\ UNCHANGED <<setVars, outsideVars, device, coded, ended, answers>>

----------------------------------------------------------------------------
(* A poll: an approval read is put to its session and the policies first,  *)
(* so that a refusal leaves it; then one rewrite takes the decision.       *)
PollRead(w) ==
  LET t == Top(w)
      r == device[t.d] IN
  /\ Doing(w, "poll.read")
  /\ \/ r.state = "approved" /\ Become(w, <<[t EXCEPT !.pc = "poll.open", !.s = r.session]>>)
     \/ r.state # "approved" /\ To(w, "poll.take")
  /\ UNCHANGED <<setVars, outsideVars, deviceVars>>

PollOpen(w) ==
  /\ Doing(w, "poll.open")
  /\ IF Top(w).s \in entering THEN To(w, "poll.admit") ELSE Return(w)
  /\ UNCHANGED <<setVars, outsideVars, deviceVars>>

PollAdmit(w) ==
  /\ Doing(w, "poll.admit")
  /\ To(w, "poll.take") \/ Return(w)
  /\ UNCHANGED <<setVars, outsideVars, deviceVars>>

PollTake(w) ==
  LET t == Top(w)
      r == device[t.d] IN
  /\ Doing(w, "poll.take")
  /\ \/ /\ Live(t.d) /\ r.state = "approved"
        /\ device' = [device EXCEPT ![t.d].state = "taken"]
        /\ Become(w, <<[t EXCEPT !.pc = "poll.revoked", !.s = r.session]>>)
     \/ /\ Live(t.d) /\ r.state = "denied"
        /\ device' = [device EXCEPT ![t.d].state = "taken"]
        /\ Return(w)
     \/ Return(w) /\ UNCHANGED device
  /\ UNCHANGED <<setVars, outsideVars, coded, ended, told, answers>>

PollRevoked(w) ==
  /\ Doing(w, "poll.revoked")
  /\ \/ To(w, "poll.entry")
     \/ Top(w).s \notin entering /\ Return(w)
  /\ UNCHANGED <<setVars, outsideVars, deviceVars>>

PollEntry(w) ==
  LET t == Top(w) IN
  /\ Doing(w, "poll.entry")
  /\ Become(w, IF t.s \in entering THEN <<Issue(t.s, "poll.answer", t.d)>> ELSE <<>>)
  /\ UNCHANGED <<setVars, outsideVars, deviceVars>>

(* Broken: answered without a look at what came while it was made.         *)
PollAnswerUnseen(w) ==
  LET t == Top(w) IN
  /\ Doing(w, "poll.answer")
  /\ answers' = answers \cup {<<t.d, t.a>>} /\ given' = given \cup {t.a}
  /\ Return(w)
  /\ UNCHANGED <<setVars, denied, entering, drawn, finished, faults, device, coded, ended, told>>

(* A logout that came while the token was made: it is answered to nobody.  *)
PollAnswer(w) ==
  LET t == Top(w) IN
  /\ Doing(w, "poll.answer")
  /\ IF t.s \in entering
     THEN answers' = answers \cup {<<t.d, t.a>>} /\ given' = given \cup {t.a}
     ELSE UNCHANGED <<answers, given>>
  /\ Return(w)
  /\ UNCHANGED <<setVars, denied, entering, drawn, finished, faults, device, coded, ended, told>>

DeviceWork(w) ==
  \/ AuthorizeSave(w)
  \/ AuthorizeCode(w)
  \/ VerifyEnter(w)
  \/ VerifyFind(w)
  \/ VerifyAdmit(w)
  \/ VerifyDecide(w)
  \/ VerifyTell(w)
  \/ PollRead(w)
  \/ PollOpen(w)
  \/ PollAdmit(w)
  \/ PollTake(w)
  \/ PollRevoked(w)
  \/ PollEntry(w)
  \/ PollAnswer(w)

----------------------------------------------------------------------------
(* A device code is drawn fresh: each device is authorized once.           *)
BeginDevice(w) ==
  /\ \E d \in Device :
       /\ device[d] = NoDevice /\ ~\E v \in Worker : Doing(v, "authorize.save") /\ Top(v).d = d
       /\ Begin(w, "device", <<[pc |-> "authorize.save", s |-> "none", d |-> d]>>)
  /\ UNCHANGED <<setVars, outsideVars, deviceVars>>

BeginVerify(w) ==
  /\ \E d \in coded, s \in Session, action \in {"approve", "deny"} :
       Begin(w, "verify", <<[pc |-> "verify.enter", s |-> s, d |-> d, action |-> action]>>)
  /\ UNCHANGED <<setVars, outsideVars, deviceVars>>

BeginPoll(w) ==
  /\ load.tokens # drawn
  /\ \E d \in Device :
       /\ device[d] # NoDevice
       /\ Begin(w, "poll", <<[pc |-> "poll.read", s |-> "none", d |-> d]>>)
  /\ UNCHANGED <<setVars, outsideVars, deviceVars>>

(* A code's lifetime ends; its record is kept as long again.               *)
DeviceEnds(d) ==
  /\ "end" \in load.ops /\ device[d] # NoDevice /\ d \notin ended
  /\ ended' = ended \cup {d}
  /\ UNCHANGED <<setVars, outsideVars, task, device, coded, told, answers>>

Next ==
  /\ \/ SessionTokensNext /\ UNCHANGED deviceVars
     \/ \E w \in Worker : DeviceWork(w) \/ BeginDevice(w) \/ BeginVerify(w) \/ BeginPoll(w)
     \/ \E d \in Device : DeviceEnds(d)
  /\ UNCHANGED load

Spec == Init /\ [][Next]_allVars

(* Calls come back, and each host walks the list ever again (c.every).     *)
FairSpec ==
  /\ Spec
  /\ \A w \in Worker :
       /\ WF_allVars(((Work(w) /\ UNCHANGED deviceVars) \/ DeviceWork(w)) /\ UNCHANGED load)
       /\ SF_allVars(BeginSweep(w) /\ UNCHANGED <<deviceVars, load>>)

----------------------------------------------------------------------------
DevicePcs ==
  {"authorize.save", "authorize.code",
   "verify.enter", "verify.find", "verify.admit", "verify.decide", "verify.tell",
   "poll.read", "poll.open", "poll.admit", "poll.take", "poll.revoked", "poll.entry", "poll.answer"}

TypeOK ==
  /\ SessionTokensTypeOK
  /\ \A w \in Worker : \A i \in DOMAIN task[w] : task[w][i].pc \in TokenPcs \cup DevicePcs
  /\ device \in [Device -> {NoDevice} \cup {InState(st) : st \in {"pending", "denied", "taken"}}
                           \cup [state : {"approved", "taken"}, session : Session]]
  /\ coded \subseteq Device /\ ended \subseteq Device
  /\ told \subseteq Device \X {"approve", "deny"} \X Worker /\ answers \subseteq Device \X Token

(* Of all the browsers that decide a device and all the polls that ask for *)
(* the decision, however they interleave and stop, one browser is told it  *)
(* decided, one poll is answered a token, and none where a denial was told *)
(* (verification.ts "Decided once"; grant.ts polled, on the record the     *)
(* rewrite replaced).                                                      *)
DecidedOnce ==
  /\ \A x, y \in told : x[1] = y[1] => x = y
  /\ \A x, y \in answers : x[1] = y[1] => x = y
  /\ \A x \in told, y \in answers : x[1] = y[1] => x[2] = "approve"

(* Whatever an add pushed out of its session's set is revoked in the end,  *)
(* though the add's own revocation failed: the list names its session      *)
(* until a sweep gets through (module.ts recorder, the sweep).             *)
PushedOutDenied ==
  \A a \in Token : (\E s \in Session : a \in kept[s].awaiting) ~> a \in denied
=============================================================================
