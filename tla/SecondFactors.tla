--------------------------- MODULE SecondFactors ---------------------------
(***************************************************************************)
(* A user's second factors, as modules/second-factor keeps them: a list    *)
(* under a fence, factors bound in steps and recovery codes written beside *)
(* them (mfa), proved in a login's or a step-up's transaction with the     *)
(* lockout spent first, and the lockout released on a proof guessing       *)
(* cannot beat (mfa-flows).                                                *)
(*                                                                         *)
(* A list is changed from what it holds at once; a first one is saved, and *)
(* changed where another's was saved first.  Kinds are an authenticator's  *)
(* ("totp"), one that does not count for the login ("mail"), and recovery  *)
(* codes ("codes").  A proof is a number the factor would give, or a wrong *)
(* one.  The witness and unique values' claims are left out: no kind of    *)
(* these has one, and no witness is composed.                              *)
(***************************************************************************)
EXTENDS Calls, FiniteSets, Lockouts

CONSTANTS
  Transaction,  \* transactions started
  Session,      \* the subject's sessions: a permit is one session's
  Loads         \* what may go on: see `load`

VARIABLES
  load,      \* operations taken up, what was held at first, limits; it never changes
  list,      \* the subject's factors and fence, or none written yet
  ids,       \* ghost: factors made so far
  before,    \* ghost: factors held when the fence last moved
  lockout,   \* the subject's lockout
  now,       \* the store's time
  attempts,  \* attempts left of each transaction
  taken,     \* transactions taken
  permit,    \* each session's permit to release the lockout: from when, and whether used
  granted,   \* ghost: permits granted, each by its session and from when
  wrong,     \* ghost: wrong guesses kept, each by its reservation and when it was made
  accepted,  \* ghost: proofs a transaction went on from
  troubles

listVars == <<list, ids, before>>
proofVars == <<attempts, taken, accepted>>
lockVars == <<lockout, permit, granted, wrong>>
vars == <<task, load, listVars, proofVars, lockVars, now, troubles>>

Absent == [factors |-> {}, fences |-> 0, written |-> FALSE]

FactorType == [id : Nat, kind : {"totp", "mail", "codes"}, state : SUBSET Nat, begun : Nat]
Factor(id, kind, begun) == [id |-> id, kind |-> kind, state |-> {}, begun |-> begun]
Counts(fs) == {f \in fs : f.kind = "totp"}
Codes(fs) == {f \in fs : f.kind = "codes"}
Named(fs, id) == {f \in fs : f.id = id}

(* The codes are due beside a factor that counts.                          *)
Due(fs) == Codes(fs) = {} /\ Counts(fs) # {}
Ordered(fs, most) ==
  /\ Cardinality(fs) + (IF Due(fs) THEN 1 ELSE 0) <= most
  /\ Codes(fs) # {} => Counts(fs) # {}
  /\ Cardinality(Codes(fs)) <= 1

ASSUME FactorsAssumption ==
  /\ \A l \in Loads :
       /\ l.ids \in Nat /\ l.maxFactors \in Nat /\ l.attempts \in Nat /\ l.horizon \in Nat /\ l.troubles \in Nat
       /\ l.held \subseteq FactorType /\ IsFiniteSet(l.held) /\ Ordered(l.held, l.maxFactors)
       /\ \A f, g \in l.held : f.id \in 1 .. Cardinality(l.held) /\ (f.id = g.id => f = g)
       /\ l.proofs \subseteq Nat
       /\ l.policy.budget \in Nat /\ l.policy.window \in Nat
  /\ DOMAIN OnThrow \subseteq {"verify.spend", "prove.read", "prove.decide", "verify.take", "verify.succeed"}
  /\ \A pc \in DOMAIN OnThrow : OnThrow[pc] \in {"verify.abandon", "verify.giveback"}

NoPermit == [at |-> 0, used |-> FALSE]

Init ==
  /\ load \in Loads
  /\ list = IF load.held = {} THEN Absent ELSE [factors |-> load.held, fences |-> 0, written |-> TRUE]
  /\ ids = Cardinality(load.held) /\ before = {}
  /\ lockout = NoLockout /\ now = 1
  /\ \E started \in kSubset(load.started, Transaction) :
       attempts = [x \in Transaction |-> IF x \in started THEN load.attempts ELSE 0]
  /\ taken = {} /\ accepted = {}
  /\ permit = [s \in Session |-> NoPermit] /\ granted = {} /\ wrong = {}
  /\ troubles = 0
  /\ task = [w \in Worker |-> <<>>]

Trouble(kind) == kind \in load.kinds /\ troubles < load.troubles /\ troubles' = troubles + 1

----------------------------------------------------------------------------
(* records.decide: the list changed from what it holds; one not written    *)
(* yet is saved, decided on as none, unless another saved one first.       *)
Leave(verdict) == [next |-> list, verdict |-> verdict]
Write(factors, fences, verdict) ==
  [next |-> [factors |-> factors, fences |-> fences, written |-> TRUE], verdict |-> verdict]

Decided(judged) ==
  /\ list' = judged.next
  /\ before' = IF judged.next.fences > list.fences
               THEN {f.id : f \in judged.next.factors \cap list.factors} ELSE before

Saving(w, judged) == ~list.written /\ judged.next.written /\ ~Top(w).saving

SaveFirst(w, judged) ==
  /\ Saving(w, judged)
  /\ Become(w, <<[Top(w) EXCEPT !.saving = TRUE]>>)
  /\ UNCHANGED <<list, before>>

----------------------------------------------------------------------------
(* Binding: begun as the first while nothing counts, its fence read after  *)
(* the list; proved meanwhile; then written unless the fence moved, a      *)
(* counting factor beat a first, or no place is left for it and, where     *)
(* none are held, the codes due.                                           *)
BindBegin(w) ==
  LET t == Top(w)
      first == Counts(list.factors) = {} IN
  /\ Doing(w, "bind.begin")
  /\ IF Cardinality(list.factors) >= load.maxFactors \/ (~first /\ t.login) THEN Return(w)
     ELSE Become(w, <<[t EXCEPT !.pc = "bind.fence", !.first = first \/ t.login]>>)
  /\ UNCHANGED <<listVars, troubles>>

BindFence(w) ==
  /\ Doing(w, "bind.fence")
  /\ Become(w, <<[Top(w) EXCEPT !.pc = "bind.early", !.fence = list.fences]>>)
  /\ UNCHANGED <<listVars, troubles>>

BindEarly(w) ==
  /\ Doing(w, "bind.early")
  /\ IF list.fences = Top(w).fence THEN To(w, "bind.write") ELSE Return(w)
  /\ UNCHANGED <<listVars, troubles>>

BindJudged(t) ==
  LET fs == list.factors
      after == fs \cup {Factor(t.id, t.kind, t.fence)} IN
  IF list.fences # t.fence THEN Leave("fenced")
  ELSE IF t.first /\ Counts(fs) # {} THEN Leave("closed")
  ELSE IF Cardinality(after) + (IF Due(after) THEN 1 ELSE 0) > load.maxFactors THEN Leave("full")
  ELSE Write(after, list.fences, IF Due(after) THEN "due" ELSE "bound")

BindWrite(w) ==
  LET judged == BindJudged(Top(w)) IN
  /\ Doing(w, "bind.write")
  /\ \/ SaveFirst(w, judged)
     \/ /\ ~Saving(w, judged)
        /\ Decided(judged)
        /\ IF judged.verdict \in {"due", "bound"}
           THEN Become(w, <<[Top(w) EXCEPT !.pc = "bind.check", !.saving = FALSE, !.due = judged.verdict = "due"]>>)
           ELSE Return(w)
  /\ UNCHANGED <<ids, troubles>>

(* A reset since took it; else the codes due are written under its fence.  *)
BindCheck(w) ==
  LET t == Top(w) IN
  /\ Doing(w, "bind.check")
  /\ IF Named(list.factors, t.id) # {} /\ t.due /\ ids < load.ids
     THEN /\ ids' = ids + 1
          /\ Become(w, <<[t EXCEPT !.pc = "reissue.write", !.id = ids']>>)
     ELSE Return(w) /\ UNCHANGED ids
  /\ UNCHANGED <<list, before, troubles>>

(* Broken: the fence read before the codes were made is not looked at.     *)
ReissueUnfenced(t) ==
  LET fs == list.factors
      after == (fs \ Codes(fs)) \cup {Factor(t.id, "codes", t.fence)} IN
  IF Counts(fs) = {} THEN Leave("none")
  ELSE IF Cardinality(after) > load.maxFactors THEN Leave("full")
  ELSE Write(after, list.fences, "reissued")

(* reissue: the new set beside a counting factor, in the old one's place   *)
(* or the one its binding kept.                                            *)
ReissueJudged(t) ==
  LET fs == list.factors
      after == (fs \ Codes(fs)) \cup {Factor(t.id, "codes", t.fence)} IN
  IF list.fences # t.fence THEN Leave("fenced")
  ELSE IF Counts(fs) = {} THEN Leave("none")
  ELSE IF Cardinality(after) > load.maxFactors THEN Leave("full")
  ELSE Write(after, list.fences, "reissued")

ReissueFence(w) ==
  /\ Doing(w, "reissue.fence")
  /\ Become(w, <<[Top(w) EXCEPT !.pc = "reissue.write", !.fence = list.fences]>>)
  /\ UNCHANGED <<listVars, troubles>>

ReissueWrite(w) ==
  /\ Doing(w, "reissue.write")
  /\ Decided(ReissueJudged(Top(w)))
  /\ Return(w)
  /\ UNCHANGED <<ids, troubles>>

(* remove: where a second factor is required, one read before the write    *)
(* stays; the codes go with the last that counts.                          *)
RemoveFence(w) ==
  /\ Doing(w, "remove.fence")
  /\ Become(w, <<[Top(w) EXCEPT !.pc = "remove.stood", !.fence = list.fences]>>)
  /\ UNCHANGED <<listVars, troubles>>

RemoveStood(w) ==
  LET t == Top(w) IN
  /\ Doing(w, "remove.stood")
  /\ Become(w, <<[t EXCEPT !.pc = "remove.write", !.stood = {f.id : f \in Counts(list.factors)}]>>)
  /\ UNCHANGED <<listVars, troubles>>

RemoveJudged(t) ==
  LET rest == list.factors \ Named(list.factors, t.id) IN
  IF list.fences # t.fence \/ rest = list.factors THEN Leave("refused")
  ELSE IF load.required /\ {f \in rest : f.id \in t.stood} = {} THEN Leave("last")
  ELSE Write(IF Counts(rest) = {} THEN rest \ Codes(rest) ELSE rest, list.fences, "removed")

RemoveWrite(w) ==
  /\ Doing(w, "remove.write")
  /\ Decided(RemoveJudged(Top(w)))
  /\ Return(w)
  /\ UNCHANGED <<ids, troubles>>

(* clear and fence: a reset takes every factor and moves the fence, a      *)
(* revocation moves it alone, written even where nothing is held.          *)
MoveWrite(w) ==
  LET judged == Write(IF Top(w).reset THEN {} ELSE list.factors, list.fences + 1, "moved") IN
  /\ Doing(w, "move.write")
  /\ \/ SaveFirst(w, judged)
     \/ ~Saving(w, judged) /\ Decided(judged) /\ Return(w)
  /\ UNCHANGED <<ids, troubles>>

KeepingStep(w) ==
  /\ \/ BindBegin(w) \/ BindFence(w) \/ BindEarly(w) \/ BindWrite(w) \/ BindCheck(w)
     \/ ReissueFence(w) \/ ReissueWrite(w)
     \/ RemoveFence(w) \/ RemoveStood(w) \/ RemoveWrite(w)
     \/ MoveWrite(w)
  /\ UNCHANGED <<proofVars, lockVars, now>>

----------------------------------------------------------------------------
(* A factor proved: the lockout reserved for one guessing can beat, the    *)
(* transaction's attempt spent, then the proof judged.                     *)
VerifyReserve(w) ==
  /\ Doing(w, "verify.reserve")
  /\ IF Open(lockout, load.policy, now)
     THEN /\ lockout' = Counted(lockout, load.policy, now)
          /\ Become(w, <<[Top(w) EXCEPT !.pc = "verify.spend", !.at = NextAt(lockout, now), !.since = now]>>)
     ELSE Return(w) /\ UNCHANGED lockout
  /\ UNCHANGED <<listVars, proofVars, permit, granted, wrong, troubles>>

Unused(x) == x \notin taken /\ attempts[x] > 0

(* Settled by a wrong guess; anything else but a success hands back what   *)
(* was reserved.  The last attempt refused, the transaction is taken.      *)
Settles(w, t) == IF t.at = 0 \/ t.kept THEN Return(w) ELSE Become(w, <<[t EXCEPT !.pc = "verify.abandon"]>>)
Refuses(w, t) == IF t.left = 0 THEN Become(w, <<[t EXCEPT !.pc = "verify.refused"]>>) ELSE Settles(w, t)

VerifySpend(w) ==
  LET t == Top(w) IN
  /\ Doing(w, "verify.spend")
  /\ IF Unused(t.x)
     THEN /\ attempts' = [attempts EXCEPT ![t.x] = @ - 1]
          /\ Become(w, <<[t EXCEPT !.pc = "prove.read", !.left = attempts[t.x] - 1]>>)
     ELSE Settles(w, t) /\ UNCHANGED attempts
  /\ UNCHANGED <<listVars, lockVars, taken, accepted, troubles>>

(* Judged on the factor as read: an authenticator's number later than the  *)
(* last one used, a code not used yet.                                     *)
Fits(f, n) == IF f.kind = "codes" THEN n \notin f.state ELSE \A u \in f.state : n > u
Moved(f, n) == [f EXCEPT !.state = IF f.kind = "codes" THEN @ \cup {n} ELSE {n}]

ProveRead(w) ==
  LET t == Top(w)
      found == Named(list.factors, t.id) IN
  /\ Doing(w, "prove.read")
  /\ \/ /\ t.proof = 0 /\ found # {}
        /\ wrong' = wrong \cup {g \in {<<t.at, t.since>>} : t.at > 0}
        /\ Refuses(w, [t EXCEPT !.kept = TRUE])
     \/ \E f \in found :
          /\ t.proof # 0 /\ UNCHANGED wrong
          /\ IF Fits(f, t.proof) THEN Become(w, <<[t EXCEPT !.pc = "prove.decide", !.read = f.state]>>)
             ELSE Refuses(w, t)
     \/ found = {} /\ Refuses(w, t) /\ UNCHANGED wrong
  /\ UNCHANGED <<listVars, proofVars, lockout, permit, granted, troubles>>

(* Broken: the factor as it is by now moves on.                            *)
ProvedAnyState(t) ==
  LET same == Named(list.factors, t.id) IN
  IF same = {} THEN Leave("raced")
  ELSE Write({IF f \in same THEN Moved(f, t.proof) ELSE f : f \in list.factors}, list.fences, "valid")

(* Written only over the state judged.                                     *)
ProvedJudged(t) ==
  LET same == {f \in Named(list.factors, t.id) : f.state = t.read} IN
  IF same = {} THEN Leave("raced")
  ELSE Write({IF f \in same THEN Moved(f, t.proof) ELSE f : f \in list.factors}, list.fences, "valid")

ProveDecide(w) ==
  LET judged == ProvedJudged(Top(w))
      t == [Top(w) EXCEPT !.read = {}] IN
  /\ Doing(w, "prove.decide")
  /\ Decided(judged)
  /\ \/ /\ IF judged.verdict = "valid" THEN Become(w, <<[t EXCEPT !.pc = "verify.take"]>>) ELSE Refuses(w, t)
        /\ UNCHANGED troubles
     \/ Trouble("lost") /\ Throw(w)
  /\ UNCHANGED <<ids, proofVars, lockVars>>

VerifyRefused(w) ==
  LET t == Top(w) IN
  /\ Doing(w, "verify.refused")
  /\ taken' = taken \cup {t.x}
  /\ Settles(w, t)
  /\ UNCHANGED <<listVars, attempts, accepted, lockVars, troubles>>

VerifyTake(w) ==
  LET t == Top(w) IN
  /\ Doing(w, "verify.take")
  /\ taken' = taken \cup {t.x}
  /\ IF t.x \in taken THEN Settles(w, t) ELSE To(w, "verify.succeed")
  /\ UNCHANGED <<listVars, attempts, accepted, lockVars, troubles>>

(* The run of failures ends; a proof guessing cannot beat also grants the  *)
(* session a permit.                                                       *)
VerifySucceed(w) ==
  LET t == Top(w) IN
  /\ Doing(w, "verify.succeed")
  /\ lockout' = HandedBack(lockout, load.policy, now, t.at, TRUE)
  /\ accepted' = accepted \cup {[factor |-> t.id, proof |-> t.proof, by |-> t.x, nth |-> Cardinality(accepted)]}
  /\ IF t.at = 0 THEN To(w, "permit.grant") ELSE Return(w)
  /\ UNCHANGED <<listVars, attempts, taken, permit, granted, wrong, troubles>>

VerifyAbandon(w) ==
  /\ Doing(w, "verify.abandon")
  /\ lockout' = HandedBack(lockout, load.policy, now, Top(w).at, FALSE)
  /\ Return(w)
  /\ UNCHANGED <<listVars, proofVars, permit, granted, wrong, troubles>>

(* A proof that could not be judged gives its attempt back.                *)
VerifyGiveBack(w) ==
  LET t == Top(w) IN
  /\ Doing(w, "verify.giveback")
  /\ attempts' = IF t.x \in taken THEN attempts ELSE [attempts EXCEPT ![t.x] = @ + 1]
  /\ Settles(w, [t EXCEPT !.read = {}])
  /\ UNCHANGED <<listVars, taken, accepted, lockVars, troubles>>

(* The session a step-up raised or a login opened gets it, in the place of *)
(* the one it had, used or not.                                            *)
PermitGrant(w) ==
  /\ Doing(w, "permit.grant")
  /\ \E s \in Session :
       /\ permit' = [permit EXCEPT ![s] = [at |-> now, used |-> FALSE]]
       /\ granted' = granted \cup {<<s, now>>}
  /\ Return(w)
  /\ UNCHANGED <<listVars, proofVars, lockout, wrong, troubles>>

VerifyStep(w) ==
  /\ \/ VerifyReserve(w) \/ VerifySpend(w)
     \/ ProveRead(w) \/ ProveDecide(w)
     \/ VerifyRefused(w) \/ VerifyTake(w) \/ VerifySucceed(w) \/ VerifyAbandon(w) \/ VerifyGiveBack(w)
     \/ PermitGrant(w)
  /\ UNCHANGED now

----------------------------------------------------------------------------
(* release: on its session's permit not used, the budget forgiven once the *)
(* subject was revoked since its first failure, the hold lifted once every *)
(* factor guessing can beat was bound again since; then the permit is      *)
(* used.  A permit's id tells its session and from when it is.             *)
ReleasePermit(w) ==
  LET s == Top(w).id[1] IN
  /\ Doing(w, "release.permit")
  /\ IF permit[s] = NoPermit \/ permit[s].used THEN Return(w)
     ELSE Become(w, <<[Top(w) EXCEPT !.pc = "release.standing", !.id = <<s, permit[s].at>>]>>)
  /\ UNCHANGED lockVars

ReleaseStanding(w) ==
  /\ Doing(w, "release.standing")
  /\ Become(w, <<[Top(w) EXCEPT !.pc = "release.under",
                    !.stood = StandingOf(lockout, load.policy, now)]>>)
  /\ UNCHANGED lockVars

ReleaseUnder(w) ==
  LET t == Top(w) IN
  /\ Doing(w, "release.under")
  /\ \E forgive, lift \in BOOLEAN :
       /\ t.stood.first = 0 => forgive
       /\ LET after == Released(lockout, load.policy, now, t.id, forgive, lift, t.stood) IN
          /\ lockout' = after
          /\ IF after # lockout \/ t.id \in lockout.used THEN To(w, "release.use") ELSE Return(w)
  /\ UNCHANGED <<permit, granted, wrong>>

ReleaseUse(w) ==
  /\ Doing(w, "release.use")
  /\ LET s == Top(w).id[1] IN
     permit' = IF permit[s].at = Top(w).id[2] THEN [permit EXCEPT ![s].used = TRUE] ELSE permit
  /\ Return(w)
  /\ UNCHANGED <<lockout, granted, wrong>>

ReleaseStep(w) ==
  /\ ReleasePermit(w) \/ ReleaseStanding(w) \/ ReleaseUnder(w) \/ ReleaseUse(w)
  /\ UNCHANGED <<listVars, proofVars, now, troubles>>

----------------------------------------------------------------------------
Keeping(pc, id) ==
  [pc |-> pc, id |-> id, kind |-> "none", login |-> FALSE, first |-> FALSE, fence |-> 0,
   saving |-> FALSE, due |-> FALSE, stood |-> {}, reset |-> FALSE]

Begins(w, op, frame) == op \in load.ops /\ Start(w, <<frame>>)

BeginBind(w) ==
  /\ ids < load.ids /\ ids' = ids + 1
  /\ \E kind \in {"totp", "mail"}, login \in BOOLEAN :
       Begins(w, "bind", [Keeping("bind.begin", ids') EXCEPT !.kind = kind, !.login = login])
  /\ UNCHANGED <<list, before>>

BeginReissue(w) ==
  /\ ids < load.ids /\ ids' = ids + 1
  /\ Begins(w, "reissue", Keeping("reissue.fence", ids'))
  /\ UNCHANGED <<list, before>>

BeginRemove(w) ==
  /\ \E f \in list.factors : Begins(w, "remove", Keeping("remove.fence", f.id))
  /\ UNCHANGED listVars

BeginMove(w) ==
  /\ list.fences < load.moves
  /\ \E reset \in BOOLEAN :
       Begins(w, IF reset THEN "clear" ELSE "fence", [Keeping("move.write", 0) EXCEPT !.reset = reset])
  /\ UNCHANGED listVars

BeginVerify(w) ==
  /\ \E x \in Transaction, f \in list.factors, proof \in load.proofs :
       /\ Unused(x) /\ f.kind \in load.proved
       /\ Begins(w, "verify", [pc |-> IF f.kind = "codes" THEN "verify.spend" ELSE "verify.reserve", id |-> f.id, x |-> x, proof |-> proof, at |-> 0, since |-> 0,
                               left |-> 0, kept |-> FALSE, read |-> {}])
  /\ UNCHANGED listVars

BeginRelease(w) ==
  /\ \E s \in Session :
       /\ permit[s] # NoPermit
       /\ Begins(w, "release", [pc |-> "release.permit", id |-> <<s, 0>>, stood |-> [first |-> 0, fixedAt |-> 0]])
  /\ UNCHANGED listVars

Begin(w) ==
  /\ \/ BeginBind(w) \/ BeginReissue(w) \/ BeginRemove(w) \/ BeginMove(w) \/ BeginVerify(w) \/ BeginRelease(w)
  /\ UNCHANGED <<proofVars, lockVars, now, troubles>>

(* A call to a store fails, or the host stops.  Where a refusal's call     *)
(* fails, a guess that was wrong is settled all the same.                  *)
Fail(w) ==
  /\ ~Idle(w) /\ Top(w).pc \in load.fails
  /\ \/ /\ Trouble("fail")
        /\ IF Top(w).pc = "verify.refused" THEN Settles(w, Top(w)) ELSE Throw(w)
     \/ Trouble("crash") /\ Drop(w)
  /\ UNCHANGED <<listVars, proofVars, lockVars, now>>

Tick ==
  /\ now < load.horizon /\ now' = now + 1
  /\ UNCHANGED <<task, listVars, proofVars, lockVars, troubles>>

Next ==
  /\ \/ \E w \in Worker : KeepingStep(w) \/ VerifyStep(w) \/ ReleaseStep(w) \/ Begin(w) \/ Fail(w)
     \/ Tick
  /\ UNCHANGED load

Spec == Init /\ [][Next]_vars

----------------------------------------------------------------------------
(* Of the guesses made in any window of the budget no more are wrong than  *)
(* the budget allows, and as many again for each proof guessing cannot     *)
(* beat that let the lockout be released: whatever was handed back by      *)
(* successes and failed calls meanwhile, and however guesses and releases  *)
(* race (verify.ts "racing guesses cannot pass either limit").             *)
GuessesBounded ==
  \A end \in 1 .. now :
    Cardinality({g \in wrong : g[2] > end - load.policy.window /\ g[2] <= end})
      <= load.policy.budget * (1 + Cardinality(granted))

(* A number or a code lets one transaction on, once, whatever the factor's *)
(* list went through meanwhile, and a transaction goes on from one proof   *)
(* (verify.ts "of two proofs racing on one transaction, only one goes on").*)
AcceptedOnce ==
  \A a, b \in accepted : a # b => a.by # b.by /\ <<a.factor, a.proof>> # <<b.factor, b.proof>>

(* The list stays in order under bindings, reissues, removals, resets and  *)
(* revocations at once: no more factors than the most, a place left for    *)
(* the codes due beside a counting one, no codes left alone, which would   *)
(* hold every login once they run out, and nothing that was begun before   *)
(* the fence last moved and written after.                                 *)
ListInOrder ==
  /\ Ordered(list.factors, load.maxFactors)
  /\ \A f \in list.factors : f.begun < list.fences => f.id \in before
=============================================================================
