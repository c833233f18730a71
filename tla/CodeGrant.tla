------------------------------ MODULE CodeGrant ------------------------------
(***************************************************************************)
(* Authorization codes, as modules/oauth/code-grant redeems them, over the *)
(* families of RefreshFamilies: a code is used up before anything is       *)
(* checked, one that comes again is void with all it gave, and a            *)
(* redemption that fails after its token was noted voids its own code.     *)
(*                                                                         *)
(* A code is named by its redemption.  Presenting it wrongly, and each     *)
(* policy that may refuse, are choices; issuing the token draws a name.    *)
(***************************************************************************)
EXTENDS RefreshFamilies

(* The mark of a code that noted no token names none.                      *)
ASSUME CodesAssumption == "none" \notin Access

VARIABLES
  code,     \* each code's record: its state, the session it was issued in, its token, void
  voids,    \* codes whose voiding must still be finished
  answers,  \* ghost: what redemptions answered, <<code, access token>>
  settled   \* ghost: codes voided to the end

codeVars == <<code, voids, answers, settled>>
allVars == <<vars, codeVars>>

NoCode == [state |-> "none"]
GoneCode == [state |-> "gone"]
IssuedCode(s) == [state |-> "issued", session |-> s, token |-> "none", void |-> FALSE]
Kept(c) == code[c].state \in {"issued", "consumed"}

Init ==
  /\ FamiliesInit
  /\ code = [c \in Redemption |-> NoCode]
  /\ voids = {} /\ answers = {} /\ settled = {}

----------------------------------------------------------------------------
(* settle: listed first; a code not yet noted is left to its redemption,   *)
(* which sees the mark; one noted loses its token, then what the additions *)
(* gave for it.                                                            *)
Settling(c) == [pc |-> "settle.add", c |-> c]

SettleAdd(w) ==
  /\ Doing(w, "settle.add")
  /\ voids' = voids \cup {Top(w).c}
  /\ To(w, "settle.mark")
  /\ UNCHANGED <<familyVars, listVars, outsideVars, code, answers, settled>>

(* Broken: with no record, there is nothing more to end.                   *)
SettleMarkKept(w) ==
  LET t == Top(w) IN
  /\ Doing(w, "settle.mark")
  /\ \/ /\ ~Kept(t.c)
        /\ Return(w)
        /\ UNCHANGED code
     \/ /\ Kept(t.c)
        /\ code' = [code EXCEPT ![t.c].void = TRUE]
        /\ IF code[t.c].token = "none" THEN Return(w) ELSE To(w, "settle.deny")
  /\ UNCHANGED <<familyVars, listVars, outsideVars, voids, answers, settled>>

SettleMark(w) ==
  LET t == Top(w) IN
  /\ Doing(w, "settle.mark")
  /\ \/ /\ ~Kept(t.c)
        /\ Become(w, <<TakingBack(t.c), [t EXCEPT !.pc = "settle.done"]>>)
        /\ UNCHANGED code
     \/ /\ Kept(t.c)
        /\ code' = [code EXCEPT ![t.c].void = TRUE]
        /\ IF code[t.c].token = "none" THEN Return(w) ELSE To(w, "settle.deny")
  /\ UNCHANGED <<familyVars, listVars, outsideVars, voids, answers, settled>>

SettleDeny(w) ==
  LET t == Top(w) IN
  /\ Doing(w, "settle.deny")
  /\ denied' = denied \cup {code[t.c].token}
  /\ Become(w, <<TakingBack(t.c), [t EXCEPT !.pc = "settle.done"]>>)
  /\ UNCHANGED <<familyVars, listVars, entering, drawn, given, held, finished, takenBack, codeVars>>

SettleDone(w) ==
  /\ Doing(w, "settle.done")
  /\ voids' = voids \ {Top(w).c}
  /\ settled' = settled \cup {Top(w).c}
  /\ Return(w)
  /\ UNCHANGED <<familyVars, listVars, outsideVars, code, answers>>

SettleStep(w) == SettleAdd(w) \/ SettleMark(w) \/ SettleDeny(w) \/ SettleDone(w)

(* The sweep of the void list.                                             *)
VoidsNext(w) ==
  LET t == Top(w) IN
  /\ Doing(w, "voids")
  /\ \/ \E c \in t.todo : Become(w, <<Settling(c), [t EXCEPT !.todo = @ \ {c}]>>)
     \/ t.todo = {} /\ Return(w)
  /\ UNCHANGED <<familyVars, listVars, outsideVars, codeVars>>

----------------------------------------------------------------------------
(* A code is issued to a session that entered when it was asked.           *)
CodeIssue(w) ==
  LET t == Top(w) IN
  /\ Doing(w, "code.save")
  /\ code' = [code EXCEPT ![t.c] = IssuedCode(t.s)]
  /\ Return(w)
  /\ UNCHANGED <<familyVars, listVars, outsideVars, voids, answers, settled>>

(* A redemption, from its record as it was used up.                        *)
Redeeming(c, s) ==
  [pc |-> "redeem.enter", c |-> c, s |-> s, a |-> "none", void |-> FALSE, tokens |-> {}]

(* Used up before it is checked, so of two racing uses one goes on; one    *)
(* used already is a replay.  Presented wrongly, it is burnt.              *)
RedeemUse(w) ==
  LET c == Top(w).c IN
  /\ Doing(w, "redeem.use")
  /\ \/ ~Kept(c) /\ Return(w) /\ UNCHANGED code
     \/ Kept(c) /\ code[c].state = "consumed" /\ Become(w, <<Settling(c)>>) /\ UNCHANGED code
     \/ /\ Kept(c) /\ code[c].state = "issued"
        /\ code' = [code EXCEPT ![c].state = "consumed"]
        /\ Return(w) \/ Become(w, <<Redeeming(c, code[c].session)>>)
  /\ UNCHANGED <<familyVars, listVars, outsideVars, voids, answers, settled>>

RedeemEnter(w) ==
  /\ Doing(w, "redeem.enter")
  /\ IF Top(w).s \in entering THEN To(w, "redeem.pin") ELSE Return(w)
  /\ UNCHANGED <<familyVars, listVars, outsideVars, codeVars>>

(* The hooks pin what they need; then the token is made, or refused.       *)
RedeemPin(w) ==
  /\ Doing(w, "redeem.pin")
  /\ To(w, "redeem.issue")
  /\ UNCHANGED <<familyVars, listVars, outsideVars, codeVars>>

RedeemIssue(w) ==
  LET t == Top(w) IN
  /\ Doing(w, "redeem.issue")
  /\ \/ \E a \in Access \ drawn :
          /\ drawn' = drawn \cup {a}
          /\ Become(w, <<[t EXCEPT !.pc = "redeem.note", !.a = a]>>)
     \/ Return(w) /\ UNCHANGED drawn
  /\ UNCHANGED <<familyVars, listVars, denied, entering, given, held, finished, takenBack, codeVars>>

(* Broken: a record gone is written back, as it was issued.                *)
RedeemNoteBack(w) ==
  LET t == Top(w) IN
  /\ Doing(w, "redeem.note")
  /\ code' = [code EXCEPT ![t.c] =
       IF Kept(t.c) THEN [@ EXCEPT !.token = t.a] ELSE [IssuedCode(t.s) EXCEPT !.token = t.a]]
  /\ Become(w, <<[t EXCEPT !.pc = "redeem.session", !.void = code'[t.c].void]>>)
  /\ UNCHANGED <<familyVars, listVars, outsideVars, voids, answers, settled>>

(* Noted with its code, whose mark is read in the same change; a record    *)
(* gone meanwhile is never written back.                                   *)
RedeemNote(w) ==
  LET t == Top(w) IN
  /\ Doing(w, "redeem.note")
  /\ \/ ~Kept(t.c) /\ Return(w) /\ UNCHANGED code
     \/ /\ Kept(t.c)
        /\ code' = [code EXCEPT ![t.c].token = t.a]
        /\ Become(w, <<[t EXCEPT !.pc = "redeem.session", !.void = code[t.c].void]>>)
  /\ UNCHANGED <<familyVars, listVars, outsideVars, voids, answers, settled>>

(* The session's redemption is told; it may fail.                          *)
RedeemSession(w) ==
  /\ Doing(w, "redeem.session")
  /\ To(w, "redeem.check")
  /\ UNCHANGED <<familyVars, listVars, outsideVars, codeVars>>

(* A reuse or a close that came while the token was being made voids it.   *)
RedeemCheck(w) ==
  LET t == Top(w) IN
  /\ Doing(w, "redeem.check")
  /\ IF ~t.void /\ t.s \in entering THEN To(w, "redeem.add") ELSE Become(w, <<Settling(t.c)>>)
  /\ UNCHANGED <<familyVars, listVars, outsideVars, codeVars>>

(* A refresh token, unless the client is allowed none; then the hooks.     *)
RedeemAdd(w) ==
  LET t == Top(w) IN
  /\ Doing(w, "redeem.add")
  /\ \/ To(w, "redeem.hooks") /\ UNCHANGED drawn
     \/ \E f \in load.families \ drawn :
          /\ drawn' = drawn \cup {f}
          /\ Become(w, <<Starting(t.c, f, t.s, t.a),
                        [t EXCEPT !.pc = "redeem.hooks", !.tokens = {<<f, 1>>}]>>)
  /\ UNCHANGED <<familyVars, listVars, denied, entering, given, held, finished, takenBack, codeVars>>

RedeemHooks(w) ==
  LET t == Top(w) IN
  /\ Doing(w, "redeem.hooks")
  /\ answers' = answers \cup {<<t.c, t.a>>}
  /\ given' = given \cup t.tokens
  /\ held' = held \cup {t.a}
  /\ Return(w)
  /\ UNCHANGED <<familyVars, listVars, denied, entering, drawn, finished, takenBack, code, voids, settled>>

RedeemVoid(w) ==
  /\ Doing(w, "redeem.void")
  /\ Become(w, <<Settling(Top(w).c), Throwing>>)
  /\ UNCHANGED <<familyVars, listVars, outsideVars, codeVars>>

RedeemStep(w) ==
  \/ CodeIssue(w)
  \/ RedeemUse(w)
  \/ RedeemEnter(w)
  \/ RedeemPin(w)
  \/ RedeemIssue(w)
  \/ RedeemNote(w)
  \/ RedeemSession(w)
  \/ RedeemCheck(w)
  \/ RedeemAdd(w)
  \/ RedeemHooks(w)
  \/ RedeemVoid(w)

CodeWork(w) == SettleStep(w) \/ VoidsNext(w) \/ RedeemStep(w)

----------------------------------------------------------------------------
BeginCode(w) ==
  /\ \E c \in load.codes, s \in entering :
       /\ code[c] = NoCode
       /\ \A v \in Worker : ~(Doing(v, "code.save") /\ Top(v).c = c)
       /\ Begin(w, "code", <<[pc |-> "code.save", c |-> c, s |-> s]>>)
  /\ UNCHANGED <<familyVars, listVars, outsideVars, codeVars>>

BeginRedeem(w) ==
  /\ NamesLeft
  /\ \E c \in Redemption :
       code[c] # NoCode /\ Begin(w, "redeem", <<[pc |-> "redeem.use", c |-> c]>>)
  /\ UNCHANGED <<familyVars, listVars, outsideVars, codeVars>>

BeginVoids(w) ==
  /\ Begin(w, "voids", <<[pc |-> "voids", todo |-> voids]>>)
  /\ UNCHANGED <<familyVars, listVars, outsideVars, codeVars>>

(* A code's record ends with its lifetime; one that noted a token lasts as *)
(* long as the token.                                                      *)
CodeDrops(c) ==
  /\ "drop" \in load.ops
  /\ Kept(c) /\ code[c].token = "none"
  /\ code' = [code EXCEPT ![c] = GoneCode]
  /\ UNCHANGED <<familyVars, listVars, outsideVars, task, voids, answers, settled>>

Next ==
  /\ \/ FamiliesNext /\ UNCHANGED codeVars
     \/ \E w \in Worker : CodeWork(w) \/ BeginCode(w) \/ BeginRedeem(w) \/ BeginVoids(w)
     \/ \E c \in Redemption : CodeDrops(c)
  /\ UNCHANGED load

Spec == Init /\ [][Next]_allVars

(* Calls come back, lifetimes end, and each worker free ever again begins  *)
(* each sweep ever again (c.every, on each host).                          *)
FairSpec ==
  /\ Spec
  /\ \A w \in Worker :
       WF_allVars(((Work(w) /\ UNCHANGED codeVars) \/ CodeWork(w)) /\ UNCHANGED load)
  /\ \A c \in Redemption : WF_allVars(CodeDrops(c) /\ UNCHANGED load)
  /\ \A w \in Worker :
       /\ SF_allVars(BeginSweep(w) /\ UNCHANGED <<codeVars, load>>)
       /\ SF_allVars(BeginVoids(w) /\ UNCHANGED load)

----------------------------------------------------------------------------
(* The frames of a code's calls, and all there are.                        *)
CodeFrames ==
  [pc : {"settle.add", "settle.mark", "settle.deny", "settle.done", "redeem.use"}, c : Redemption]
  \cup [pc : {"voids"}, todo : SUBSET Redemption]
  \cup [pc : {"code.save"}, c : Redemption, s : Session]
  \cup [pc : {"redeem.enter", "redeem.pin", "redeem.issue", "redeem.note", "redeem.session", "redeem.check",
              "redeem.add", "redeem.hooks", "redeem.void"},
         c : Redemption, s : Session, a : Access \cup {"none"}, void : BOOLEAN,
         tokens : SUBSET (Family \X (1 .. MaxSecrets))]

Frames == FamilyFrames \cup CodeFrames

CodesTypeOK ==
  /\ code \in [Redemption -> {NoCode, GoneCode} \cup
               [state : {"issued", "consumed"}, session : Session,
                token : Access \cup {"none"}, void : BOOLEAN]]
  /\ voids \subseteq Redemption /\ settled \subseteq Redemption
  /\ answers \subseteq Redemption \X Access

(* However calls nest, no stack is deeper than four frames.                *)
TypeOK ==
  /\ FamiliesTypeOK
  /\ CodesTypeOK
  /\ task \in [Worker -> Seq(Frames)]
  /\ \A w \in Worker : Len(task[w]) <= 4

(* However many present a code at once, one redemption answers it.         *)
RedeemedOnce == \A x, y \in answers : x[1] = y[1] => x = y

(* A code voided to the end, by its replay or a step that failed, leaves   *)
(* nothing that holds: whatever its redemption answered, before or after,  *)
(* is denied, and no family of it is live, or comes alive (grant.ts settle *)
(* against handle).                                                        *)
VoidedKeepsNothing ==
  \A c \in settled :
    /\ \A x \in answers : x[1] = c => x[2] \in denied
    /\ \A f \in Family : begun[c] = f => ~Alive(f)

(* Every code on the void list comes off it once stores answer and hosts   *)
(* stay up, though its redemption stopped before it noted a token.         *)
VoidingsFinish ==
  <>[][~Trouble]_allVars => \A c \in Redemption : c \in voids ~> c \notin voids
=============================================================================
