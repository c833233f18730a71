------------------------ MODULE SecondFactorsProofs -------------------------
(***************************************************************************)
(* What the run of MCSecondFactors shows for two workers and three         *)
(* factors, proved for any number of workers, factors, moves of the fence  *)
(* and faults, and any mix of operations: a list of second factors stays   *)
(* in order, a proof is accepted once, and wrong guesses stay within the   *)
(* lockout's budget.                                                       *)
(*                                                                         *)
(* The order's argument: a list is written only by a decision on what it   *)
(* holds then, and each decision keeps the order by itself, given that a   *)
(* frame about to bind binds no codes.  What was begun under an earlier    *)
(* fence is refused by each decision that adds, whatever the frame read.   *)
(***************************************************************************)
EXTENDS SecondFactors, FiniteSetTheorems, TLAPS

(* What a frame about to write holds, at each of the steps it comes by.    *)
Bound == {"bind.begin", "bind.fence", "bind.early", "bind.write", "bind.check"}
Reissued == {"reissue.fence", "reissue.write"}
Proved == {"verify.reserve", "verify.spend", "prove.read", "prove.decide"}

FrameFine(f) ==
  /\ "pc" \in DOMAIN f
  /\ f.pc \in Bound =>
       {"id", "kind"} \subseteq DOMAIN f /\ f.id \in Nat /\ f.kind \in {"totp", "mail"}
  /\ f.pc \in Reissued => "id" \in DOMAIN f /\ f.id \in Nat
  /\ f.pc \in Proved => "proof" \in DOMAIN f /\ f.proof \in Nat

(* No call here nests in another.                                          *)
TaskFine ==
  /\ DOMAIN task = Worker
  /\ \A w \in Worker : task[w] = <<>> \/ \E f : task[w] = <<f>> /\ FrameFine(f)

ListFine ==
  /\ list \in [factors : SUBSET FactorType, fences : Nat, written : BOOLEAN]
  /\ IsFiniteSet(list.factors)
  /\ ListInOrder

IInv == load \in Loads /\ ids \in Nat /\ ListFine /\ TaskFine

----------------------------------------------------------------------------
(* Stacks of one frame.                                                    *)
LEMMA OneFrame ==
  ASSUME NEW f, NEW g
  PROVE  /\ Head(<<g>>) = g
         /\ <<f>> \o Tail(<<g>>) = <<f>>
         /\ <<>> \o Tail(<<g>>) = <<>>
OBVIOUS

LEMMA TopFine ==
  ASSUME TaskFine, NEW w \in Worker, ~Idle(w)
  PROVE  task[w] = <<Top(w)>> /\ FrameFine(Top(w))
<1>1. PICK f : task[w] = <<f>> /\ FrameFine(f)
  BY DEF TaskFine, Idle
<1> QED
  BY <1>1, OneFrame DEF Top

LEMMA Becoming ==
  ASSUME TaskFine, NEW w \in Worker, ~Idle(w), NEW f, FrameFine(f), Become(w, <<f>>)
  PROVE  TaskFine'
<1>1. task'[w] = <<f>>
  BY TopFine, OneFrame DEF Become, TaskFine
<1>2. DOMAIN task' = Worker /\ \A v \in Worker \ {w} : task'[v] = task[v]
  BY DEF Become, TaskFine
<1> QED
  BY <1>1, <1>2 DEF TaskFine, FrameFine

LEMMA Returning ==
  ASSUME TaskFine, NEW w \in Worker, ~Idle(w), Return(w)
  PROVE  TaskFine'
<1>1. task'[w] = <<>>
  BY TopFine, OneFrame DEF Return, Become, TaskFine
<1>2. DOMAIN task' = Worker /\ \A v \in Worker \ {w} : task'[v] = task[v]
  BY DEF Return, Become, TaskFine
<1> QED
  BY <1>1, <1>2 DEF TaskFine, FrameFine

LEMMA Starting ==
  ASSUME TaskFine, NEW w \in Worker, NEW f, FrameFine(f), Start(w, <<f>>)
  PROVE  TaskFine'
<1>1. task'[w] = <<f>>
  BY DEF Start, TaskFine
<1>2. DOMAIN task' = Worker /\ \A v \in Worker \ {w} : task'[v] = task[v]
  BY DEF Start, TaskFine
<1> QED
  BY <1>1, <1>2 DEF TaskFine, FrameFine

LEMMA Dropping ==
  ASSUME TaskFine, NEW w \in Worker, Drop(w)
  PROVE  TaskFine'
<1>1. task'[w] = <<>> /\ DOMAIN task' = Worker /\ \A v \in Worker \ {w} : task'[v] = task[v]
  BY DEF Drop, TaskFine
<1> QED
  BY <1>1 DEF TaskFine, FrameFine

(* What is thrown ends the call, or goes on where nothing is written.      *)
LEMMA Throwing ==
  ASSUME TaskFine, NEW w \in Worker, ~Idle(w), Throw(w)
  PROVE  TaskFine'
<1> DEFINE f == Top(w)
           g == [f EXCEPT !.pc = OnThrow[@]]
<1>1. task[w] = <<f>> /\ FrameFine(f)
  BY TopFine
<1>2. DOMAIN task' = Worker /\ task'[w] = Unwound(<<f>>) /\ \A v \in Worker \ {w} : task'[v] = task[v]
  BY <1>1 DEF Throw, TaskFine
<1>3. CASE f.pc \notin DOMAIN OnThrow
  <2>1. Catching(<<f>>) = {}
    BY <1>3 DEF Catching
  <2> QED
    BY <1>2, <2>1 DEF Unwound, TaskFine, FrameFine
<1>4. CASE f.pc \in DOMAIN OnThrow
  <2>1. Catching(<<f>>) = {1}
    BY <1>4 DEF Catching
  <2>2. (CHOOSE i \in Catching(<<f>>) : \A j \in Catching(<<f>>) : i <= j) = 1
    BY <2>1
  <2>3. Unwound(<<f>>) = <<g>> \o SubSeq(<<f>>, 2, 1)
    BY <2>1, <2>2 DEF Unwound
  <2>4. SubSeq(<<f>>, 2, 1) = <<>>
    OBVIOUS
  <2>5. Unwound(<<f>>) = <<g>>
    BY <2>3, <2>4
  <2>6. FrameFine(g)
    BY <1>1, <1>4, FactorsAssumption DEF FrameFine, Bound, Reissued, Proved
  <2> QED
    BY <1>2, <2>5, <2>6 DEF TaskFine, FrameFine
<1> QED
  BY <1>3, <1>4

----------------------------------------------------------------------------
(* Each decision on the list, by itself.                                   *)
LEMMA LeftFine ==
  ASSUME ListFine, load \in Loads, UNCHANGED load, NEW verdict, Decided(Leave(verdict))
  PROVE  ListFine'
<1>1. list' = list /\ before' = before
  BY DEF Decided, Leave, ListFine
<1> QED
  BY <1>1 DEF ListFine, ListInOrder, Ordered, Due, Counts, Codes

(* What is written is in order, and nothing in it was begun under an       *)
(* earlier fence but what was held when the fence last moved.              *)
LEMMA WrittenFine ==
  ASSUME ListFine, UNCHANGED load, NEW fs, NEW n, NEW verdict, Decided(Write(fs, n, verdict)),
         fs \subseteq FactorType, IsFiniteSet(fs), Ordered(fs, load.maxFactors), n \in Nat,
         \/ n = list.fences /\ \A f \in fs : f.begun < n => f.id \in before
         \/ n > list.fences /\ fs \subseteq list.factors
  PROVE  ListFine'
<1>1. list' = [factors |-> fs, fences |-> n, written |-> TRUE]
  BY DEF Decided, Write
<1>2. list' \in [factors : SUBSET FactorType, fences : Nat, written : BOOLEAN]
  BY <1>1
<1>3. before' = IF n > list.fences THEN {f.id : f \in fs \cap list.factors} ELSE before
  BY <1>1 DEF Decided, Write
<1>4. \A f \in fs : f.begun < n => f.id \in before'
  <2>1. CASE n = list.fences /\ \A f \in fs : f.begun < n => f.id \in before
    BY <1>3, <2>1 DEF ListFine
  <2>2. CASE n > list.fences /\ fs \subseteq list.factors
    BY <1>3, <2>2
  <2> QED
    BY <2>1, <2>2
<1>5. Ordered(list'.factors, load'.maxFactors)
  BY <1>1
<1> QED
  BY <1>1, <1>2, <1>4, <1>5 DEF ListFine, ListInOrder, Ordered, Due, Counts, Codes

LEMMA BindFine ==
  ASSUME ListFine, load \in Loads, UNCHANGED load, NEW t,
         t.id \in Nat, t.kind \in {"totp", "mail"}, Decided(BindJudged(t))
  PROVE  ListFine'
<1> DEFINE fs == list.factors
           one == Factor(t.id, t.kind, t.fence)
           after == fs \cup {one}
<1>1. CASE \E verdict : BindJudged(t) = Leave(verdict)
  BY <1>1, LeftFine
<1>2. CASE ~\E verdict : BindJudged(t) = Leave(verdict)
  <2>1. list.fences = t.fence
    BY <1>2 DEF BindJudged
  <2>2. Cardinality(after) + (IF Due(after) THEN 1 ELSE 0) <= load.maxFactors
    <3>1. ~(Cardinality(after) + (IF Due(after) THEN 1 ELSE 0) > load.maxFactors)
      BY <1>2, <2>1 DEF BindJudged
    <3>2. Cardinality(after) \in Nat
      BY FS_AddElement, FS_CardinalityType DEF ListFine
    <3> QED
      BY <3>1, <3>2, FactorsAssumption
  <2>3. BindJudged(t) = Write(after, list.fences, IF Due(after) THEN "due" ELSE "bound")
    BY <1>2 DEF BindJudged
  <2>4. one \in FactorType /\ one.kind = t.kind /\ one.begun = list.fences
    BY <2>1 DEF Factor, FactorType, ListFine
  <2>5. Codes(after) = Codes(fs) /\ Counts(fs) \subseteq Counts(after)
    BY <2>4 DEF Codes, Counts
  <2>6. Ordered(after, load.maxFactors)
    BY <2>2, <2>5 DEF ListFine, ListInOrder, Ordered
  <2>7. \A f \in after : f.begun < list.fences => f.id \in before
    BY <2>4 DEF ListFine, ListInOrder
  <2>8. after \subseteq FactorType /\ IsFiniteSet(after)
    BY <2>4, FS_AddElement DEF ListFine
  <2> QED
    BY <2>3, <2>6, <2>7, <2>8, WrittenFine DEF ListFine
<1> QED
  BY <1>1, <1>2

LEMMA ReissueFine ==
  ASSUME ListFine, load \in Loads, UNCHANGED load, NEW t, t.id \in Nat, Decided(ReissueJudged(t))
  PROVE  ListFine'
<1> DEFINE fs == list.factors
           one == Factor(t.id, "codes", t.fence)
           after == (fs \ Codes(fs)) \cup {one}
<1>1. CASE \E verdict : ReissueJudged(t) = Leave(verdict)
  BY <1>1, LeftFine
<1>2. CASE ~\E verdict : ReissueJudged(t) = Leave(verdict)
  <2>1. list.fences = t.fence /\ Counts(fs) # {}
    BY <1>2 DEF ReissueJudged
  <2>2. one \in FactorType /\ one.kind = "codes" /\ one.begun = list.fences
    BY <2>1 DEF Factor, FactorType, ListFine
  <2>3. after \subseteq FactorType /\ IsFiniteSet(after)
    <3>1. (fs \ Codes(fs)) \in SUBSET fs
      OBVIOUS
    <3>2. IsFiniteSet(fs \ Codes(fs))
      BY <3>1, FS_Subset DEF ListFine
    <3>3. IsFiniteSet(after)
      BY <3>2, FS_AddElement
    <3> QED
      BY <2>2, <3>3 DEF ListFine
  <2>4. Cardinality(after) <= load.maxFactors
    <3>1. ~(Cardinality(after) > load.maxFactors)
      BY <1>2, <2>1 DEF ReissueJudged
    <3> QED
      BY <2>3, <3>1, FS_CardinalityType, FactorsAssumption
  <2>5. ReissueJudged(t) = Write(after, list.fences, "reissued")
    BY <1>2 DEF ReissueJudged
  <2>6. Codes(after) = {one} /\ Counts(after) # {}
    BY <2>1, <2>2 DEF Codes, Counts
  <2>7. Ordered(after, load.maxFactors)
    <3>1. Cardinality(Codes(after)) = 1 /\ Cardinality(after) \in Nat /\ ~Due(after)
      BY <2>3, <2>6, FS_Singleton, FS_CardinalityType DEF Due
    <3> HIDE DEF after
    <3> QED
      BY <2>4, <2>6, <3>1 DEF Ordered
  <2>8. \A f \in after : f.begun < list.fences => f.id \in before
    BY <2>2 DEF ListFine, ListInOrder
  <2> QED
    BY <2>3, <2>5, <2>7, <2>8, WrittenFine DEF ListFine
<1> QED
  BY <1>1, <1>2

LEMMA RemoveFine ==
  ASSUME ListFine, load \in Loads, UNCHANGED load, NEW t, Decided(RemoveJudged(t))
  PROVE  ListFine'
<1> DEFINE fs == list.factors
           rest == fs \ Named(fs, t.id)
           after == IF Counts(rest) = {} THEN rest \ Codes(rest) ELSE rest
<1>1. CASE \E verdict : RemoveJudged(t) = Leave(verdict)
  BY <1>1, LeftFine
<1>2. CASE ~\E verdict : RemoveJudged(t) = Leave(verdict)
  <2>1. rest # fs
    BY <1>2 DEF RemoveJudged
  <2>2. RemoveJudged(t) = Write(after, list.fences, "removed")
    BY <1>2 DEF RemoveJudged
  <2>3. IsFiniteSet(fs) /\ IsFiniteSet(rest) /\ IsFiniteSet(after) /\ IsFiniteSet(Codes(fs))
    BY FS_Subset DEF ListFine, Codes
  <2>4. Cardinality(rest) < Cardinality(fs) /\ Cardinality(after) <= Cardinality(rest)
    <3>1. rest \in SUBSET fs /\ after \in SUBSET rest
      OBVIOUS
    <3>2. Cardinality(rest) <= Cardinality(fs) /\ Cardinality(rest) # Cardinality(fs)
      BY <2>1, <2>3, <3>1, FS_Subset
    <3> QED
      BY <2>3, <3>1, <3>2, FS_Subset, FS_CardinalityType
  <2>5. Cardinality(Codes(after)) <= Cardinality(Codes(fs))
    BY <2>3, FS_Subset DEF Codes
  <2>6. Codes(after) # {} => Counts(after) # {}
    BY DEF Codes, Counts
  <2>7. Ordered(after, load.maxFactors)
    <3> HIDE DEF fs, rest, after
    <3>1. /\ Cardinality(after) \in Nat /\ Cardinality(rest) \in Nat /\ Cardinality(fs) \in Nat
          /\ load.maxFactors \in Nat
      BY <2>3, FS_CardinalityType, FactorsAssumption
    <3>2. Cardinality(fs) + (IF Due(fs) THEN 1 ELSE 0) <= load.maxFactors /\ Cardinality(Codes(fs)) <= 1
      BY DEF ListFine, ListInOrder, Ordered, fs
    <3>3. Cardinality(after) + (IF Due(after) THEN 1 ELSE 0) <= load.maxFactors
      BY <2>4, <3>1, <3>2
    <3>4. Cardinality(Codes(after)) <= 1
      <4>1. Cardinality(Codes(after)) \in Nat /\ Cardinality(Codes(fs)) \in Nat
        BY <2>3, FS_Subset, FS_CardinalityType DEF Codes
      <4> QED
        BY <2>5, <3>2, <4>1
    <3> QED
      BY <2>6, <3>3, <3>4 DEF Ordered
  <2>8. after \subseteq FactorType /\ \A f \in after : f.begun < list.fences => f.id \in before
    BY DEF ListFine, ListInOrder
  <2>9. Decided(Write(after, list.fences, "removed")) /\ list.fences \in Nat
    BY <2>2 DEF ListFine
  <2> HIDE DEF fs, rest, after
  <2> QED
    BY <2>3, <2>7, <2>8, <2>9, WrittenFine
<1> QED
  BY <1>1, <1>2

LEMMA MoveFine ==
  ASSUME ListFine, load \in Loads, UNCHANGED load, NEW t,
         Decided(Write(IF t.reset THEN {} ELSE list.factors, list.fences + 1, "moved"))
  PROVE  ListFine'
<1> DEFINE after == IF t.reset THEN {} ELSE list.factors
<1>1. after = {} \/ after = list.factors
  OBVIOUS
<1>2. Ordered({}, load.maxFactors) /\ IsFiniteSet({})
  <2>1. Codes({}) = {} /\ Counts({}) = {}
    BY DEF Codes, Counts
  <2>2. ~Due({})
    BY <2>1 DEF Due
  <2>3. Cardinality({}) = 0 /\ load.maxFactors \in Nat
    BY FS_EmptySet, FactorsAssumption
  <2> QED
    BY <2>1, <2>2, <2>3, FS_EmptySet DEF Ordered
<1>3. Ordered(after, load.maxFactors) /\ IsFiniteSet(after) /\ after \subseteq list.factors
  BY <1>1, <1>2 DEF ListFine, ListInOrder
<1> QED
  BY <1>3, WrittenFine DEF ListFine

(* A factor that moves on keeps its place and its kind.                    *)
LEMMA ProveFine ==
  ASSUME ListFine, load \in Loads, UNCHANGED load, NEW t, t.proof \in Nat, Decided(ProvedJudged(t))
  PROVE  ListFine'
<1> DEFINE fs == list.factors
           same == {f \in Named(fs, t.id) : f.state = t.read}
           g == [f \in fs |-> IF f \in same THEN Moved(f, t.proof) ELSE f]
           after == {IF f \in same THEN Moved(f, t.proof) ELSE f : f \in fs}
<1>1. CASE same = {}
  BY <1>1, LeftFine DEF ProvedJudged
<1>2. CASE same # {}
  <2>1. ProvedJudged(t) = Write(after, list.fences, "valid")
    BY <1>2 DEF ProvedJudged
  <2>2. \A f \in fs : /\ g[f] \in FactorType
                      /\ g[f].kind = f.kind /\ g[f].id = f.id /\ g[f].begun = f.begun
    <3> SUFFICES ASSUME NEW f \in fs
                 PROVE  /\ g[f] \in FactorType
                        /\ g[f].kind = f.kind /\ g[f].id = f.id /\ g[f].begun = f.begun
      OBVIOUS
    <3>1. f \in FactorType
      BY DEF ListFine
    <3>2. Moved(f, t.proof) \in FactorType
      BY <3>1 DEF Moved, FactorType
    <3>3. /\ Moved(f, t.proof).kind = f.kind /\ Moved(f, t.proof).id = f.id
          /\ Moved(f, t.proof).begun = f.begun
      BY <3>1 DEF Moved, FactorType
    <3> QED
      BY <3>1, <3>2, <3>3
  <2>3. after = {g[f] : f \in fs}
    OBVIOUS
  <2>a. (\A x \in after : \E f \in fs : x = g[f]) /\ (\A f \in fs : g[f] \in after)
    BY <2>3
  <2> HIDE DEF g, after
  <2>4. IsFiniteSet(after) /\ Cardinality(after) <= Cardinality(fs)
    <3>1. g \in Surjection(fs, after)
      BY <2>a DEF Surjection, g
    <3> QED
      BY <3>1, FS_Surjection DEF ListFine
  <2>5. IsFiniteSet(Codes(after)) /\ Cardinality(Codes(after)) <= Cardinality(Codes(fs))
    <3> DEFINE h == [f \in Codes(fs) |-> g[f]]
    <3>1. h \in Surjection(Codes(fs), Codes(after))
      <4>1. \A f \in Codes(fs) : h[f] \in Codes(after)
        BY <2>a, <2>2, <2>3 DEF Codes
      <4>2. \A x \in Codes(after) : \E f \in Codes(fs) : h[f] = x
        BY <2>a, <2>2 DEF Codes
      <4> QED
        BY <4>1, <4>2 DEF Surjection
    <3>2. IsFiniteSet(Codes(fs))
      BY FS_Subset DEF ListFine, Codes
    <3> QED
      BY <3>1, <3>2, FS_Surjection
  <2>6. (Codes(after) = {} <=> Codes(fs) = {}) /\ (Counts(after) = {} <=> Counts(fs) = {})
    BY <2>a, <2>2 DEF Codes, Counts
  <2>7. Ordered(after, load.maxFactors)
    <3>1. IsFiniteSet(fs) /\ IsFiniteSet(Codes(fs))
      BY FS_Subset DEF ListFine, Codes
    <3>2. Due(after) <=> Due(fs)
      BY <2>6 DEF Due
    <3>3. Cardinality(after) + (IF Due(after) THEN 1 ELSE 0) <= load.maxFactors
      BY <2>4, <3>1, <3>2, FS_CardinalityType, FactorsAssumption DEF ListFine, ListInOrder, Ordered
    <3>4. Cardinality(Codes(after)) <= 1
      BY <2>5, <3>1, FS_CardinalityType DEF ListFine, ListInOrder, Ordered
    <3> QED
      BY <2>6, <3>3, <3>4 DEF ListFine, ListInOrder, Ordered
  <2>8. after \subseteq FactorType /\ \A f \in after : f.begun < list.fences => f.id \in before
    BY <2>2, <2>3 DEF ListFine, ListInOrder
  <2> QED
    BY <2>1, <2>4, <2>7, <2>8, WrittenFine DEF ListFine
<1> QED
  BY <1>1, <1>2

----------------------------------------------------------------------------
LEMMA SameFine ==
  ASSUME IInv, UNCHANGED <<listVars, load>>
  PROVE  ListFine' /\ ids' \in Nat /\ load' \in Loads
BY DEF IInv, listVars, ListFine, ListInOrder, Ordered, Due, Counts, Codes

LEMMA Settling ==
  ASSUME TaskFine, NEW w \in Worker, ~Idle(w), NEW t, "pc" \in DOMAIN t, Settles(w, t) \/ Refuses(w, t)
  PROVE  TaskFine'
<1>1. CASE Return(w)
  BY <1>1, Returning
<1>2. CASE Become(w, <<[t EXCEPT !.pc = "verify.abandon"]>>)
  <2>1. FrameFine([t EXCEPT !.pc = "verify.abandon"])
    BY DEF FrameFine, Bound, Reissued, Proved
  <2> QED
    BY <1>2, <2>1, Becoming
<1>3. CASE Become(w, <<[t EXCEPT !.pc = "verify.refused"]>>)
  <2>1. FrameFine([t EXCEPT !.pc = "verify.refused"])
    BY DEF FrameFine, Bound, Reissued, Proved
  <2> QED
    BY <1>3, <2>1, Becoming
<1> QED
  BY <1>1, <1>2, <1>3 DEF Settles, Refuses

LEMMA InitIInv == Init => IInv
<1> SUFFICES ASSUME Init PROVE IInv
  OBVIOUS
<1>1. load \in Loads /\ ids \in Nat
  BY FactorsAssumption, FS_CardinalityType DEF Init
<1>2. TaskFine
  BY DEF Init, TaskFine
<1>3. /\ load.held \subseteq FactorType /\ IsFiniteSet(load.held)
      /\ Ordered(load.held, load.maxFactors)
  BY <1>1, FactorsAssumption
<1>4. list.factors = load.held /\ list.fences = 0 /\ list.written \in BOOLEAN
  BY DEF Init, Absent
<1>5. list \in [factors : SUBSET FactorType, fences : Nat, written : BOOLEAN]
  <2>1. CASE load.held = {}
    BY <2>1 DEF Init, Absent
  <2>2. CASE load.held # {}
    BY <2>2, <1>3 DEF Init
  <2> QED
    BY <2>1, <2>2
<1>6. \A f \in list.factors : ~(f.begun < list.fences)
  BY <1>3, <1>4 DEF FactorType
<1> QED
  BY <1>1, <1>2, <1>3, <1>4, <1>5, <1>6 DEF IInv, ListFine, ListInOrder

(* The list's own operations.                                              *)
LEMMA KeepingIInv ==
  ASSUME IInv, NEW w \in Worker, KeepingStep(w), UNCHANGED load
  PROVE  IInv'
<1> DEFINE t == Top(w)
<1> USE DEF IInv
<1>0. ASSUME NEW pc, Doing(w, pc)
      PROVE  ~Idle(w) /\ FrameFine(t) /\ t.pc = pc
  BY <1>0, TopFine DEF Doing
<1>1. CASE BindBegin(w)
  <2>1. Doing(w, "bind.begin") /\ UNCHANGED listVars
    BY <1>1 DEF BindBegin
  <2>2. ~Idle(w) /\ FrameFine(t) /\ t.pc = "bind.begin"
    BY <2>1, <1>0
  <2>3. CASE Return(w)
    BY <2>1, <2>2, <2>3, Returning, SameFine
  <2>4. ASSUME NEW first, Become(w, <<[t EXCEPT !.pc = "bind.fence", !.first = first]>>)
        PROVE  IInv'
    <3>1. FrameFine([t EXCEPT !.pc = "bind.fence", !.first = first])
      BY <2>2 DEF FrameFine, Bound, Reissued, Proved
    <3> QED
      BY <2>1, <2>2, <2>4, <3>1, Becoming, SameFine
  <2> QED
    BY <1>1, <2>3, <2>4 DEF BindBegin
<1>2. CASE BindFence(w)
  <2>1. Doing(w, "bind.fence") /\ UNCHANGED listVars
    BY <1>2 DEF BindFence
  <2>2. ~Idle(w) /\ FrameFine(t) /\ t.pc = "bind.fence"
    BY <2>1, <1>0
  <2>3. FrameFine([t EXCEPT !.pc = "bind.early", !.fence = list.fences])
    BY <2>2 DEF FrameFine, Bound, Reissued, Proved
  <2> QED
    BY <1>2, <2>1, <2>2, <2>3, Becoming, SameFine DEF BindFence
<1>3. CASE BindEarly(w)
  <2>1. Doing(w, "bind.early") /\ UNCHANGED listVars
    BY <1>3 DEF BindEarly
  <2>2. ~Idle(w) /\ FrameFine(t) /\ t.pc = "bind.early"
    BY <2>1, <1>0
  <2>3. FrameFine([t EXCEPT !.pc = "bind.write"])
    BY <2>2 DEF FrameFine, Bound, Reissued, Proved
  <2> QED
    BY <1>3, <2>1, <2>2, <2>3, Becoming, Returning, SameFine DEF BindEarly, To
<1>4. CASE BindWrite(w)
  <2>1. Doing(w, "bind.write") /\ ids' = ids
    BY <1>4 DEF BindWrite
  <2>2. ~Idle(w) /\ FrameFine(t) /\ t.pc = "bind.write"
    BY <2>1, <1>0
  <2>3. CASE SaveFirst(w, BindJudged(t))
    <3>1. FrameFine([t EXCEPT !.saving = TRUE])
      BY <2>2 DEF FrameFine, Bound, Reissued, Proved
    <3>2. UNCHANGED listVars
      BY <2>1, <2>3 DEF SaveFirst, listVars
    <3> QED
      BY <2>2, <2>3, <3>1, <3>2, Becoming, SameFine DEF SaveFirst
  <2>4. CASE Decided(BindJudged(t)) /\ ~SaveFirst(w, BindJudged(t))
    <3>1. t.id \in Nat /\ t.kind \in {"totp", "mail"}
      BY <2>2 DEF FrameFine, Bound
    <3>2. ListFine'
      BY <2>4, <3>1, BindFine
    <3>3. ASSUME NEW due PROVE FrameFine([t EXCEPT !.pc = "bind.check", !.saving = FALSE, !.due = due])
      BY <2>2 DEF FrameFine, Bound, Reissued, Proved
    <3>4. TaskFine'
      BY <1>4, <2>2, <2>4, <3>3, Becoming, Returning DEF BindWrite
    <3> QED
      BY <2>1, <3>2, <3>4
  <2> QED
    BY <1>4, <2>3, <2>4 DEF BindWrite
<1>5. CASE BindCheck(w)
  <2>1. Doing(w, "bind.check") /\ list' = list /\ before' = before
    BY <1>5 DEF BindCheck
  <2>2. ~Idle(w) /\ FrameFine(t) /\ t.pc = "bind.check"
    BY <2>1, <1>0
  <2>3. ListFine'
    BY <2>1 DEF ListFine, ListInOrder, Ordered, Due, Counts, Codes
  <2>4. CASE Return(w) /\ UNCHANGED ids
    BY <2>2, <2>3, <2>4, Returning
  <2>5. CASE ids' = ids + 1 /\ Become(w, <<[t EXCEPT !.pc = "reissue.write", !.id = ids']>>)
    <3>1. FrameFine([t EXCEPT !.pc = "reissue.write", !.id = ids'])
      BY <2>2, <2>5 DEF FrameFine, Bound, Reissued, Proved
    <3> QED
      BY <2>2, <2>3, <2>5, <3>1, Becoming
  <2> QED
    BY <1>5, <2>4, <2>5 DEF BindCheck
<1>6. CASE ReissueFence(w)
  <2>1. Doing(w, "reissue.fence") /\ UNCHANGED listVars
    BY <1>6 DEF ReissueFence
  <2>2. ~Idle(w) /\ FrameFine(t) /\ t.pc = "reissue.fence"
    BY <2>1, <1>0
  <2>3. FrameFine([t EXCEPT !.pc = "reissue.write", !.fence = list.fences])
    BY <2>2 DEF FrameFine, Bound, Reissued, Proved
  <2> QED
    BY <1>6, <2>1, <2>2, <2>3, Becoming, SameFine DEF ReissueFence
<1>7. CASE ReissueWrite(w)
  <2>1. ~Idle(w) /\ FrameFine(t) /\ t.pc = "reissue.write"
    BY <1>7, <1>0 DEF ReissueWrite
  <2>2. t.id \in Nat
    BY <2>1 DEF FrameFine, Reissued
  <2> QED
    BY <1>7, <2>1, <2>2, ReissueFine, Returning DEF ReissueWrite
<1>8. CASE RemoveFence(w) \/ RemoveStood(w)
  <2>1. ~Idle(w) /\ FrameFine(t) /\ UNCHANGED listVars
    BY <1>8, <1>0 DEF RemoveFence, RemoveStood
  <2>2. /\ FrameFine([t EXCEPT !.pc = "remove.stood", !.fence = list.fences])
        /\ FrameFine([t EXCEPT !.pc = "remove.write", !.stood = {f.id : f \in Counts(list.factors)}])
    BY <2>1 DEF FrameFine, Bound, Reissued, Proved
  <2> QED
    BY <1>8, <2>1, <2>2, Becoming, SameFine DEF RemoveFence, RemoveStood
<1>9. CASE RemoveWrite(w)
  <2>1. ~Idle(w) /\ FrameFine(t)
    BY <1>9, <1>0 DEF RemoveWrite
  <2> QED
    BY <1>9, <2>1, RemoveFine, Returning DEF RemoveWrite
<1>10. CASE MoveWrite(w)
  <2> DEFINE judged == Write(IF t.reset THEN {} ELSE list.factors, list.fences + 1, "moved")
  <2>1. ~Idle(w) /\ FrameFine(t) /\ t.pc = "move.write" /\ ids' = ids
    BY <1>10, <1>0 DEF MoveWrite
  <2>2. CASE SaveFirst(w, judged)
    <3>1. FrameFine([t EXCEPT !.saving = TRUE])
      BY <2>1 DEF FrameFine, Bound, Reissued, Proved
    <3>2. UNCHANGED listVars
      BY <2>1, <2>2 DEF SaveFirst, listVars
    <3> QED
      BY <2>1, <2>2, <3>1, <3>2, Becoming, SameFine DEF SaveFirst
  <2>3. CASE Decided(judged) /\ Return(w)
    BY <2>1, <2>3, MoveFine, Returning
  <2> QED
    BY <1>10, <2>2, <2>3 DEF MoveWrite
<1> QED
  BY <1>1, <1>2, <1>3, <1>4, <1>5, <1>6, <1>7, <1>8, <1>9, <1>10 DEF KeepingStep

(* Proofs: of these only the factor's own decision writes the list.        *)
LEMMA VerifyIInv ==
  ASSUME IInv, NEW w \in Worker, VerifyStep(w), UNCHANGED load
  PROVE  IInv'
<1> DEFINE t == Top(w)
<1> USE DEF IInv
<1>0. ASSUME NEW pc, Doing(w, pc)
      PROVE  ~Idle(w) /\ FrameFine(t) /\ t.pc = pc /\ "pc" \in DOMAIN t
  BY <1>0, TopFine DEF Doing, FrameFine
<1>1. CASE VerifyReserve(w)
  <2>1. ~Idle(w) /\ FrameFine(t) /\ t.pc = "verify.reserve" /\ UNCHANGED listVars
    BY <1>1, <1>0 DEF VerifyReserve
  <2>2. FrameFine([t EXCEPT !.pc = "verify.spend", !.at = NextAt(lockout, now), !.since = now])
    BY <2>1 DEF FrameFine, Bound, Reissued, Proved
  <2> QED
    BY <1>1, <2>1, <2>2, Becoming, Returning, SameFine DEF VerifyReserve
<1>2. CASE VerifySpend(w)
  <2>1. ~Idle(w) /\ FrameFine(t) /\ t.pc = "verify.spend" /\ "pc" \in DOMAIN t /\ UNCHANGED listVars
    BY <1>2, <1>0 DEF VerifySpend
  <2>2. FrameFine([t EXCEPT !.pc = "prove.read", !.left = attempts[t.x] - 1])
    BY <2>1 DEF FrameFine, Bound, Reissued, Proved
  <2> QED
    BY <1>2, <2>1, <2>2, Becoming, Settling, SameFine DEF VerifySpend
<1>3. CASE ProveRead(w)
  <2>1. ~Idle(w) /\ FrameFine(t) /\ t.pc = "prove.read" /\ "pc" \in DOMAIN t /\ UNCHANGED listVars
    BY <1>3, <1>0 DEF ProveRead
  <2>2. "pc" \in DOMAIN [t EXCEPT !.kept = TRUE]
    BY <2>1
  <2>3. ASSUME NEW read PROVE FrameFine([t EXCEPT !.pc = "prove.decide", !.read = read])
    BY <2>1 DEF FrameFine, Bound, Reissued, Proved
  <2>4. TaskFine'
    <3>1. CASE Refuses(w, t) \/ Refuses(w, [t EXCEPT !.kept = TRUE])
      BY <2>1, <2>2, <3>1, Settling
    <3>2. ASSUME NEW f \in list.factors, Become(w, <<[t EXCEPT !.pc = "prove.decide", !.read = f.state]>>)
          PROVE  TaskFine'
      BY <2>1, <2>3, <3>2, Becoming
    <3> QED
      BY <1>3, <3>1, <3>2 DEF ProveRead, Named
  <2> QED
    BY <2>1, <2>4, SameFine
<1>4. CASE ProveDecide(w)
  <2> DEFINE u == [t EXCEPT !.read = {}]
  <2>1. ~Idle(w) /\ FrameFine(t) /\ t.pc = "prove.decide" /\ "pc" \in DOMAIN t /\ ids' = ids
    BY <1>4, <1>0 DEF ProveDecide
  <2>2. t.proof \in Nat
    BY <2>1 DEF FrameFine, Proved
  <2>3. ListFine'
    BY <1>4, <2>2, ProveFine DEF ProveDecide
  <2>4. FrameFine([u EXCEPT !.pc = "verify.take"]) /\ "pc" \in DOMAIN u
    BY <2>1 DEF FrameFine, Bound, Reissued, Proved
  <2>5. TaskFine'
    <3>1. CASE Become(w, <<[u EXCEPT !.pc = "verify.take"]>>)
      BY <2>1, <2>4, <3>1, Becoming
    <3>2. CASE Refuses(w, u)
      BY <2>1, <2>4, <3>2, Settling
    <3>3. CASE Throw(w)
      BY <2>1, <3>3, Throwing
    <3> QED
      BY <1>4, <3>1, <3>2, <3>3 DEF ProveDecide
  <2> QED
    BY <2>1, <2>3, <2>5
<1>5. CASE VerifyRefused(w) \/ VerifyGiveBack(w)
  <2>1. ~Idle(w) /\ "pc" \in DOMAIN t /\ "pc" \in DOMAIN [t EXCEPT !.read = {}] /\ UNCHANGED listVars
    BY <1>5, <1>0 DEF VerifyRefused, VerifyGiveBack
  <2> QED
    BY <1>5, <2>1, Settling, SameFine DEF VerifyRefused, VerifyGiveBack
<1>6. CASE VerifyTake(w) \/ VerifySucceed(w)
  <2>1. ~Idle(w) /\ "pc" \in DOMAIN t /\ UNCHANGED listVars
    BY <1>6, <1>0 DEF VerifyTake, VerifySucceed
  <2>2. FrameFine([t EXCEPT !.pc = "verify.succeed"]) /\ FrameFine([t EXCEPT !.pc = "permit.grant"])
    BY <2>1 DEF FrameFine, Bound, Reissued, Proved
  <2> QED
    BY <1>6, <2>1, <2>2, Settling, Becoming, Returning, SameFine DEF VerifyTake, VerifySucceed, To
<1>7. CASE VerifyAbandon(w) \/ PermitGrant(w)
  <2>1. ~Idle(w) /\ UNCHANGED listVars
    BY <1>7, <1>0 DEF VerifyAbandon, PermitGrant
  <2> QED
    BY <1>7, <2>1, Returning, SameFine DEF VerifyAbandon, PermitGrant
<1> QED
  BY <1>1, <1>2, <1>3, <1>4, <1>5, <1>6, <1>7 DEF VerifyStep

LEMMA ReleaseIInv ==
  ASSUME IInv, NEW w \in Worker, ReleaseStep(w), UNCHANGED load
  PROVE  IInv'
<1> DEFINE t == Top(w)
<1> USE DEF IInv
<1>1. ~Idle(w) /\ FrameFine(t) /\ UNCHANGED listVars
  BY TopFine DEF ReleaseStep, ReleasePermit, ReleaseStanding, ReleaseUnder, ReleaseUse, Doing
<1>2. /\ \A at : FrameFine([t EXCEPT !.pc = "release.standing", !.id = <<t.id[1], at>>])
      /\ FrameFine([t EXCEPT !.pc = "release.under", !.stood = StandingOf(lockout, load.policy, now)])
      /\ FrameFine([t EXCEPT !.pc = "release.use"])
  BY <1>1 DEF FrameFine, Bound, Reissued, Proved
<1>3. TaskFine'
  BY <1>1, <1>2, Becoming, Returning DEF ReleaseStep, ReleasePermit, ReleaseStanding, ReleaseUnder, ReleaseUse, To
<1> QED
  BY <1>1, <1>3, SameFine

LEMMA BeginIInv ==
  ASSUME IInv, NEW w \in Worker, Begin(w), UNCHANGED load
  PROVE  IInv'
<1> USE DEF IInv
<1>1. CASE BeginBind(w)
  <2>1. ids' \in Nat /\ list' = list /\ before' = before
    BY <1>1 DEF BeginBind
  <2>2. PICK kind \in {"totp", "mail"}, login \in BOOLEAN :
          Start(w, <<[Keeping("bind.begin", ids') EXCEPT !.kind = kind, !.login = login]>>)
    BY <1>1 DEF BeginBind, Begins
  <2>3. FrameFine([Keeping("bind.begin", ids') EXCEPT !.kind = kind, !.login = login])
    BY <2>1 DEF Keeping, FrameFine, Bound, Reissued, Proved
  <2>4. ListFine'
    BY <2>1 DEF ListFine, ListInOrder, Ordered, Due, Counts, Codes
  <2> QED
    BY <2>1, <2>2, <2>3, <2>4, Starting
<1>2. CASE BeginReissue(w)
  <2>1. ids' \in Nat /\ list' = list /\ before' = before
    BY <1>2 DEF BeginReissue
  <2>2. FrameFine(Keeping("reissue.fence", ids'))
    BY <2>1 DEF Keeping, FrameFine, Bound, Reissued, Proved
  <2>3. ListFine'
    BY <2>1 DEF ListFine, ListInOrder, Ordered, Due, Counts, Codes
  <2> QED
    BY <1>2, <2>1, <2>2, <2>3, Starting DEF BeginReissue, Begins
<1>3. CASE BeginRemove(w)
  <2>1. PICK f \in list.factors : Start(w, <<Keeping("remove.fence", f.id)>>)
    BY <1>3 DEF BeginRemove, Begins
  <2>2. FrameFine(Keeping("remove.fence", f.id))
    BY DEF Keeping, FrameFine, Bound, Reissued, Proved
  <2> QED
    BY <1>3, <2>1, <2>2, Starting, SameFine DEF BeginRemove
<1>4. CASE BeginMove(w)
  <2>1. PICK reset \in BOOLEAN : Start(w, <<[Keeping("move.write", 0) EXCEPT !.reset = reset]>>)
    BY <1>4 DEF BeginMove, Begins
  <2>2. FrameFine([Keeping("move.write", 0) EXCEPT !.reset = reset])
    BY DEF Keeping, FrameFine, Bound, Reissued, Proved
  <2> QED
    BY <1>4, <2>1, <2>2, Starting, SameFine DEF BeginMove
<1>5. CASE BeginVerify(w)
  <2>1. PICK x \in Transaction, f \in list.factors, proof \in load.proofs :
          Start(w, <<[pc |-> IF f.kind = "codes" THEN "verify.spend" ELSE "verify.reserve", id |-> f.id,
                      x |-> x, proof |-> proof, at |-> 0, since |-> 0, left |-> 0, kept |-> FALSE, read |-> {}]>>)
    BY <1>5 DEF BeginVerify, Begins
  <2>2. proof \in Nat
    BY FactorsAssumption
  <2>3. FrameFine([pc |-> IF f.kind = "codes" THEN "verify.spend" ELSE "verify.reserve", id |-> f.id,
                   x |-> x, proof |-> proof, at |-> 0, since |-> 0, left |-> 0, kept |-> FALSE, read |-> {}])
    BY <2>2 DEF FrameFine, Bound, Reissued, Proved
  <2> QED
    BY <1>5, <2>1, <2>3, Starting, SameFine DEF BeginVerify
<1>6. CASE BeginRelease(w)
  <2>1. PICK s \in Session :
          Start(w, <<[pc |-> "release.permit", id |-> <<s, 0>>, stood |-> [first |-> 0, fixedAt |-> 0]]>>)
    BY <1>6 DEF BeginRelease, Begins
  <2>2. FrameFine([pc |-> "release.permit", id |-> <<s, 0>>, stood |-> [first |-> 0, fixedAt |-> 0]])
    BY DEF FrameFine, Bound, Reissued, Proved
  <2> QED
    BY <1>6, <2>1, <2>2, Starting, SameFine DEF BeginRelease
<1> QED
  BY <1>1, <1>2, <1>3, <1>4, <1>5, <1>6 DEF Begin

LEMMA StepIInv == IInv /\ [Next]_vars => IInv'
<1> SUFFICES ASSUME IInv, [Next]_vars PROVE IInv'
  OBVIOUS
<1>1. CASE UNCHANGED vars
  <2>1. UNCHANGED <<listVars, load, task>>
    BY <1>1 DEF vars
  <2> QED
    BY <2>1, SameFine DEF IInv, TaskFine, FrameFine
<1>2. ASSUME NEW w \in Worker, Fail(w), UNCHANGED load
      PROVE  IInv'
  <2>1. TaskFine'
    <3>1. ~Idle(w) /\ "pc" \in DOMAIN Top(w)
      BY <1>2, TopFine DEF Fail, IInv, FrameFine
    <3> QED
      BY <1>2, <3>1, Settling, Throwing, Dropping DEF Fail, IInv
  <2> QED
    BY <1>2, <2>1, SameFine DEF Fail, IInv
<1>3. CASE Tick /\ UNCHANGED load
  <2>1. UNCHANGED <<listVars, load, task>>
    BY <1>3 DEF Tick
  <2> QED
    BY <2>1, SameFine DEF IInv, TaskFine, FrameFine
<1> QED
  BY <1>1, <1>2, <1>3, KeepingIInv, VerifyIInv, ReleaseIInv, BeginIInv DEF Next

(* The list of a subject's second factors stays in order under bindings,   *)
(* reissues, removals, resets, revocations and proofs at once, for any     *)
(* number of each, whatever fails or stops between their calls.            *)
THEOREM FactorsInOrder == Spec => []ListInOrder
<1>1. IInv => ListInOrder
  BY DEF IInv, ListFine
<1> QED
  BY <1>1, InitIInv, StepIInv, PTL DEF Spec

----------------------------------------------------------------------------
(***************************************************************************)
(* That a number or a code lets one transaction on, once, proved for any   *)
(* number of workers, transactions and factors, on top of what             *)
(* is shown above of frames and of the list.                               *)
(*                                                                         *)
(* The argument: what was proved fits its factor no more, whatever is      *)
(* proved of it later, and a proof judged on a state of the factor is      *)
(* written only over that state; ids are drawn fresh, so a factor removed  *)
(* never comes back to be proved anew.                                     *)
(***************************************************************************)

(* As Fits, of a state read earlier.                                       *)
FitsState(kind, state, n) == IF kind = "codes" THEN n \notin state ELSE \A u \in state : n > u

(* Frames that may yet write the factor of a fresh id, and frames that     *)
(* prove one, the last having written it.                                  *)
Making == {"bind.begin", "bind.fence", "bind.early", "bind.write", "reissue.fence", "reissue.write"}
Winning == {"verify.take", "verify.succeed"}
Verifying == {"verify.reserve", "verify.spend", "prove.read", "prove.decide"} \cup Winning

At(w, pcs) == ~Idle(w) /\ Top(w).pc \in pcs

FrameHolds(f) ==
  /\ f.pc \in Making => "id" \in DOMAIN f /\ f.id \in 1 .. ids
  /\ f.pc \in Verifying =>
       {"id", "proof", "x", "read"} \subseteq DOMAIN f /\ f.id \in 1 .. ids /\ f.proof \in Nat
  /\ f.pc = "verify.succeed" => f.x \in taken

(* A fresh id is no factor's, no proof's and no other frame's.             *)
Fresh(w) ==
  At(w, Making) =>
    /\ \A f \in list.factors : f.id # Top(w).id
    /\ \A a \in accepted : a.factor # Top(w).id
    /\ \A v \in Worker \ {w} : At(v, Making \cup Verifying) => Top(v).id # Top(w).id

Reads(w) ==
  At(w, {"prove.decide"}) =>
    \A f \in list.factors : f.id = Top(w).id => FitsState(f.kind, Top(w).read, Top(w).proof)

(* What was proved fits no more.                                           *)
Beaten(fs, id, n) == \A f \in fs : f.id = id => ~Fits(f, n)

Won(w) ==
  At(w, Winning) =>
    /\ Beaten(list.factors, Top(w).id, Top(w).proof)
    /\ \A a \in accepted : <<a.factor, a.proof>> # <<Top(w).id, Top(w).proof>>
    /\ \A v \in Worker \ {w} : At(v, Winning) => <<Top(v).id, Top(v).proof>> # <<Top(w).id, Top(w).proof>>

TakenOnce(w) ==
  At(w, {"verify.succeed"}) =>
    /\ \A a \in accepted : a.by # Top(w).x
    /\ \A v \in Worker \ {w} : At(v, {"verify.succeed"}) => Top(v).x # Top(w).x

AcceptedFine ==
  \A a \in accepted : a.factor \in 1 .. ids /\ a.proof \in Nat /\ a.by \in taken /\ Beaten(list.factors, a.factor, a.proof)

OnceInv ==
  /\ \A f \in list.factors : f.id \in 1 .. ids
  /\ \A f, g \in list.factors : f.id = g.id => f = g
  /\ AcceptedFine /\ AcceptedOnce
  /\ \A w \in Worker :
       /\ ~Idle(w) => FrameHolds(Top(w))
       /\ Fresh(w) /\ Reads(w) /\ Won(w) /\ TakenOnce(w)

----------------------------------------------------------------------------
(* What a step of one worker leaves of the list: factors that were there,  *)
(* which fit no more than they did, and one of a fresh id of the worker's, *)
(* which makes it no more.                                                 *)
Remains(f, g) == f.id = g.id /\ f.kind = g.kind /\ \A n \in Nat : ~Fits(f, n) => ~Fits(g, n)

ListKept(w) ==
  /\ \A f, g \in list'.factors : f.id = g.id => f = g
  /\ \A g \in list'.factors :
       \/ \E f \in list.factors : Remains(f, g)
       \/ At(w, Making) /\ g.id = Top(w).id /\ ~At(w, Making)' /\ ~At(w, Verifying)'

(* What its frame is by then.                                              *)
NewFrame(w, f) ==
  LET t == Top(w) IN
  /\ f.pc \in Making =>
       "id" \in DOMAIN f /\ ((At(w, Making) /\ f.id = t.id) \/ f.id \in ids + 1 .. ids')
  /\ f.pc \in Verifying =>
       /\ {"id", "proof", "x", "read"} \subseteq DOMAIN f /\ f.proof \in Nat
       /\ \/ At(w, Verifying) /\ f.id = t.id
          \/ f.pc \in {"verify.reserve", "verify.spend"} /\ \E g \in list.factors : g.id = f.id
  /\ f.pc = "prove.decide" =>
       \A g \in list'.factors : g.id = f.id => FitsState(g.kind, f.read, f.proof)
  /\ f.pc \in Winning =>
       \/ At(w, Winning) /\ f.id = t.id /\ f.proof = t.proof
       \/ (\E g \in list.factors : g.id = f.id /\ Fits(g, f.proof)) /\ Beaten(list'.factors, f.id, f.proof)
  /\ f.pc = "verify.succeed" => f.x \in taken' /\ f.x \notin taken

LEMMA OnceStep ==
  ASSUME OnceInv, NEW w \in Worker,
         \A v \in Worker \ {w} : task'[v] = task[v],
         task'[w] = <<>> \/ \E f : task'[w] = <<f>> /\ NewFrame(w, f),
         ids \in Nat, ids' \in Nat, ids <= ids', taken \subseteq taken', accepted' = accepted,
         ListKept(w)
  PROVE  OnceInv'
<1>1. \A v \in Worker \ {w} : Idle(v)' = Idle(v) /\ Top(v)' = Top(v)
  BY DEF Idle, Top
<1>2. PICK frame : task'[w] = <<>> \/ (task'[w] = <<frame>> /\ NewFrame(w, frame))
  OBVIOUS
<1>3. ASSUME ~Idle(w)' PROVE Top(w)' = frame /\ NewFrame(w, frame)
  BY <1>2, <1>3, OneFrame DEF Top, Idle
<1>4. \A v \in Worker \ {w} : \A pcs : At(v, pcs)' <=> At(v, pcs)
  BY <1>1 DEF At
<1>5. \A f \in list'.factors : f.id \in 1 .. ids'
  BY DEF OnceInv, ListKept, Remains, FrameHolds, At
<1>6. \A pcs : At(w, pcs)' => Top(w)' = frame /\ NewFrame(w, frame) /\ frame.pc \in pcs
  BY <1>3 DEF At
<1>7. \A f, g \in list'.factors : f.id = g.id => f = g
  BY DEF ListKept
<1>8. \A id \in Nat, n \in Nat : Beaten(list.factors, id, n) /\ ~(At(w, Making) /\ Top(w).id = id) => Beaten(list'.factors, id, n)
  BY DEF Beaten, ListKept, Remains
<1>9. \A v \in Worker : At(v, Making) => Top(v).id \in 1 .. ids
  BY DEF OnceInv, FrameHolds, At
<1>10. \A v \in Worker : At(v, Verifying) => Top(v).id \in 1 .. ids /\ Top(v).proof \in Nat
  BY DEF OnceInv, FrameHolds, At
<1>11. \A v \in Worker : At(v, {"verify.succeed"}) => Top(v).x \in taken /\ At(v, Winning)
  BY DEF OnceInv, FrameHolds, At, Winning
<1>12. \A v \in Worker : At(v, Winning) \/ At(v, {"prove.decide"}) => At(v, Verifying)
  BY DEF At, Verifying
<1>13. AcceptedFine' /\ AcceptedOnce'
  <2>1. AcceptedOnce'
    BY DEF AcceptedOnce, OnceInv
  <2>2. ASSUME NEW a \in accepted
        PROVE  a.factor \in 1 .. ids' /\ a.proof \in Nat /\ a.by \in taken' /\ Beaten(list'.factors, a.factor, a.proof)
    <3>1. a.factor \in 1 .. ids /\ a.proof \in Nat /\ a.by \in taken /\ Beaten(list.factors, a.factor, a.proof)
      BY DEF OnceInv, AcceptedFine
    <3>2. ~(At(w, Making) /\ Top(w).id = a.factor)
      BY DEF OnceInv, Fresh
    <3> QED
      BY <3>1, <3>2, <1>8
  <2> QED
    BY <2>1, <2>2 DEF AcceptedFine
<1>14. ASSUME NEW v \in Worker, v # w
       PROVE  (~Idle(v) => FrameHolds(Top(v)))' /\ Fresh(v)' /\ Reads(v)' /\ Won(v)' /\ TakenOnce(v)'
  <2>1. (~Idle(v) => FrameHolds(Top(v)))'
    BY <1>14, <1>1 DEF OnceInv, FrameHolds
  <2>2. Fresh(v)'
    <3> SUFFICES ASSUME At(v, Making)
                 PROVE  /\ \A f \in list'.factors : f.id # Top(v).id
                        /\ \A a \in accepted : a.factor # Top(v).id
                        /\ \A u \in Worker \ {v} : At(u, Making \cup Verifying)' => Top(u)'.id # Top(v).id
      BY <1>14, <1>1, <1>4 DEF Fresh
    <3>1. /\ \A f \in list.factors : f.id # Top(v).id
          /\ \A a \in accepted : a.factor # Top(v).id
          /\ \A u \in Worker \ {v} : At(u, Making \cup Verifying) => Top(u).id # Top(v).id
      BY DEF OnceInv, Fresh
    <3>2. \A pcs : At(w, pcs) /\ pcs \in {Making, Verifying} => Top(w).id # Top(v).id
      BY <3>1, <1>14 DEF At
    <3>3. \A f \in list'.factors : f.id # Top(v).id
      BY <3>1, <3>2 DEF ListKept, Remains
    <3>4. At(w, Making)' => Top(w)'.id # Top(v).id
      BY <3>2, <1>6, <1>9 DEF NewFrame
    <3>5. At(w, Verifying)' => Top(w)'.id # Top(v).id
      BY <3>1, <3>2, <1>6 DEF NewFrame
    <3>6. At(w, Making \cup Verifying)' => At(w, Making)' \/ At(w, Verifying)'
      BY DEF At
    <3> QED
      BY <3>1, <3>3, <3>4, <3>5, <3>6, <1>1, <1>4
  <2>3. Reads(v)'
    <3> SUFFICES ASSUME At(v, {"prove.decide"}), NEW g \in list'.factors, g.id = Top(v).id
                 PROVE  FitsState(g.kind, Top(v).read, Top(v).proof)
      BY <1>14, <1>1, <1>4 DEF Reads
    <3>1. ~(At(w, Making) /\ g.id = Top(w).id)
      BY <1>14, <1>12 DEF OnceInv, Fresh, At
    <3> QED
      BY <3>1 DEF OnceInv, Reads, ListKept, Remains
  <2>4. Won(v)'
    <3> SUFFICES ASSUME At(v, Winning)
                 PROVE  /\ Beaten(list'.factors, Top(v).id, Top(v).proof)
                        /\ \A a \in accepted : <<a.factor, a.proof>> # <<Top(v).id, Top(v).proof>>
                        /\ \A u \in Worker \ {v} : At(u, Winning)' =>
                              <<Top(u)'.id, Top(u)'.proof>> # <<Top(v).id, Top(v).proof>>
      <4>1. Won(v)' <=> (At(v, Winning) =>
                 /\ Beaten(list'.factors, Top(v).id, Top(v).proof)
                 /\ \A a \in accepted : <<a.factor, a.proof>> # <<Top(v).id, Top(v).proof>>
                 /\ \A u \in Worker \ {v} : At(u, Winning)' =>
                       <<Top(u)'.id, Top(u)'.proof>> # <<Top(v).id, Top(v).proof>>)
        BY <1>14, <1>1, <1>4 DEF Won
      <4> QED
        BY <4>1
    <3>1. /\ Beaten(list.factors, Top(v).id, Top(v).proof)
          /\ \A a \in accepted : <<a.factor, a.proof>> # <<Top(v).id, Top(v).proof>>
          /\ \A u \in Worker \ {v} : At(u, Winning) => <<Top(u).id, Top(u).proof>> # <<Top(v).id, Top(v).proof>>
      BY DEF OnceInv, Won
    <3>2. Top(v).id \in Nat /\ Top(v).proof \in Nat
      BY <1>10, <1>12
    <3>3. ~(At(w, Making) /\ Top(w).id = Top(v).id)
      BY <1>14, <1>12 DEF OnceInv, Fresh, At
    <3>4. Beaten(list'.factors, Top(v).id, Top(v).proof)
      BY <3>1, <3>2, <3>3, <1>8
    <3>5. At(w, Winning)' => <<Top(w)'.id, Top(w)'.proof>> # <<Top(v).id, Top(v).proof>>
      BY <3>1, <1>6, <1>14 DEF NewFrame, Beaten
    <3> QED
      BY <3>1, <3>4, <3>5, <1>1, <1>4
  <2>5. TakenOnce(v)'
    <3> SUFFICES ASSUME At(v, {"verify.succeed"})
                 PROVE  /\ \A a \in accepted : a.by # Top(v).x
                        /\ \A u \in Worker \ {v} : At(u, {"verify.succeed"})' => Top(u)'.x # Top(v).x
      BY <1>14, <1>1, <1>4 DEF TakenOnce
    <3>1. Top(v).x \in taken
      BY <1>11
    <3>2. At(w, {"verify.succeed"})' => Top(w)'.x # Top(v).x
      BY <3>1, <1>6 DEF NewFrame
    <3>3. /\ \A a \in accepted : a.by # Top(v).x
          /\ \A u \in Worker \ {v} : At(u, {"verify.succeed"}) => Top(u).x # Top(v).x
      BY DEF OnceInv, TakenOnce
    <3> QED
      BY <3>2, <3>3, <1>1, <1>4
  <2> QED
    BY <2>1, <2>2, <2>3, <2>4, <2>5
<1>15. (~Idle(w) => FrameHolds(Top(w)))' /\ Fresh(w)' /\ Reads(w)' /\ Won(w)' /\ TakenOnce(w)'
  <2>1. (~Idle(w) => FrameHolds(Top(w)))'
    <3> SUFFICES ASSUME ~Idle(w)' PROVE FrameHolds(frame)'
      BY <1>3
    <3>0. NewFrame(w, frame)
      BY <1>3
    <3>1. frame.pc \in Making => "id" \in DOMAIN frame /\ frame.id \in 1 .. ids'
      BY <3>0, <1>9 DEF NewFrame
    <3>2. frame.pc \in Verifying =>
            {"id", "proof", "x", "read"} \subseteq DOMAIN frame /\ frame.id \in 1 .. ids' /\ frame.proof \in Nat
      BY <3>0, <1>10 DEF NewFrame, OnceInv
    <3> QED
      BY <3>0, <3>1, <3>2 DEF FrameHolds, NewFrame
  <2>2. Fresh(w)'
    <3> SUFFICES ASSUME At(w, Making)'
                 PROVE  /\ \A f \in list'.factors : f.id # frame.id
                        /\ \A a \in accepted : a.factor # frame.id
                        /\ \A v \in Worker \ {w} : At(v, Making \cup Verifying) => Top(v).id # frame.id
      BY <1>1, <1>4, <1>6 DEF Fresh
    <3>0. \A g \in list'.factors : \E f \in list.factors : g.id = f.id
      BY DEF ListKept, Remains
    <3>1. CASE At(w, Making) /\ frame.id = Top(w).id
      <4>1. Fresh(w)
        BY DEF OnceInv
      <4>2. /\ \A f \in list.factors : f.id # frame.id
            /\ \A a \in accepted : a.factor # frame.id
            /\ \A v \in Worker \ {w} : At(v, Making \cup Verifying) => Top(v).id # frame.id
        BY <3>1, <4>1 DEF Fresh
      <4> QED
        BY <3>0, <4>2
    <3>2. CASE frame.id \in ids + 1 .. ids'
      <4>1. \A v \in Worker : At(v, Making \cup Verifying) => Top(v).id \in 1 .. ids
        BY <1>9, <1>10 DEF At
      <4> QED
        <5>1. \A f \in list.factors : f.id \in 1 .. ids
          BY DEF OnceInv
        <5>2. \A a \in accepted : a.factor \in 1 .. ids
          BY DEF OnceInv, AcceptedFine
        <5>3. frame.id \notin 1 .. ids
          BY <3>2
        <5> QED
          BY <3>0, <4>1, <5>1, <5>2, <5>3
    <3> QED
      BY <3>1, <3>2, <1>6 DEF NewFrame
  <2>3. Reads(w)'
    BY <1>6 DEF Reads, NewFrame
  <2>4. Won(w)'
    <3> SUFFICES ASSUME At(w, Winning)'
                 PROVE  /\ Beaten(list'.factors, frame.id, frame.proof)
                        /\ \A a \in accepted : <<a.factor, a.proof>> # <<frame.id, frame.proof>>
                        /\ \A v \in Worker \ {w} : At(v, Winning) =>
                              <<Top(v).id, Top(v).proof>> # <<frame.id, frame.proof>>
      <4>1. Won(w)' <=> (At(w, Winning)' =>
                 /\ Beaten(list'.factors, frame.id, frame.proof)
                 /\ \A a \in accepted : <<a.factor, a.proof>> # <<frame.id, frame.proof>>
                 /\ \A v \in Worker \ {w} : At(v, Winning) =>
                       <<Top(v).id, Top(v).proof>> # <<frame.id, frame.proof>>)
        BY <1>1, <1>4, <1>6 DEF Won
      <4> QED
        BY <4>1
    <3>1. CASE At(w, Winning) /\ frame.id = Top(w).id /\ frame.proof = Top(w).proof
      <4>1. Top(w).id \in Nat /\ Top(w).proof \in Nat /\ ~At(w, Making)
        BY <3>1, <1>10, <1>12 DEF At, Winning, Making
      <4>2. Beaten(list'.factors, Top(w).id, Top(w).proof)
        BY <3>1, <4>1, <1>8 DEF OnceInv, Won
      <4>3. Beaten(list'.factors, frame.id, frame.proof)
        BY <3>1, <4>2
      <4> QED
        BY <3>1, <4>3 DEF OnceInv, Won
    <3>2. CASE (\E g \in list.factors : g.id = frame.id /\ Fits(g, frame.proof))
                 /\ Beaten(list'.factors, frame.id, frame.proof)
      <4>1. \A a \in accepted : Beaten(list.factors, a.factor, a.proof)
        BY DEF OnceInv, AcceptedFine
      <4>2. \A v \in Worker \ {w} : At(v, Winning) => Beaten(list.factors, Top(v).id, Top(v).proof)
        BY DEF OnceInv, Won
      <4> QED
        BY <3>2, <4>1, <4>2 DEF Beaten
    <3>3. NewFrame(w, frame) /\ frame.pc \in Winning
      BY <1>6
    <3> QED
      BY <3>1, <3>2, <3>3 DEF NewFrame, Beaten
  <2>5. TakenOnce(w)'
    <3> SUFFICES ASSUME At(w, {"verify.succeed"})'
                 PROVE  /\ \A a \in accepted : a.by # frame.x
                        /\ \A v \in Worker \ {w} : At(v, {"verify.succeed"}) => Top(v).x # frame.x
      BY <1>1, <1>4, <1>6 DEF TakenOnce
    <3>1. frame.x \notin taken
      BY <1>6 DEF NewFrame
    <3> QED
      BY <3>1, <1>11 DEF OnceInv, AcceptedFine
  <2> QED
    BY <2>1, <2>2, <2>3, <2>4, <2>5
<1> QED
  <2>1. \A v \in Worker : (~Idle(v) => FrameHolds(Top(v)))' /\ Fresh(v)' /\ Reads(v)' /\ Won(v)' /\ TakenOnce(v)'
    BY <1>14, <1>15
  <2> QED
    BY <2>1, <1>5, <1>7, <1>13 DEF OnceInv

(* A transaction that goes on: its proof is beaten, and no other's.        *)
LEMMA OnceSucceed ==
  ASSUME OnceInv, NEW w \in Worker, At(w, {"verify.succeed"}),
         \A v \in Worker \ {w} : task'[v] = task[v],
         task'[w] = <<>> \/ \E f : task'[w] = <<f>> /\ f.pc \notin Making \cup Verifying,
         NEW n, accepted' = accepted \cup {[factor |-> Top(w).id, proof |-> Top(w).proof, by |-> Top(w).x, nth |-> n]},
         UNCHANGED <<list, ids, taken>>
  PROVE  OnceInv'
<1> DEFINE t == Top(w)
           one == [factor |-> t.id, proof |-> t.proof, by |-> t.x, nth |-> n]
<1>1. \A v \in Worker \ {w} : Idle(v)' = Idle(v) /\ Top(v)' = Top(v)
  BY DEF Idle, Top
<1>2. \A v \in Worker \ {w} : \A pcs : At(v, pcs)' <=> At(v, pcs)
  BY <1>1 DEF At
<1>3. Idle(w)' \/ Top(w)'.pc \notin Making \cup Verifying
  BY OneFrame DEF Idle, Top
<1>4. ~At(w, Making)' /\ ~At(w, Winning)' /\ ~At(w, {"prove.decide"})' /\ ~At(w, {"verify.succeed"})'
      /\ ~At(w, Making \cup Verifying)'
  BY <1>3 DEF At, Verifying, Winning
<1>5. At(w, Winning) /\ At(w, Verifying) /\ At(w, Making \cup Verifying)
  BY DEF At, Winning, Verifying
<1>6. t.id \in 1 .. ids /\ t.proof \in Nat /\ t.x \in taken
  BY <1>5 DEF OnceInv, FrameHolds, At, Winning, Verifying
<1>7. /\ Beaten(list.factors, t.id, t.proof)
      /\ \A a \in accepted : <<a.factor, a.proof>> # <<t.id, t.proof>>
      /\ \A v \in Worker \ {w} : At(v, Winning) => <<Top(v).id, Top(v).proof>> # <<t.id, t.proof>>
  BY <1>5 DEF OnceInv, Won
<1>8. /\ \A a \in accepted : a.by # t.x
      /\ \A v \in Worker \ {w} : At(v, {"verify.succeed"}) => Top(v).x # t.x
  BY DEF OnceInv, TakenOnce
<1>9. one.factor = t.id /\ one.proof = t.proof /\ one.by = t.x /\ accepted' = accepted \cup {one}
  OBVIOUS
<1> HIDE DEF one
<1>10. AcceptedFine'
  BY <1>6, <1>7, <1>9 DEF AcceptedFine, OnceInv
<1>11. AcceptedOnce'
  BY <1>7, <1>8, <1>9 DEF AcceptedOnce, OnceInv
<1>12. ASSUME NEW v \in Worker \ {w}
       PROVE  (~Idle(v) => FrameHolds(Top(v)))' /\ Fresh(v)' /\ Reads(v)' /\ Won(v)' /\ TakenOnce(v)'
  <2>1. (~Idle(v) => FrameHolds(Top(v)))'
    BY <1>1 DEF OnceInv, FrameHolds
  <2>2. Fresh(v)'
    <3>1. Fresh(v)
      BY DEF OnceInv
    <3>2. At(v, Making) => \A u \in Worker \ {v} : At(u, Making \cup Verifying)' =>
                              At(u, Making \cup Verifying) /\ Top(u)' = Top(u)
      BY <1>1, <1>2, <1>4
    <3>3. At(v, Making) => one.factor # Top(v).id
      BY <3>1, <1>5, <1>9 DEF Fresh
    <3> QED
      BY <3>1, <3>2, <3>3, <1>1, <1>2, <1>9 DEF Fresh
  <2>3. Reads(v)'
    BY <1>1, <1>2 DEF OnceInv, Reads
  <2>4. Won(v)'
    <3>1. Won(v)
      BY DEF OnceInv
    <3>2. At(v, Winning) => <<one.factor, one.proof>> # <<Top(v).id, Top(v).proof>>
      BY <1>7, <1>9
    <3> QED
      BY <3>1, <3>2, <1>1, <1>2, <1>4, <1>9 DEF Won
  <2>5. TakenOnce(v)'
    <3>1. TakenOnce(v)
      BY DEF OnceInv
    <3>2. At(v, {"verify.succeed"}) => one.by # Top(v).x
      BY <1>8, <1>9
    <3> QED
      BY <3>1, <3>2, <1>1, <1>2, <1>4, <1>9 DEF TakenOnce
  <2> QED
    BY <2>1, <2>2, <2>3, <2>4, <2>5
<1>13. (~Idle(w) => FrameHolds(Top(w)))' /\ Fresh(w)' /\ Reads(w)' /\ Won(w)' /\ TakenOnce(w)'
  BY <1>3, <1>4 DEF FrameHolds, Fresh, Reads, Won, TakenOnce, Verifying, Winning
<1> QED
  <2>1. \A v \in Worker : (~Idle(v) => FrameHolds(Top(v)))' /\ Fresh(v)' /\ Reads(v)' /\ Won(v)' /\ TakenOnce(v)'
    BY <1>12, <1>13
  <2>2. (\A f \in list.factors : f.id \in 1 .. ids)' /\ (\A f, g \in list.factors : f.id = g.id => f = g)'
    BY DEF OnceInv
  <2> QED
    BY <2>1, <2>2, <1>10, <1>11 DEF OnceInv

----------------------------------------------------------------------------
(* What a step makes of its worker's stack and of the others'.             *)
Others(w) == \A v \in Worker \ {w} : task'[v] = task[v]

LEMMA Became ==
  ASSUME TaskFine, NEW w \in Worker, ~Idle(w), NEW f, Become(w, <<f>>)
  PROVE  Others(w) /\ task'[w] = <<f>>
<1>1. task'[w] = <<f>>
  BY TopFine, OneFrame DEF Become, TaskFine
<1> QED
  BY <1>1 DEF Become, TaskFine, Others

LEMMA Returned ==
  ASSUME TaskFine, NEW w \in Worker, ~Idle(w), Return(w)
  PROVE  Others(w) /\ task'[w] = <<>>
<1>1. task'[w] = <<>>
  BY TopFine, OneFrame DEF Return, Become, TaskFine
<1> QED
  BY <1>1 DEF Return, Become, TaskFine, Others

LEMMA Started ==
  ASSUME TaskFine, NEW w \in Worker, NEW f, Start(w, <<f>>)
  PROVE  Others(w) /\ task'[w] = <<f>>
BY DEF Start, TaskFine, Others

(* The worker ends, or goes on where nothing is made or proved.            *)
Off(w) == Others(w) /\ (task'[w] = <<>> \/ \E f : task'[w] = <<f>> /\ f.pc \notin Making \cup Verifying)

LEMMA OffReturned ==
  ASSUME TaskFine, NEW w \in Worker, ~Idle(w), Return(w)
  PROVE  Off(w)
BY Returned DEF Off

LEMMA OffBecame ==
  ASSUME TaskFine, NEW w \in Worker, ~Idle(w), NEW f, f.pc \notin Making \cup Verifying, Become(w, <<f>>)
  PROVE  Off(w)
BY Became DEF Off

LEMMA OffSettled ==
  ASSUME TaskFine, NEW w \in Worker, ~Idle(w), NEW t, "pc" \in DOMAIN t, Settles(w, t) \/ Refuses(w, t)
  PROVE  Off(w)
<1>1. /\ [t EXCEPT !.pc = "verify.abandon"].pc \notin Making \cup Verifying
      /\ [t EXCEPT !.pc = "verify.refused"].pc \notin Making \cup Verifying
  BY DEF Making, Verifying, Winning
<1> QED
  BY <1>1, OffReturned, OffBecame DEF Settles, Refuses

LEMMA OffThrown ==
  ASSUME TaskFine, NEW w \in Worker, ~Idle(w), Throw(w)
  PROVE  Off(w)
<1> DEFINE f == Top(w)
           g == [f EXCEPT !.pc = OnThrow[@]]
<1>1. task[w] = <<f>> /\ "pc" \in DOMAIN f
  BY TopFine DEF FrameFine
<1>2. task'[w] = Unwound(<<f>>) /\ Others(w)
  BY <1>1 DEF Throw, TaskFine, Others
<1>3. CASE f.pc \notin DOMAIN OnThrow
  <2>1. Catching(<<f>>) = {}
    BY <1>3 DEF Catching
  <2> QED
    BY <1>2, <2>1 DEF Unwound, Off
<1>4. CASE f.pc \in DOMAIN OnThrow
  <2>1. Catching(<<f>>) = {1}
    BY <1>4 DEF Catching
  <2>2. (CHOOSE i \in Catching(<<f>>) : \A j \in Catching(<<f>>) : i <= j) = 1
    BY <2>1
  <2>3. Unwound(<<f>>) = <<g>> \o SubSeq(<<f>>, 2, 1)
    BY <2>1, <2>2 DEF Unwound
  <2>4. SubSeq(<<f>>, 2, 1) = <<>>
    OBVIOUS
  <2>5. Unwound(<<f>>) = <<g>>
    BY <2>3, <2>4
  <2>6. g.pc \in {"verify.abandon", "verify.giveback"}
    BY <1>1, <1>4, FactorsAssumption
  <2>7. g.pc \notin Making \cup Verifying
    BY <2>6 DEF Making, Verifying, Winning
  <2> QED
    BY <1>2, <2>5, <2>7 DEF Off
<1> QED
  BY <1>3, <1>4

----------------------------------------------------------------------------
(* What a step leaves of the list.                                         *)
LEMMA KeptSubset ==
  ASSUME OnceInv, NEW w, list'.factors \subseteq list.factors
  PROVE  ListKept(w)
BY DEF OnceInv, ListKept, Remains

LEMMA KeptAdded ==
  ASSUME OnceInv, NEW w \in Worker, Off(w), At(w, Making),
         NEW one, one.id = Top(w).id, list'.factors \subseteq list.factors \cup {one}
  PROVE  ListKept(w)
<1>1. ~At(w, Making)' /\ ~At(w, Verifying)'
  BY OneFrame DEF Off, At, Idle, Top
<1>2. \A f \in list.factors : f.id # one.id
  BY DEF OnceInv, Fresh
<1>3. \A f, g \in list'.factors : f.id = g.id => f = g
  BY <1>2 DEF OnceInv
<1> QED
  BY <1>1, <1>3 DEF ListKept, Remains

(* A step that only ends or leaves.                                        *)
LEMMA OnceOff ==
  ASSUME OnceInv, NEW w \in Worker, Off(w), ListKept(w), ids \in Nat, ids' \in Nat, ids <= ids',
         taken \subseteq taken', accepted' = accepted
  PROVE  OnceInv'
<1>1. ASSUME NEW f, f.pc \notin Making \cup Verifying PROVE NewFrame(w, f)
  BY <1>1 DEF NewFrame, Verifying, Winning
<1> QED
  BY <1>1, OnceStep DEF Off, Others

(* A step that leaves the list as it is and goes on in a frame.            *)
LEMMA OnceOn ==
  ASSUME OnceInv, NEW w \in Worker, Others(w), NEW f, task'[w] = <<f>>, NewFrame(w, f),
         list' = list, ids \in Nat, ids' \in Nat, ids <= ids', taken \subseteq taken', accepted' = accepted
  PROVE  OnceInv'
<1>1. ListKept(w)
  BY KeptSubset
<1> QED
  BY <1>1, OnceStep DEF Others

----------------------------------------------------------------------------
(* A step of a binding or a reissue goes on with the id drawn for it.      *)
LEMMA MakingOn ==
  ASSUME IInv, IInv', OnceInv, NEW w \in Worker, At(w, Making), NEW f, Become(w, <<f>>),
         f.pc \in Making, "id" \in DOMAIN f, f.id = Top(w).id,
         UNCHANGED <<list, ids, taken, accepted>>
  PROVE  OnceInv'
<1>1. Others(w) /\ task'[w] = <<f>>
  BY Became DEF IInv, At
<1>2. NewFrame(w, f)
  BY DEF NewFrame, Making, Verifying, Winning
<1> QED
  BY <1>1, <1>2, OnceOn DEF IInv

LEMMA KeepingOnce ==
  ASSUME IInv, IInv', OnceInv, NEW w \in Worker, KeepingStep(w)
  PROVE  OnceInv'
<1> DEFINE t == Top(w)
<1> USE DEF IInv
<1>1. UNCHANGED <<taken, accepted>>
  BY DEF KeepingStep, proofVars
<1>0. ASSUME NEW pc, Doing(w, pc)
      PROVE  ~Idle(w) /\ t.pc = pc /\ "pc" \in DOMAIN t /\ FrameFine(t) /\ FrameHolds(t)
  BY <1>0, TopFine DEF Doing, FrameFine, OnceInv
<1>2. ASSUME Return(w), ~Idle(w), UNCHANGED <<list, ids>> PROVE OnceInv'
  <2>1. Off(w)
    BY <1>2, OffReturned
  <2> QED
    BY <2>1, <1>1, <1>2, KeptSubset, OnceOff
<1>3. CASE BindBegin(w)
  <2>1. Doing(w, "bind.begin") /\ UNCHANGED <<list, ids>>
    BY <1>3 DEF BindBegin, listVars
  <2>2. ~Idle(w) /\ At(w, Making) /\ "pc" \in DOMAIN t /\ "id" \in DOMAIN t
    BY <2>1, <1>0 DEF At, Making, FrameHolds
  <2>3. ASSUME NEW first, Become(w, <<[t EXCEPT !.pc = "bind.fence", !.first = first]>>) PROVE OnceInv'
    <3>1. LET f == [t EXCEPT !.pc = "bind.fence", !.first = first]
          IN  f.pc \in Making /\ "id" \in DOMAIN f /\ f.id = t.id
      BY <2>2 DEF Making
    <3> QED
      BY <2>1, <2>2, <2>3, <3>1, <1>1, MakingOn
  <2> QED
    BY <1>3, <2>1, <2>2, <2>3, <1>2 DEF BindBegin
<1>4. CASE BindFence(w)
  <2>1. Doing(w, "bind.fence") /\ UNCHANGED <<list, ids>>
    BY <1>4 DEF BindFence, listVars
  <2>2. ~Idle(w) /\ At(w, Making) /\ "pc" \in DOMAIN t /\ "id" \in DOMAIN t
    BY <2>1, <1>0 DEF At, Making, FrameHolds
  <2>3. LET f == [t EXCEPT !.pc = "bind.early", !.fence = list.fences]
        IN  f.pc \in Making /\ "id" \in DOMAIN f /\ f.id = t.id
    BY <2>2 DEF Making
  <2> QED
    BY <1>4, <2>1, <2>2, <2>3, <1>1, MakingOn DEF BindFence
<1>5. CASE BindEarly(w)
  <2>1. Doing(w, "bind.early") /\ UNCHANGED <<list, ids>>
    BY <1>5 DEF BindEarly, listVars
  <2>2. ~Idle(w) /\ At(w, Making) /\ "pc" \in DOMAIN t /\ "id" \in DOMAIN t
    BY <2>1, <1>0 DEF At, Making, FrameHolds
  <2>3. LET f == [t EXCEPT !.pc = "bind.write"]
        IN  f.pc \in Making /\ "id" \in DOMAIN f /\ f.id = t.id
    BY <2>2 DEF Making
  <2> QED
    BY <1>5, <2>1, <2>2, <2>3, <1>1, <1>2, MakingOn DEF BindEarly, To
<1>6. CASE BindWrite(w)
  <2>1. Doing(w, "bind.write") /\ UNCHANGED ids
    BY <1>6 DEF BindWrite
  <2>2. ~Idle(w) /\ At(w, Making) /\ "pc" \in DOMAIN t /\ "id" \in DOMAIN t /\ t.pc = "bind.write"
    BY <2>1, <1>0 DEF At, Making, FrameHolds
  <2>3. CASE SaveFirst(w, BindJudged(t))
    <3>1. LET f == [t EXCEPT !.saving = TRUE]
          IN  f.pc \in Making /\ "id" \in DOMAIN f /\ f.id = t.id
      BY <2>2 DEF Making
    <3> QED
      BY <2>1, <2>2, <2>3, <3>1, <1>1, MakingOn DEF SaveFirst
  <2>4. CASE Decided(BindJudged(t)) /\ ~SaveFirst(w, BindJudged(t))
    <3>1. ASSUME NEW due
          PROVE  [t EXCEPT !.pc = "bind.check", !.saving = FALSE, !.due = due].pc \notin Making \cup Verifying
      BY <2>2 DEF Making, Verifying, Winning
    <3>2. Off(w)
      BY <1>6, <2>2, <2>4, <3>1, OffReturned, OffBecame DEF BindWrite
    <3>3. list'.factors \subseteq list.factors \cup {Factor(t.id, t.kind, t.fence)}
      BY <2>4 DEF Decided, BindJudged, Leave, Write
    <3>4. Factor(t.id, t.kind, t.fence).id = t.id
      BY DEF Factor
    <3>5. ListKept(w)
      BY <2>2, <3>2, <3>3, <3>4, KeptAdded
    <3> QED
      BY <2>1, <3>2, <3>5, <1>1, OnceOff
  <2> QED
    BY <1>6, <2>3, <2>4 DEF BindWrite
<1>7. CASE BindCheck(w)
  <2>1. Doing(w, "bind.check") /\ list' = list
    BY <1>7 DEF BindCheck
  <2>2. ~Idle(w) /\ "pc" \in DOMAIN t /\ "id" \in DOMAIN t
    BY <2>1, <1>0 DEF FrameFine, Bound
  <2>3. CASE ids' = ids + 1 /\ Become(w, <<[t EXCEPT !.pc = "reissue.write", !.id = ids']>>)
    <3> DEFINE f == [t EXCEPT !.pc = "reissue.write", !.id = ids']
    <3>1. "id" \in DOMAIN f /\ f.id = ids' /\ f.pc = "reissue.write"
      BY <2>2
    <3>2. Others(w) /\ task'[w] = <<f>>
      BY <2>2, <2>3, Became
    <3> HIDE DEF f
    <3>3. NewFrame(w, f)
      BY <3>1, <2>3 DEF NewFrame, Making, Verifying, Winning
    <3> QED
      BY <2>1, <2>3, <3>2, <3>3, <1>1, OnceOn
  <2> QED
    BY <1>7, <2>1, <2>2, <2>3, <1>2 DEF BindCheck
<1>8. CASE ReissueFence(w)
  <2>1. Doing(w, "reissue.fence") /\ UNCHANGED <<list, ids>>
    BY <1>8 DEF ReissueFence, listVars
  <2>2. ~Idle(w) /\ At(w, Making) /\ "pc" \in DOMAIN t /\ "id" \in DOMAIN t
    BY <2>1, <1>0 DEF At, Making, FrameHolds
  <2>3. LET f == [t EXCEPT !.pc = "reissue.write", !.fence = list.fences]
        IN  f.pc \in Making /\ "id" \in DOMAIN f /\ f.id = t.id
    BY <2>2 DEF Making
  <2> QED
    BY <1>8, <2>1, <2>2, <2>3, <1>1, MakingOn DEF ReissueFence
<1>9. CASE ReissueWrite(w)
  <2>1. Doing(w, "reissue.write") /\ UNCHANGED ids /\ Decided(ReissueJudged(t)) /\ Return(w)
    BY <1>9 DEF ReissueWrite
  <2>2. ~Idle(w) /\ At(w, Making)
    BY <2>1, <1>0 DEF At, Making
  <2>3. Off(w)
    BY <2>1, <2>2, OffReturned
  <2>4. list'.factors \subseteq list.factors \cup {Factor(t.id, "codes", t.fence)}
    BY <2>1 DEF Decided, ReissueJudged, Leave, Write
  <2>5. Factor(t.id, "codes", t.fence).id = t.id
    BY DEF Factor
  <2>6. ListKept(w)
    BY <2>2, <2>3, <2>4, <2>5, KeptAdded
  <2> QED
    BY <2>1, <2>3, <2>6, <1>1, OnceOff
<1>10. CASE RemoveFence(w) \/ RemoveStood(w)
  <2>1. ~Idle(w) /\ "pc" \in DOMAIN t /\ UNCHANGED <<list, ids>>
    BY <1>10, <1>0 DEF RemoveFence, RemoveStood, listVars
  <2>2. /\ [t EXCEPT !.pc = "remove.stood", !.fence = list.fences].pc \notin Making \cup Verifying
        /\ [t EXCEPT !.pc = "remove.write", !.stood = {f.id : f \in Counts(list.factors)}].pc
             \notin Making \cup Verifying
    BY <2>1 DEF Making, Verifying, Winning
  <2>3. Off(w)
    BY <1>10, <2>1, <2>2, OffBecame DEF RemoveFence, RemoveStood
  <2> QED
    BY <2>1, <2>3, <1>1, KeptSubset, OnceOff
<1>11. CASE RemoveWrite(w)
  <2>1. ~Idle(w) /\ Return(w) /\ UNCHANGED ids /\ Decided(RemoveJudged(t))
    BY <1>11, <1>0 DEF RemoveWrite
  <2>2. list'.factors \subseteq list.factors
    BY <2>1 DEF Decided, RemoveJudged, Leave, Write
  <2>3. Off(w)
    BY <2>1, OffReturned
  <2> QED
    BY <2>1, <2>2, <2>3, <1>1, KeptSubset, OnceOff
<1>12. CASE MoveWrite(w)
  <2> DEFINE judged == Write(IF t.reset THEN {} ELSE list.factors, list.fences + 1, "moved")
  <2>1. ~Idle(w) /\ "pc" \in DOMAIN t /\ t.pc = "move.write" /\ UNCHANGED ids
    BY <1>12, <1>0 DEF MoveWrite
  <2>2. CASE SaveFirst(w, judged)
    <3>1. [t EXCEPT !.saving = TRUE].pc \notin Making \cup Verifying
      BY <2>1 DEF Making, Verifying, Winning
    <3>2. Off(w) /\ list' = list
      BY <2>1, <2>2, <3>1, OffBecame DEF SaveFirst
    <3> QED
      BY <2>1, <3>2, <1>1, KeptSubset, OnceOff
  <2>3. CASE Decided(judged) /\ Return(w)
    <3>1. list'.factors \subseteq list.factors
      BY <2>3 DEF Decided, Write
    <3>2. Off(w)
      BY <2>1, <2>3, OffReturned
    <3> QED
      BY <2>1, <3>1, <3>2, <1>1, KeptSubset, OnceOff
  <2> QED
    BY <1>12, <2>2, <2>3 DEF MoveWrite
<1> QED
  BY <1>3, <1>4, <1>5, <1>6, <1>7, <1>8, <1>9, <1>10, <1>11, <1>12 DEF KeepingStep

----------------------------------------------------------------------------
(* A factor moved on by a proof that fits it: what did not fit does not    *)
(* now, nor does the proof.                                                *)
LEMMA MovesOn ==
  ASSUME NEW f \in FactorType, NEW n \in Nat, Fits(f, n)
  PROVE  Remains(f, Moved(f, n)) /\ ~Fits(Moved(f, n), n)
<1> DEFINE g == Moved(f, n)
<1>1. g.id = f.id /\ g.kind = f.kind /\ g.state = IF f.kind = "codes" THEN f.state \cup {n} ELSE {n}
  BY DEF Moved, FactorType
<1>2. f.state \subseteq Nat
  BY DEF FactorType
<1>3. SUFFICES Remains(f, g) /\ ~Fits(g, n)
  OBVIOUS
<1> HIDE DEF g
<1>4. CASE f.kind = "codes"
  BY <1>1, <1>4 DEF Fits, Remains
<1>5. CASE f.kind # "codes"
  <2>1. \A m \in Nat : Fits(g, m) <=> m > n
    BY <1>1, <1>5 DEF Fits
  <2>2. \A u \in f.state : n > u
    BY <1>5 DEF Fits
  <2>3. \A m \in Nat : m > n => Fits(f, m)
    BY <1>2, <1>5, <2>2 DEF Fits
  <2> QED
    BY <1>1, <2>1, <2>3 DEF Remains
<1> QED
  BY <1>4, <1>5

(* What proving a factor leaves of the list.                               *)
LEMMA KeptProved ==
  ASSUME IInv, OnceInv, NEW w \in Worker, At(w, {"prove.decide"}), Decided(ProvedJudged(Top(w)))
  PROVE  /\ ListKept(w)
         /\ ProvedJudged(Top(w)).verdict = "valid" =>
              /\ \E g \in list.factors : g.id = Top(w).id /\ Fits(g, Top(w).proof)
              /\ Beaten(list'.factors, Top(w).id, Top(w).proof)
<1> DEFINE t == Top(w)
           same == {f \in Named(list.factors, t.id) : f.state = t.read}
<1>0. t.proof \in Nat
  BY DEF OnceInv, FrameHolds, At, Verifying
<1>1. CASE same = {}
  <2>1. list' = list /\ ProvedJudged(t).verdict = "raced"
    BY <1>1 DEF Decided, ProvedJudged, Leave
  <2> QED
    BY <2>1, KeptSubset
<1>2. CASE same # {}
  <2>1. list'.factors = {IF f \in same THEN Moved(f, t.proof) ELSE f : f \in list.factors}
    BY <1>2 DEF Decided, ProvedJudged, Write
  <2>2. \A f \in same : f \in list.factors /\ f.id = t.id /\ f.state = t.read
    BY DEF Named
  <2>3. \A f \in same : Fits(f, t.proof)
    BY <2>2 DEF OnceInv, Reads, FitsState, Fits
  <2>4. \A f \in list.factors : f \in FactorType
    BY DEF IInv, ListFine
  <2>5. \A f \in same : Remains(f, Moved(f, t.proof)) /\ ~Fits(Moved(f, t.proof), t.proof)
    BY <1>0, <2>2, <2>3, <2>4, MovesOn
  <2>6. \A f \in list.factors : f.id = t.id => f \in same
    BY <1>2, <2>2 DEF OnceInv
  <2> HIDE DEF same
  <2>7. \A g \in list'.factors : \E f \in list.factors :
           Remains(f, g) /\ g = IF f \in same THEN Moved(f, t.proof) ELSE f
    BY <2>1, <2>5 DEF Remains
  <2>8. \A f, g \in list'.factors : f.id = g.id => f = g
    <3> SUFFICES ASSUME NEW f \in list'.factors, NEW g \in list'.factors, f.id = g.id PROVE f = g
      OBVIOUS
    <3>1. PICK a \in list.factors : Remains(a, f) /\ f = IF a \in same THEN Moved(a, t.proof) ELSE a
      BY <2>7
    <3>2. PICK b \in list.factors : Remains(b, g) /\ g = IF b \in same THEN Moved(b, t.proof) ELSE b
      BY <2>7
    <3>3. a = b
      BY <3>1, <3>2 DEF Remains, OnceInv
    <3> QED
      BY <3>1, <3>2, <3>3
  <2>9. ListKept(w)
    BY <2>7, <2>8 DEF ListKept
  <2>10. Beaten(list'.factors, t.id, t.proof)
    <3> SUFFICES ASSUME NEW g \in list'.factors, g.id = t.id PROVE ~Fits(g, t.proof)
      BY DEF Beaten
    <3>1. PICK f \in list.factors : Remains(f, g) /\ g = IF f \in same THEN Moved(f, t.proof) ELSE f
      BY <2>7
    <3>2. f \in same
      BY <3>1, <2>6 DEF Remains
    <3> QED
      BY <3>1, <3>2, <2>5
  <2> QED
    BY <1>2, <2>2, <2>3, <2>9, <2>10
<1> QED
  BY <1>1, <1>2

LEMMA VerifyOnce ==
  ASSUME IInv, IInv', OnceInv, NEW w \in Worker, VerifyStep(w)
  PROVE  OnceInv'
<1> DEFINE t == Top(w)
<1> USE DEF IInv
<1>0. ASSUME NEW pc, Doing(w, pc)
      PROVE  ~Idle(w) /\ t.pc = pc /\ "pc" \in DOMAIN t /\ FrameHolds(t)
  BY <1>0, TopFine DEF Doing, FrameFine, OnceInv
<1>1. ASSUME Off(w), UNCHANGED <<list, ids, accepted>>, taken \subseteq taken' PROVE OnceInv'
  BY <1>1, KeptSubset, OnceOff
<1>2. CASE VerifyReserve(w)
  <2>1. Doing(w, "verify.reserve") /\ UNCHANGED <<list, ids, accepted, taken>>
    BY <1>2 DEF VerifyReserve, listVars, proofVars
  <2>2. ~Idle(w) /\ At(w, Verifying) /\ "pc" \in DOMAIN t
        /\ {"id", "proof", "x", "read"} \subseteq DOMAIN t /\ t.proof \in Nat
    BY <2>1, <1>0 DEF At, Verifying, FrameHolds
  <2>3. CASE Return(w)
    BY <2>1, <2>2, <2>3, <1>1, OffReturned
  <2>4. ASSUME NEW f, f = [t EXCEPT !.pc = "verify.spend", !.at = NextAt(lockout, now), !.since = now],
               Become(w, <<f>>)
        PROVE  OnceInv'
    <3>1. DOMAIN f = DOMAIN t /\ f.pc = "verify.spend" /\ f.id = t.id /\ f.proof = t.proof
      BY <2>2, <2>4
    <3>2. NewFrame(w, f)
      BY <2>2, <3>1 DEF NewFrame, Making, Verifying, Winning
    <3>3. Others(w) /\ task'[w] = <<f>>
      BY <2>2, <2>4, Became
    <3> QED
      BY <2>1, <3>2, <3>3, OnceOn
  <2> QED
    BY <1>2, <2>3, <2>4 DEF VerifyReserve
<1>3. CASE VerifySpend(w)
  <2>1. Doing(w, "verify.spend") /\ UNCHANGED <<list, ids, accepted, taken>>
    BY <1>3 DEF VerifySpend, listVars
  <2>2. ~Idle(w) /\ At(w, Verifying) /\ "pc" \in DOMAIN t
        /\ {"id", "proof", "x", "read"} \subseteq DOMAIN t /\ t.proof \in Nat
    BY <2>1, <1>0 DEF At, Verifying, FrameHolds
  <2>3. CASE Settles(w, t)
    BY <2>1, <2>2, <2>3, <1>1, OffSettled
  <2>4. ASSUME NEW f, f = [t EXCEPT !.pc = "prove.read", !.left = attempts[t.x] - 1], Become(w, <<f>>)
        PROVE  OnceInv'
    <3>1. DOMAIN f = DOMAIN t /\ f.pc = "prove.read" /\ f.id = t.id /\ f.proof = t.proof
      BY <2>2, <2>4
    <3>2. NewFrame(w, f)
      BY <2>2, <3>1 DEF NewFrame, Making, Verifying, Winning
    <3>3. Others(w) /\ task'[w] = <<f>>
      BY <2>2, <2>4, Became
    <3> QED
      BY <2>1, <3>2, <3>3, OnceOn
  <2> QED
    BY <1>3, <2>3, <2>4 DEF VerifySpend
<1>4. CASE ProveRead(w)
  <2>1. Doing(w, "prove.read") /\ UNCHANGED <<list, ids, accepted, taken>>
    BY <1>4 DEF ProveRead, listVars, proofVars
  <2>2. ~Idle(w) /\ At(w, Verifying) /\ "pc" \in DOMAIN t
        /\ {"id", "proof", "x", "read"} \subseteq DOMAIN t /\ t.proof \in Nat
    BY <2>1, <1>0 DEF At, Verifying, FrameHolds
  <2>3. CASE Refuses(w, t) \/ Refuses(w, [t EXCEPT !.kept = TRUE])
    <3>1. "pc" \in DOMAIN [t EXCEPT !.kept = TRUE]
      BY <2>2
    <3> QED
      BY <2>1, <2>2, <2>3, <3>1, <1>1, OffSettled
  <2>4. ASSUME NEW g \in Named(list.factors, t.id), Fits(g, t.proof),
               NEW f, f = [t EXCEPT !.pc = "prove.decide", !.read = g.state], Become(w, <<f>>)
        PROVE  OnceInv'
    <3>1. DOMAIN f = DOMAIN t /\ f.pc = "prove.decide" /\ f.id = t.id /\ f.proof = t.proof /\ f.read = g.state
      BY <2>2, <2>4
    <3>2. \A h \in list'.factors : h.id = f.id => FitsState(h.kind, f.read, f.proof)
      <4>1. \A h \in list.factors : h.id = f.id => h = g
        BY <2>4, <3>1 DEF OnceInv, Named
      <4> QED
        BY <2>1, <2>4, <3>1, <4>1 DEF Fits, FitsState
    <3>3. NewFrame(w, f)
      BY <2>2, <3>1, <3>2 DEF NewFrame, Making, Verifying, Winning
    <3>4. Others(w) /\ task'[w] = <<f>>
      BY <2>2, <2>4, Became
    <3> QED
      BY <2>1, <3>3, <3>4, OnceOn
  <2> QED
    BY <1>4, <2>3, <2>4 DEF ProveRead
<1>5. CASE ProveDecide(w)
  <2> DEFINE u == [t EXCEPT !.read = {}]
             f == [u EXCEPT !.pc = "verify.take"]
  <2>1. Doing(w, "prove.decide") /\ Decided(ProvedJudged(t)) /\ UNCHANGED <<ids, accepted, taken>>
    BY <1>5 DEF ProveDecide, proofVars
  <2>2. ~Idle(w) /\ At(w, Verifying) /\ At(w, {"prove.decide"}) /\ "pc" \in DOMAIN t
        /\ {"id", "proof", "x", "read"} \subseteq DOMAIN t /\ t.proof \in Nat
    BY <2>1, <1>0 DEF At, Verifying, FrameHolds
  <2>3. ListKept(w)
    BY <2>1, <2>2, KeptProved
  <2>4. CASE Off(w)
    BY <2>1, <2>3, <2>4, OnceOff
  <2>5. CASE ProvedJudged(t).verdict = "valid" /\ Become(w, <<f>>)
    <3>1. DOMAIN f = DOMAIN t /\ f.pc = "verify.take" /\ f.id = t.id /\ f.proof = t.proof
      BY <2>2
    <3>2. Others(w) /\ task'[w] = <<f>>
      BY <2>2, <2>5, Became
    <3> HIDE DEF f
    <3>3. /\ \E g \in list.factors : g.id = f.id /\ Fits(g, f.proof)
          /\ Beaten(list'.factors, f.id, f.proof)
      BY <2>1, <2>2, <2>5, <3>1, KeptProved
    <3>4. NewFrame(w, f)
      BY <2>2, <3>1, <3>3 DEF NewFrame, Making, Verifying, Winning
    <3> QED
      BY <2>1, <2>3, <3>2, <3>4, OnceStep DEF Others
  <2>6. "pc" \in DOMAIN u
    BY <2>2
  <2> HIDE DEF u, f
  <2> QED
    BY <1>5, <2>2, <2>4, <2>5, <2>6, OffSettled, OffThrown DEF ProveDecide, u, f
<1>6. CASE VerifyRefused(w)
  <2>1. ~Idle(w) /\ "pc" \in DOMAIN t /\ taken \subseteq taken' /\ UNCHANGED <<list, ids, accepted>>
    BY <1>6, <1>0 DEF VerifyRefused, listVars
  <2> QED
    BY <1>6, <2>1, <1>1, OffSettled DEF VerifyRefused
<1>7. CASE VerifyTake(w)
  <2>1. Doing(w, "verify.take") /\ taken' = taken \cup {t.x} /\ UNCHANGED <<list, ids, accepted>>
    BY <1>7 DEF VerifyTake, listVars
  <2>2. ~Idle(w) /\ At(w, Verifying) /\ At(w, Winning) /\ "pc" \in DOMAIN t
        /\ {"id", "proof", "x", "read"} \subseteq DOMAIN t /\ t.proof \in Nat
    BY <2>1, <1>0 DEF At, Verifying, Winning, FrameHolds
  <2>3. CASE Settles(w, t)
    BY <2>1, <2>2, <2>3, <1>1, OffSettled
  <2>4. ASSUME t.x \notin taken, NEW f, f = [t EXCEPT !.pc = "verify.succeed"], Become(w, <<f>>)
        PROVE  OnceInv'
    <3>1. DOMAIN f = DOMAIN t /\ f.pc = "verify.succeed" /\ f.id = t.id /\ f.proof = t.proof /\ f.x = t.x
      BY <2>2, <2>4
    <3>2. f.x \in taken' /\ f.x \notin taken
      BY <2>1, <2>4, <3>1
    <3>3. NewFrame(w, f)
      BY <2>2, <3>1, <3>2 DEF NewFrame, Making, Verifying, Winning
    <3>4. Others(w) /\ task'[w] = <<f>>
      BY <2>2, <2>4, Became
    <3> QED
      BY <2>1, <3>3, <3>4, OnceOn
  <2> QED
    BY <1>7, <2>3, <2>4 DEF VerifyTake, To
<1>8. CASE VerifySucceed(w)
  <2>1. Doing(w, "verify.succeed") /\ UNCHANGED <<list, ids, taken>>
        /\ accepted' = accepted \cup {[factor |-> t.id, proof |-> t.proof, by |-> t.x, nth |-> Cardinality(accepted)]}
    BY <1>8 DEF VerifySucceed, listVars
  <2>2. ~Idle(w) /\ At(w, {"verify.succeed"}) /\ "pc" \in DOMAIN t
    BY <2>1, <1>0 DEF At
  <2>3. [t EXCEPT !.pc = "permit.grant"].pc \notin Making \cup Verifying
    BY <2>2 DEF Making, Verifying, Winning
  <2>4. Off(w)
    BY <1>8, <2>2, <2>3, OffReturned, OffBecame DEF VerifySucceed, To
  <2> QED
    BY <2>1, <2>2, <2>4, OnceSucceed DEF Off, Others
<1>9. CASE VerifyAbandon(w) \/ PermitGrant(w)
  <2>1. ~Idle(w) /\ Return(w) /\ UNCHANGED <<list, ids, taken, accepted>>
    BY <1>9, <1>0 DEF VerifyAbandon, PermitGrant, listVars, proofVars
  <2> QED
    BY <2>1, <1>1, OffReturned
<1>10. CASE VerifyGiveBack(w)
  <2>1. ~Idle(w) /\ "pc" \in DOMAIN t /\ "pc" \in DOMAIN [t EXCEPT !.read = {}] /\ UNCHANGED <<list, ids, taken, accepted>>
    BY <1>10, <1>0 DEF VerifyGiveBack, listVars
  <2> QED
    BY <1>10, <2>1, <1>1, OffSettled DEF VerifyGiveBack
<1> QED
  BY <1>2, <1>3, <1>4, <1>5, <1>6, <1>7, <1>8, <1>9, <1>10 DEF VerifyStep

LEMMA ReleaseOnce ==
  ASSUME IInv, IInv', OnceInv, NEW w \in Worker, ReleaseStep(w)
  PROVE  OnceInv'
<1> DEFINE t == Top(w)
<1>1. ~Idle(w) /\ UNCHANGED <<list, ids, taken, accepted>>
  BY DEF ReleaseStep, ReleasePermit, ReleaseStanding, ReleaseUnder, ReleaseUse, Doing, listVars, proofVars
<1>2. "pc" \in DOMAIN t /\ TaskFine /\ ids \in Nat
  BY <1>1, TopFine DEF FrameFine, IInv
<1>3. /\ \A at : [t EXCEPT !.pc = "release.standing", !.id = <<t.id[1], at>>].pc \notin Making \cup Verifying
      /\ [t EXCEPT !.pc = "release.under", !.stood = StandingOf(lockout, load.policy, now)].pc
           \notin Making \cup Verifying
      /\ [t EXCEPT !.pc = "release.use"].pc \notin Making \cup Verifying
  BY <1>2 DEF Making, Verifying, Winning
<1>4. Off(w)
  BY <1>1, <1>2, <1>3, OffReturned, OffBecame
     DEF ReleaseStep, ReleasePermit, ReleaseStanding, ReleaseUnder, ReleaseUse, To
<1> QED
  BY <1>1, <1>2, <1>4, KeptSubset, OnceOff

LEMMA BeginOnce ==
  ASSUME IInv, IInv', OnceInv, NEW w \in Worker, Begin(w)
  PROVE  OnceInv'
<1> USE DEF IInv
<1>1. UNCHANGED <<taken, accepted>>
  BY DEF Begin, proofVars
<1>2. ASSUME NEW f, Start(w, <<f>>), f.pc \notin Making \cup Verifying, UNCHANGED <<list, ids>>
      PROVE  OnceInv'
  <2>1. Off(w)
    BY <1>2, Started DEF Off
  <2> QED
    BY <1>1, <1>2, <2>1, KeptSubset, OnceOff
<1>3. ASSUME NEW f, Start(w, <<f>>), f.pc \in Making, "id" \in DOMAIN f, f.id = ids + 1, ids' = ids + 1, list' = list
      PROVE  OnceInv'
  <2>1. Others(w) /\ task'[w] = <<f>>
    BY <1>3, Started
  <2>2. f.pc \notin Verifying
    BY <1>3 DEF Making, Verifying, Winning
  <2>3. NewFrame(w, f)
    BY <1>3, <2>2 DEF NewFrame, Verifying, Winning
  <2> QED
    BY <1>1, <1>3, <2>1, <2>3, OnceOn
<1>4. CASE BeginBind(w)
  <2>1. ids' = ids + 1 /\ list' = list
    BY <1>4 DEF BeginBind
  <2>2. PICK kind \in {"totp", "mail"}, login \in BOOLEAN :
          Start(w, <<[Keeping("bind.begin", ids') EXCEPT !.kind = kind, !.login = login]>>)
    BY <1>4 DEF BeginBind, Begins
  <2>3. LET f == [Keeping("bind.begin", ids') EXCEPT !.kind = kind, !.login = login]
        IN  f.pc \in Making /\ "id" \in DOMAIN f /\ f.id = ids + 1
    BY <2>1 DEF Keeping, Making
  <2> QED
    BY <2>1, <2>2, <2>3, <1>3
<1>5. CASE BeginReissue(w)
  <2>1. ids' = ids + 1 /\ list' = list /\ Start(w, <<Keeping("reissue.fence", ids')>>)
    BY <1>5 DEF BeginReissue, Begins
  <2>2. LET f == Keeping("reissue.fence", ids')
        IN  f.pc \in Making /\ "id" \in DOMAIN f /\ f.id = ids + 1
    BY <2>1 DEF Keeping, Making
  <2> QED
    BY <2>1, <2>2, <1>3
<1>6. CASE BeginRemove(w)
  <2>1. PICK g \in list.factors : Start(w, <<Keeping("remove.fence", g.id)>>)
    BY <1>6 DEF BeginRemove, Begins
  <2>2. Keeping("remove.fence", g.id).pc \notin Making \cup Verifying
    BY DEF Keeping, Making, Verifying, Winning
  <2> QED
    BY <1>6, <2>1, <2>2, <1>2 DEF BeginRemove, listVars
<1>7. CASE BeginMove(w)
  <2>1. PICK reset \in BOOLEAN : Start(w, <<[Keeping("move.write", 0) EXCEPT !.reset = reset]>>)
    BY <1>7 DEF BeginMove, Begins
  <2>2. [Keeping("move.write", 0) EXCEPT !.reset = reset].pc \notin Making \cup Verifying
    BY DEF Keeping, Making, Verifying, Winning
  <2> QED
    BY <1>7, <2>1, <2>2, <1>2 DEF BeginMove, listVars
<1>8. CASE BeginVerify(w)
  <2>1. PICK x \in Transaction, g \in list.factors, proof \in load.proofs :
          Start(w, <<[pc |-> IF g.kind = "codes" THEN "verify.spend" ELSE "verify.reserve", id |-> g.id,
                      x |-> x, proof |-> proof, at |-> 0, since |-> 0, left |-> 0, kept |-> FALSE, read |-> {}]>>)
    BY <1>8 DEF BeginVerify, Begins
  <2> DEFINE f == [pc |-> IF g.kind = "codes" THEN "verify.spend" ELSE "verify.reserve", id |-> g.id,
                   x |-> x, proof |-> proof, at |-> 0, since |-> 0, left |-> 0, kept |-> FALSE, read |-> {}]
  <2>2. proof \in Nat /\ list' = list /\ ids' = ids
    BY <1>8, FactorsAssumption DEF BeginVerify, listVars
  <2>3. /\ f.pc \in {"verify.reserve", "verify.spend"} /\ f.id = g.id /\ f.proof \in Nat
        /\ {"id", "proof", "x", "read"} \subseteq DOMAIN f
    BY <2>2
  <2>4. Others(w) /\ task'[w] = <<f>>
    BY <2>1, Started
  <2> HIDE DEF f
  <2>5. NewFrame(w, f)
    BY <2>3 DEF NewFrame, Making, Winning
  <2> QED
    BY <1>1, <2>2, <2>4, <2>5, OnceOn
<1>9. CASE BeginRelease(w)
  <2>1. PICK s \in Session :
          Start(w, <<[pc |-> "release.permit", id |-> <<s, 0>>, stood |-> [first |-> 0, fixedAt |-> 0]]>>)
    BY <1>9 DEF BeginRelease, Begins
  <2>2. [pc |-> "release.permit", id |-> <<s, 0>>, stood |-> [first |-> 0, fixedAt |-> 0]].pc
          \notin Making \cup Verifying
    BY DEF Making, Verifying, Winning
  <2> QED
    BY <1>9, <2>1, <2>2, <1>2 DEF BeginRelease, listVars
<1> QED
  BY <1>4, <1>5, <1>6, <1>7, <1>8, <1>9 DEF Begin

----------------------------------------------------------------------------
LEMMA InitOnce == Init => OnceInv
<1> SUFFICES ASSUME Init PROVE OnceInv
  OBVIOUS
<1>1. list.factors = load.held /\ ids = Cardinality(load.held) /\ accepted = {}
  BY DEF Init, Absent
<1>2. \A w \in Worker : Idle(w)
  BY DEF Init, Idle
<1>3. \A f, g \in load.held : f.id \in 1 .. Cardinality(load.held) /\ (f.id = g.id => f = g)
  BY FactorsAssumption DEF Init
<1> QED
  BY <1>1, <1>2, <1>3 DEF OnceInv, AcceptedFine, AcceptedOnce, Fresh, Reads, Won, TakenOnce, At

LEMMA StillOnce ==
  ASSUME OnceInv, UNCHANGED <<task, list, ids, taken, accepted>>
  PROVE  OnceInv'
BY DEF OnceInv, AcceptedFine, AcceptedOnce, Beaten, FrameHolds, Fresh, Reads, Won, TakenOnce, At, Idle, Top

LEMMA StepOnce == IInv /\ OnceInv /\ [Next]_vars => OnceInv'
<1> SUFFICES ASSUME IInv, OnceInv, [Next]_vars PROVE OnceInv'
  OBVIOUS
<1>1. IInv'
  BY StepIInv
<1>2. CASE UNCHANGED vars
  BY <1>2, StillOnce DEF vars, listVars, proofVars
<1>3. ASSUME NEW w \in Worker, Fail(w) PROVE OnceInv'
  <2>1. /\ ~Idle(w) /\ UNCHANGED <<list, ids, taken, accepted>> /\ ids \in Nat /\ "pc" \in DOMAIN Top(w)
        /\ Throw(w) \/ Settles(w, Top(w)) \/ Drop(w)
    BY <1>3, TopFine DEF Fail, IInv, listVars, proofVars, FrameFine
  <2>2. CASE Throw(w) \/ Settles(w, Top(w))
    <3>1. Off(w)
      BY <2>1, <2>2, OffThrown, OffSettled DEF IInv
    <3> QED
      BY <2>1, <3>1, KeptSubset, OnceOff
  <2>3. CASE Drop(w)
    <3>1. Off(w)
      BY <2>3 DEF Drop, Off, Others, IInv, TaskFine
    <3> QED
      BY <2>1, <3>1, KeptSubset, OnceOff
  <2> QED
    BY <2>1, <2>2, <2>3
<1>4. CASE Tick
  BY <1>4, StillOnce DEF Tick, listVars, proofVars
<1> QED
  BY <1>1, <1>2, <1>3, <1>4, KeepingOnce, VerifyOnce, ReleaseOnce, BeginOnce DEF Next

(* A number or a code lets one transaction on, once, and a transaction     *)
(* goes on from one proof (verify.ts "of two proofs racing on one          *)
(* transaction, only one goes on"), for any number of guesses at once,     *)
(* bindings, removals and resets between, and calls that fail or stop.     *)
THEOREM ProvedOnce == Spec => []AcceptedOnce
<1>1. OnceInv => AcceptedOnce
  BY DEF OnceInv
<1>2. IInv /\ OnceInv /\ [Next]_vars => (IInv /\ OnceInv)'
  BY StepIInv, StepOnce
<1>3. Init => IInv /\ OnceInv
  BY InitIInv, InitOnce
<1> QED
  BY <1>1, <1>2, <1>3, PTL DEF Spec

----------------------------------------------------------------------------
(***************************************************************************)
(* That wrong guesses stay within the budget, proved for any number of     *)
(* workers, guesses and releases, any policy and whatever fails or stops,  *)
(* on top of what is shown above of frames.                                *)
(*                                                                         *)
(* The argument: an attempt has a time of its own in its key, never before *)
(* the store's; so it ages out of no window it is in, and is taken out     *)
(* only by its own frame, which hands it back while its guess was not      *)
(* wrong.  Between two releases that forgive, the budget so counts every   *)
(* guess that is wrong or may turn out so, and a release is applied once   *)
(* for its permit.                                                         *)
(***************************************************************************)
Permitted == {"release.standing", "release.under", "release.use"}
Releases == Permitted \cup {"release.permit"}
Judging == {"verify.spend", "prove.read"}
Reserving ==
  Judging \cup {"prove.decide", "verify.take", "verify.succeed", "verify.refused", "verify.abandon", "verify.giveback"}

(* A frame with a reservation of its own, settled by a wrong guess where   *)
(* it is kept, which is only while a refusal is under way.                 *)
Holding(f) == f.pc \in Reserving /\ f.at > 0

Guess(f) ==
  /\ f.pc \in Reserving \cup {"verify.reserve"} =>
       /\ {"pc", "at", "since", "kept"} \subseteq DOMAIN f /\ f.at \in Nat /\ f.kept \in BOOLEAN
       /\ f.pc # "verify.refused" => ~f.kept
  /\ Holding(f) => f.at <= lockout.named /\ (f.kept \/ \A g \in wrong : g[1] # f.at)
  /\ f.pc \in Releases =>
       /\ "id" \in DOMAIN f /\ f.id[1] \in Session
       /\ f.pc \in Permitted => f.id \in granted

(* No two frames have one reservation.                                     *)
Guesses ==
  /\ \A w \in Worker : ~Idle(w) => Guess(Top(w))
  /\ \A v, w \in Worker :
       v # w /\ ~Idle(v) /\ ~Idle(w) /\ Holding(Top(v)) /\ Holding(Top(w)) => Top(v).at # Top(w).at

LockFine ==
  /\ {"spent", "named", "used"} \subseteq DOMAIN lockout
  /\ IsFiniteSet(lockout.spent) /\ lockout.spent \subseteq Nat \ {0} /\ lockout.named \in Nat
  /\ lockout.used \subseteq granted /\ granted \subseteq Session \X Nat /\ IsFiniteSet(granted)
  /\ now \in Nat
  /\ permit \in [Session -> [at : Nat, used : BOOLEAN]]
  /\ \A s \in Session : permit[s] # NoPermit => <<s, permit[s].at>> \in granted
  /\ \A g \in wrong : g[1] \in Nat /\ g[1] <= lockout.named

Window(gs, end) == {g \in gs : g[2] > end - load.policy.window /\ g[2] <= end}

(* Of a guess since the budget was last forgiven: it counts until it ages. *)
Recent(g) ==
  /\ g[1] \in Nat /\ g[2] \in Nat /\ g[2] <= g[1] /\ g[1] <= lockout.named
  /\ g[1] \in lockout.spent \/ g[1] <= now - load.policy.window

(* The guesses that are wrong or may turn out so: those since the budget   *)
(* was last forgiven, in no window more than it allows, and the ones       *)
(* before, in none more than it allows each time it was forgiven.          *)
Split(old, new) ==
  /\ IsFiniteSet(old) /\ IsFiniteSet(new)
  /\ wrong \subseteq old \cup new
  /\ \A g \in new : Recent(g)
  /\ \A g, h \in new : g[1] = h[1] => g = h
  /\ \A end \in Nat : Cardinality(Window(old, end)) <= load.policy.budget * Cardinality(lockout.used)
  /\ \A end \in Nat : Cardinality(Window(new, end)) <= load.policy.budget

Covers(gs) ==
  \A w \in Worker : ~Idle(w) /\ Top(w).pc \in Judging /\ Top(w).at > 0 => <<Top(w).at, Top(w).since>> \in gs

BudgetsFine == \E old, new : Split(old, new) /\ Covers(old \cup new)

GInv == LockFine /\ Guesses /\ BudgetsFine

----------------------------------------------------------------------------
LEMMA Times ==
  ASSUME NEW b \in Nat, NEW n \in Nat, NEW m \in Nat, n <= m
  PROVE  b * n <= b * m /\ b * n + b <= b * (1 + m) /\ b * n \in Nat
OBVIOUS

LEMMA PolicyFine ==
  ASSUME load \in Loads
  PROVE  load.policy.budget \in Nat /\ load.policy.window \in Nat
BY FactorsAssumption

(* What is wrong in a window is within the budgets so far.                 *)
LEMMA GuessesCounted == load \in Loads /\ GInv => GuessesBounded
<1> SUFFICES ASSUME load \in Loads, GInv, NEW end \in 1 .. now
             PROVE  Cardinality(Window(wrong, end)) <= load.policy.budget * (1 + Cardinality(granted))
  BY DEF GuessesBounded, Window
<1> DEFINE b == load.policy.budget
           n == Cardinality(lockout.used)
           m == Cardinality(granted)
<1>1. PICK old, new : Split(old, new)
  BY DEF GInv, BudgetsFine
<1>2. end \in Nat /\ b \in Nat
  BY PolicyFine DEF GInv, LockFine
<1>3. n \in Nat /\ m \in Nat /\ n <= m
  <2>1. lockout.used \in SUBSET granted /\ IsFiniteSet(granted)
    BY DEF GInv, LockFine
  <2> QED
    BY <2>1, FS_Subset, FS_CardinalityType
<1>4. IsFiniteSet(Window(old, end)) /\ IsFiniteSet(Window(new, end))
  <2>1. Window(old, end) \in SUBSET old /\ Window(new, end) \in SUBSET new
    BY DEF Window
  <2> QED
    BY <1>1, <2>1, FS_Subset DEF Split
<1>5. Window(wrong, end) \in SUBSET (Window(old, end) \cup Window(new, end))
  BY <1>1 DEF Split, Window
<1>6. Cardinality(Window(wrong, end)) <= Cardinality(Window(old, end)) + Cardinality(Window(new, end))
  <2> DEFINE A == Window(old, end)
             B == Window(new, end)
             C == Window(wrong, end)
  <2>1. IsFiniteSet(A) /\ IsFiniteSet(B) /\ C \in SUBSET (A \cup B)
    BY <1>4, <1>5
  <2> HIDE DEF A, B, C
  <2>2. /\ IsFiniteSet(A \cup B) /\ IsFiniteSet(A \cap B)
        /\ Cardinality(A \cup B) = Cardinality(A) + Cardinality(B) - Cardinality(A \cap B)
    <3>1. (A \cap B) \in SUBSET A
      OBVIOUS
    <3> QED
      BY <2>1, <3>1, FS_Union, FS_Subset
  <2>3. Cardinality(C) <= Cardinality(A \cup B) /\ IsFiniteSet(C)
    BY <2>1, <2>2, FS_Subset
  <2>4. /\ Cardinality(A) \in Nat /\ Cardinality(B) \in Nat /\ Cardinality(A \cap B) \in Nat
        /\ Cardinality(C) \in Nat /\ Cardinality(A \cup B) \in Nat
    BY <2>1, <2>2, <2>3, FS_CardinalityType
  <2>5. Cardinality(C) <= Cardinality(A) + Cardinality(B)
    BY <2>2, <2>3, <2>4
  <2> QED
    BY <2>5 DEF A, B, C
<1>7. Cardinality(Window(old, end)) <= b * n /\ Cardinality(Window(new, end)) <= b
  BY <1>1, <1>2 DEF Split
<1>8. Cardinality(Window(wrong, end)) <= b * n + b
  <2>1. IsFiniteSet(Window(wrong, end))
    BY <1>4, <1>5, FS_Union, FS_Subset
  <2>2. /\ Cardinality(Window(wrong, end)) \in Nat /\ Cardinality(Window(old, end)) \in Nat
        /\ Cardinality(Window(new, end)) \in Nat
    BY <1>4, <2>1, FS_CardinalityType
  <2>3. b * n \in Nat
    BY <1>2, <1>3, Times
  <2> HIDE DEF b, n
  <2> QED
    BY <1>2, <1>6, <1>7, <2>2, <2>3
<1>9. b * n + b <= b * (1 + m) /\ b * n \in Nat /\ b * (1 + m) \in Nat
  BY <1>2, <1>3, Times
<1>10. Cardinality(Window(wrong, end)) \in Nat
  BY <1>4, <1>5, FS_Union, FS_Subset, FS_CardinalityType
<1> HIDE DEF b, n, m
<1>11. Cardinality(Window(wrong, end)) <= b * (1 + m)
  BY <1>2, <1>8, <1>9, <1>10
<1> QED
  BY <1>11 DEF b, m

(* What a step does to the lockout, of the guesses that count.             *)
LEMMA WindowFinite ==
  ASSUME NEW gs, IsFiniteSet(gs), NEW end
  PROVE  IsFiniteSet(Window(gs, end)) /\ Cardinality(Window(gs, end)) \in Nat
<1>1. Window(gs, end) \in SUBSET gs
  BY DEF Window
<1> QED
  BY <1>1, FS_Subset, FS_CardinalityType

LEMMA WindowLess ==
  ASSUME NEW gs, IsFiniteSet(gs), NEW hs, hs \subseteq gs, NEW end
  PROVE  Cardinality(Window(hs, end)) <= Cardinality(Window(gs, end))
<1>1. IsFiniteSet(Window(gs, end)) /\ Window(hs, end) \in SUBSET Window(gs, end)
  BY WindowFinite DEF Window
<1> QED
  BY <1>1, FS_Subset

(* Time passes, guesses age or are handed back, releases that forgive      *)
(* nothing are applied: what is still to be counted stays so.              *)
LEMMA SplitKept ==
  ASSUME load \in Loads, load' = load, LockFine, LockFine', now <= now', lockout.named <= lockout'.named,
         lockout.used \subseteq lockout'.used,
         NEW old, NEW new, Split(old, new), NEW kept, kept \subseteq new, wrong' \subseteq old \cup kept,
         \A g \in kept : g[1] \in lockout.spent => g[1] \in lockout'.spent \/ g[1] <= now' - load.policy.window
  PROVE  Split(old, kept)'
<1> DEFINE b == load.policy.budget
           n == Cardinality(lockout.used)
           m == Cardinality(lockout'.used)
<1>1. b \in Nat /\ load.policy.window \in Nat
  BY PolicyFine
<1>2. n \in Nat /\ m \in Nat /\ n <= m
  <2>1. IsFiniteSet(lockout'.used)
    <3>1. lockout'.used \in SUBSET granted' /\ IsFiniteSet(granted')
      BY DEF LockFine
    <3> QED
      BY <3>1, FS_Subset
  <2>2. lockout.used \in SUBSET lockout'.used
    OBVIOUS
  <2> QED
    BY <2>1, <2>2, FS_Subset, FS_CardinalityType
<1>3. IsFiniteSet(old) /\ IsFiniteSet(new) /\ IsFiniteSet(kept)
  <2>1. kept \in SUBSET new
    OBVIOUS
  <2> QED
    BY <2>1, FS_Subset DEF Split
<1>4. ASSUME NEW g \in kept
      PROVE  Recent(g)'
  <2>1. Recent(g) /\ now \in Nat /\ now' \in Nat /\ lockout.named \in Nat /\ lockout'.named \in Nat
    BY <1>4 DEF Split, LockFine
  <2> QED
    BY <1>1, <1>4, <2>1 DEF Recent
<1>5. ASSUME NEW end \in Nat
      PROVE  /\ Cardinality(Window(old, end)') <= b * m
             /\ Cardinality(Window(kept, end)') <= b
  <2>1. Window(old, end)' = Window(old, end) /\ Window(kept, end)' = Window(kept, end)
    BY DEF Window
  <2>2. Cardinality(Window(old, end)) <= b * n /\ Cardinality(Window(new, end)) <= b
    BY DEF Split
  <2>3. b * n <= b * m /\ b * n \in Nat /\ b * m \in Nat
    BY <1>1, <1>2, Times
  <2>4. Cardinality(Window(kept, end)) <= Cardinality(Window(new, end))
    BY <1>3, WindowLess
  <2>5. /\ Cardinality(Window(old, end)) \in Nat /\ Cardinality(Window(new, end)) \in Nat
        /\ Cardinality(Window(kept, end)) \in Nat
    BY <1>3, WindowFinite
  <2> HIDE DEF b, n, m
  <2> QED
    BY <1>1, <2>1, <2>2, <2>3, <2>4, <2>5
<1>6. \A g, h \in kept : g[1] = h[1] => g = h
  BY DEF Split
<1> QED
  BY <1>3, <1>4, <1>5, <1>6 DEF Split

(* A guess is reserved while the budget is open: of those it would come    *)
(* into a window with, each still counts.                                  *)
LEMMA SplitReserved ==
  ASSUME load \in Loads, load' = load, LockFine, LockFine', now' = now,
         NEW at \in Nat, lockout.named < at, now <= at, lockout'.named = at,
         lockout'.used = lockout.used, wrong' = wrong,
         NEW was, was \subseteq lockout.spent, lockout'.spent = was \cup {at},
         \A a \in lockout.spent : a \in was \/ a <= now - load.policy.window,
         Cardinality(was) < load.policy.budget,
         NEW old, NEW new, Split(old, new), NEW one, one = <<at, now>>, NEW all, all = new \cup {one}
  PROVE  Split(old, all)'
<1> DEFINE b == load.policy.budget
<1>1. b \in Nat /\ load.policy.window \in Nat /\ now \in Nat /\ lockout.named \in Nat
  BY PolicyFine DEF LockFine
<1>2. IsFiniteSet(old) /\ IsFiniteSet(new) /\ IsFiniteSet(all) /\ IsFiniteSet(was)
  <2>1. was \in SUBSET lockout.spent /\ IsFiniteSet(lockout.spent)
    BY DEF LockFine
  <2> QED
    BY <2>1, FS_Subset, FS_AddElement DEF Split
<1>3. \A g \in new : Recent(g) /\ g[1] < at
  BY <1>1 DEF Split, Recent
<1>4. ASSUME NEW g \in all
      PROVE  Recent(g)'
  <2>1. CASE g = one
    BY <1>1, <2>1 DEF Recent
  <2>2. CASE g \in new
    <3>1. Recent(g) /\ g[1] < at
      BY <1>3, <2>2
    <3> QED
      BY <1>1, <3>1 DEF Recent
  <2> QED
    BY <2>1, <2>2
<1>5. \A g, h \in all : g[1] = h[1] => g = h
  <2>1. one[1] = at
    OBVIOUS
  <2>2. \A g \in new : g[1] \in Nat
    BY <1>3 DEF Recent
  <2>3. \A g, h \in new : g[1] = h[1] => g = h
    BY DEF Split
  <2> QED
    BY <1>1, <1>3, <2>1, <2>2, <2>3
<1>6. ASSUME NEW end \in Nat
      PROVE  Cardinality(Window(all, end)') <= b
  <2>1. Window(all, end)' = Window(all, end)
    BY DEF Window
  <2>2. Cardinality(Window(new, end)) <= b
    BY DEF Split
  <2>3. CASE now <= end /\ now > end - load.policy.window
    <3> DEFINE S == Window(new, end)
               f == [g \in S |-> g[1]]
    <3>1. \A g \in S : g[1] \in was
      BY <1>1, <1>3, <2>3 DEF Window, Recent
    <3>2. \A g, h \in S : g[1] = h[1] => g = h
      BY DEF Window, Split
    <3>3. f \in Injection(S, was)
      BY <3>1, <3>2 DEF Injection, IsInjective
    <3>4. Cardinality(S) <= Cardinality(was)
      BY <1>2, <3>3, FS_Injection
    <3>5. Window(all, end) = S \cup {one}
      BY <1>1, <2>3 DEF Window
    <3>6. /\ Cardinality(S \cup {one}) <= Cardinality(S) + 1 /\ Cardinality(S) \in Nat
          /\ Cardinality(S \cup {one}) \in Nat
      <4>1. IsFiniteSet(S) /\ Cardinality(S) \in Nat
        BY <1>2, WindowFinite
      <4> HIDE DEF S
      <4>2. Cardinality(S \cup {one}) = IF one \in S THEN Cardinality(S) ELSE Cardinality(S) + 1
        BY <4>1, FS_AddElement
      <4> QED
        BY <4>1, <4>2
    <3>7. Cardinality(was) \in Nat
      BY <1>2, FS_CardinalityType
    <3>8. Cardinality(was) < b
      OBVIOUS
    <3> HIDE DEF S, b
    <3>9. Cardinality(S \cup {one}) <= b
      BY <1>1, <3>4, <3>6, <3>7, <3>8
    <3> QED
      BY <2>1, <3>5, <3>9
  <2>4. CASE ~(now <= end /\ now > end - load.policy.window)
    <3>1. Window(all, end) = Window(new, end)
      BY <1>1, <2>4 DEF Window
    <3> QED
      BY <2>1, <2>2, <3>1
  <2> QED
    BY <2>3, <2>4
<1>7. \A end \in Nat : Window(old, end)' = Window(old, end)
  BY DEF Window
<1>8. wrong' \subseteq old \cup all
  BY DEF Split
<1>9. \A end \in Nat : Cardinality(Window(old, end)') <= b * Cardinality(lockout'.used)
  BY <1>7 DEF Split
<1> QED
  BY <1>2, <1>4, <1>5, <1>6, <1>8, <1>9 DEF Split

(* The budget is forgiven: one more release was applied.                   *)
LEMMA SplitForgiven ==
  ASSUME load \in Loads, load' = load, LockFine, LockFine', wrong' = wrong,
         NEW id, id \notin lockout.used, lockout'.used = lockout.used \cup {id},
         NEW old, NEW new, Split(old, new)
  PROVE  Split(old \cup new, {})'
<1> DEFINE b == load.policy.budget
           n == Cardinality(lockout.used)
<1>1. b \in Nat
  BY PolicyFine
<1>2. IsFiniteSet(lockout.used) /\ n \in Nat
  <2>1. lockout.used \in SUBSET granted /\ IsFiniteSet(granted)
    BY DEF LockFine
  <2> QED
    BY <2>1, FS_Subset, FS_CardinalityType
<1>3. Cardinality(lockout'.used) = n + 1
  BY <1>2, FS_AddElement
<1>4. IsFiniteSet(old) /\ IsFiniteSet(new) /\ IsFiniteSet(old \cup new) /\ IsFiniteSet({})
  BY FS_Union, FS_EmptySet DEF Split
<1>5. ASSUME NEW end \in Nat
      PROVE  /\ Cardinality(Window(old \cup new, end)') <= b * Cardinality(lockout'.used)
             /\ Cardinality(Window({}, end)') <= b
  <2> DEFINE A == Window(old, end)
             B == Window(new, end)
  <2>1. Window(old \cup new, end)' = A \cup B /\ Window({}, end)' = {}
    BY DEF Window
  <2>2. IsFiniteSet(A) /\ IsFiniteSet(B) /\ Cardinality(A) \in Nat /\ Cardinality(B) \in Nat
    BY <1>4, WindowFinite
  <2>3. Cardinality(A) <= b * n /\ Cardinality(B) <= b
    BY DEF Split
  <2>4. b * n \in Nat /\ b * (n + 1) = b * n + b
    BY <1>1, <1>2
  <2>5. Cardinality({}) = 0
    BY FS_EmptySet
  <2> HIDE DEF A, B, b, n
  <2>6. /\ IsFiniteSet(A \cap B) /\ IsFiniteSet(A \cup B)
        /\ Cardinality(A \cup B) = Cardinality(A) + Cardinality(B) - Cardinality(A \cap B)
    <3>1. (A \cap B) \in SUBSET A
      OBVIOUS
    <3> QED
      BY <2>2, <3>1, FS_Union, FS_Subset
  <2>7. Cardinality(A \cap B) \in Nat /\ Cardinality(A \cup B) \in Nat
    BY <2>6, FS_CardinalityType
  <2>8. Cardinality(A \cup B) <= b * n + b
    BY <1>1, <2>2, <2>3, <2>4, <2>6, <2>7
  <2>9. Cardinality(A \cup B) <= b * (n + 1)
    BY <2>4, <2>8
  <2>10. Cardinality({}) <= b
    BY <1>1, <2>5
  <2>11. Cardinality(A \cup B) <= b * Cardinality(lockout'.used)
    BY <1>3, <2>9
  <2> QED
    BY <2>1, <2>10, <2>11
<1>6. wrong' \subseteq (old \cup new) \cup {}
  BY DEF Split
<1> QED
  BY <1>4, <1>5, <1>6 DEF Split

(* What each call of a lockout leaves of what it holds.                    *)
Fields(k) == {"spent", "named", "used"} \subseteq DOMAIN k
Younger(k) == {a \in k.spent : a > now - load.policy.window}

LEMMA AgedFine ==
  ASSUME NEW k, Fields(k)
  PROVE  LET was == Aged(k, load.policy, now)
         IN  Fields(was) /\ was.spent = Younger(k) /\ was.named = k.named /\ was.used = k.used
BY DEF Aged, Fields, Younger

LEMMA CountedFine ==
  ASSUME NEW k, Fields(k)
  PROVE  LET next == Counted(k, load.policy, now)
             at == NextAt(k, now)
         IN  Fields(next) /\ next.spent = Younger(k) \cup {at} /\ next.named = at /\ next.used = k.used
<1> DEFINE was == Aged(k, load.policy, now)
<1>1. Fields(was) /\ was.spent = Younger(k) /\ was.named = k.named /\ was.used = k.used
  BY AgedFine
<1>2. NextAt(was, now) = NextAt(k, now)
  BY <1>1 DEF NextAt
<1> HIDE DEF was
<1> QED
  BY <1>1, <1>2 DEF Counted, Fields, was

LEMMA HandedBackFine ==
  ASSUME NEW k, Fields(k), NEW at, NEW success \in BOOLEAN
  PROVE  LET next == HandedBack(k, load.policy, now, at, success)
         IN  /\ Fields(next) /\ next.named = k.named /\ next.used = k.used
             /\ next.spent = k.spent \/ next.spent = Younger(k) \ {at}
<1> DEFINE was == Aged(k, load.policy, now)
<1>1. Fields(was) /\ was.spent = Younger(k) /\ was.named = k.named /\ was.used = k.used
  BY AgedFine
<1> HIDE DEF was
<1> QED
  BY <1>1 DEF HandedBack, Fields, was

LEMMA ReleasedFine ==
  ASSUME NEW k, Fields(k), NEW id, NEW forgive \in BOOLEAN, NEW lift \in BOOLEAN, NEW stood
  PROVE  LET next == Released(k, load.policy, now, id, forgive, lift, stood)
         IN  /\ Fields(next) /\ next.named = k.named
             /\ \/ next = k
                \/ /\ id \notin k.used /\ next.used = k.used \cup {id}
                   /\ next.spent \in {Younger(k), {}}
<1> DEFINE was == Aged(k, load.policy, now)
<1>1. Fields(was) /\ was.spent = Younger(k) /\ was.named = k.named /\ was.used = k.used
  BY AgedFine
<1> HIDE DEF was
<1> QED
  BY <1>1 DEF Released, Fields, was

----------------------------------------------------------------------------
(* A worker that goes on carries its own reservation, or has a later one   *)
(* than any so far.                                                        *)
Carries(w, f) == ~Idle(w) /\ Holding(Top(w)) /\ f.at = Top(w).at
Turned(w) ==
  /\ Others(w)
  /\ \/ task'[w] = <<>>
     \/ \E f : /\ task'[w] = <<f>> /\ Guess(f)'
               /\ Holding(f) => Carries(w, f) \/ lockout.named < f.at

LEMMA TopsAfter ==
  ASSUME NEW w \in Worker, Others(w), NEW v \in Worker, v # w
  PROVE  Top(v)' = Top(v) /\ Idle(v)' = Idle(v)
BY DEF Others, Top, Idle

LEMMA TopAfter ==
  ASSUME NEW w \in Worker, NEW f, task'[w] = <<f>>
  PROVE  Top(w)' = f /\ ~Idle(w)'
<1>1. Head(<<f>>) = f /\ <<f>> # <<>>
  OBVIOUS
<1> QED
  BY <1>1 DEF Top, Idle

LEMMA TurnedGuesses ==
  ASSUME LockFine, LockFine', Guesses, NEW w \in Worker, Turned(w),
         lockout.named <= lockout'.named, granted \subseteq granted',
         \A g \in wrong' : g \in wrong \/ (~Idle(w) /\ Holding(Top(w)) /\ g[1] = Top(w).at)
  PROVE  Guesses'
<1>1. ASSUME NEW v \in Worker, v # w, ~Idle(v)'
      PROVE  Guess(Top(v)) /\ Guess(Top(v))' /\ Top(v)' = Top(v) /\ ~Idle(v)
  <2>1. Top(v)' = Top(v) /\ ~Idle(v)
    BY <1>1, TopsAfter DEF Turned
  <2>2. Guess(Top(v))
    BY <2>1 DEF Guesses
  <2> DEFINE q == Top(v)
  <2>3. PICK h : h = q
    OBVIOUS
  <2>4. Guess(h) /\ h = Top(v) /\ h = Top(v)'
    BY <2>1, <2>2, <2>3
  <2>5. ASSUME Holding(h)
        PROVE  h.at <= lockout'.named /\ (h.kept \/ \A g \in wrong' : g[1] # h.at)
    <3>1. h.at <= lockout.named /\ h.at \in Nat /\ lockout.named \in Nat /\ lockout'.named \in Nat
      BY <2>4, <2>5 DEF Guess, Holding, LockFine
    <3>2. h.at <= lockout'.named
      BY <3>1
    <3>3. ASSUME ~Idle(w), Holding(Top(w))
          PROVE  Top(w).at # h.at
      BY <1>1, <2>1, <2>4, <2>5, <3>3 DEF Guesses
    <3>4. h.kept \/ \A g \in wrong : g[1] # h.at
      BY <2>4, <2>5 DEF Guess
    <3> QED
      BY <3>2, <3>3, <3>4
  <2>6. Guess(h)'
    BY <2>4, <2>5 DEF Guess, Holding
  <2>7. Guess(Top(v))'
    BY <2>4, <2>6 DEF Guess, Holding
  <2> QED
    BY <2>1, <2>2, <2>7
<1>2. ASSUME ~Idle(w)'
      PROVE  /\ Guess(Top(w))'
             /\ Holding(Top(w)') => Carries(w, Top(w)') \/ lockout.named < Top(w)'.at
  <2>1. PICK f : /\ task'[w] = <<f>> /\ Guess(f)'
                 /\ Holding(f) => Carries(w, f) \/ lockout.named < f.at
    BY <1>2 DEF Turned, Idle
  <2>2. Top(w)' = f
    BY <2>1, TopAfter
  <2>3. Guess(Top(w))'
    BY <2>1, <2>2 DEF Guess, Holding
  <2> QED
    BY <2>1, <2>2, <2>3
<1>3. \A v \in Worker : ~Idle(v)' => Guess(Top(v))'
  BY <1>1, <1>2
<1>4. ASSUME NEW v \in Worker, v # w, ~Idle(v)', ~Idle(w)', Holding(Top(v)'), Holding(Top(w)')
      PROVE  Top(v)'.at # Top(w)'.at
  <2>1. Guess(Top(v)) /\ Top(v)' = Top(v) /\ ~Idle(v) /\ Holding(Top(v))
    BY <1>1, <1>4
  <2>2. Top(v).at \in Nat /\ Top(v).at <= lockout.named /\ lockout.named \in Nat
    BY <2>1 DEF Guess, Holding, LockFine
  <2>3. CASE Carries(w, Top(w)')
    <3>1. Top(v).at # Top(w).at
      BY <1>4, <2>1, <2>3 DEF Guesses, Carries
    <3> QED
      BY <2>1, <2>3, <3>1 DEF Carries
  <2>4. CASE lockout.named < Top(w)'.at
    <3>1. Top(w)'.at \in Nat
      <4>1. Guess(Top(w))'
        BY <1>2, <1>4
      <4> QED
        BY <1>4, <4>1 DEF Guess, Holding
    <3> QED
      BY <2>1, <2>2, <2>4, <3>1
  <2> QED
    BY <1>2, <1>4, <2>3, <2>4
<1>5. ASSUME NEW v \in Worker, NEW u \in Worker, v # u, v # w, u # w, ~Idle(v)', ~Idle(u)',
             Holding(Top(v)'), Holding(Top(u)')
      PROVE  Top(v)'.at # Top(u)'.at
  <2>1. Top(v)' = Top(v) /\ ~Idle(v) /\ Top(u)' = Top(u) /\ ~Idle(u)
    BY <1>1, <1>5
  <2> QED
    BY <1>5, <2>1 DEF Guesses
<1>6. \A v, u \in Worker :
        v # u /\ ~Idle(v)' /\ ~Idle(u)' /\ Holding(Top(v)') /\ Holding(Top(u)') => Top(v)'.at # Top(u)'.at
  BY <1>4, <1>5
<1> QED
  BY <1>3, <1>6 DEF Guesses, Holding

(* The guesses that may turn out wrong are still among those counted.      *)
LEMMA CoversKept ==
  ASSUME Guesses, NEW w \in Worker, Others(w), NEW gs, Covers(gs), NEW hs,
         \A g \in gs : g \in hs \/ (~Idle(w) /\ Holding(Top(w)) /\ g[1] = Top(w).at),
         task'[w] = <<>> \/ \E f : /\ task'[w] = <<f>>
                                   /\ f.pc \in Judging /\ f.at > 0 => <<f.at, f.since>> \in hs
  PROVE  Covers(hs)'
<1>1. ASSUME NEW v \in Worker, v # w, ~Idle(v)', Top(v)'.pc \in Judging, Top(v)'.at > 0
      PROVE  <<Top(v)'.at, Top(v)'.since>> \in hs
  <2>1. Top(v)' = Top(v) /\ ~Idle(v)
    BY <1>1, TopsAfter
  <2>2. <<Top(v).at, Top(v).since>> \in gs /\ Holding(Top(v))
    BY <1>1, <2>1 DEF Covers, Holding, Reserving
  <2>3. <<Top(v).at, Top(v).since>>[1] = Top(v).at
    OBVIOUS
  <2>4. ~Idle(w) /\ Holding(Top(w)) => Top(w).at # Top(v).at
    BY <1>1, <2>1, <2>2 DEF Guesses
  <2> QED
    BY <2>1, <2>2, <2>3, <2>4
<1>2. ASSUME ~Idle(w)', Top(w)'.pc \in Judging, Top(w)'.at > 0
      PROVE  <<Top(w)'.at, Top(w)'.since>> \in hs
  <2>1. PICK f : /\ task'[w] = <<f>>
                 /\ f.pc \in Judging /\ f.at > 0 => <<f.at, f.since>> \in hs
    BY <1>2 DEF Idle
  <2>2. Top(w)' = f
    BY <2>1, TopAfter
  <2> QED
    BY <1>2, <2>1, <2>2
<1> QED
  BY <1>1, <1>2 DEF Covers

(* The frames a worker goes on in: one without a reservation, its own      *)
(* reservation's, one that has read a permit, or a proof just begun.       *)
Proofs == Reserving \cup {"verify.reserve"}
HasGuess(f) == {"pc", "at", "since", "kept"} \subseteq DOMAIN f
Plain(f) == f.pc \notin Proofs \cup Releases
Carried(w, f) ==
  /\ ~Idle(w) /\ Top(w).pc \in Reserving
  /\ HasGuess(f) /\ f.pc \in Reserving /\ f.at = Top(w).at /\ f.since = Top(w).since /\ f.kept = Top(w).kept
  /\ f.pc \in Judging => Top(w).pc \in Judging
  /\ f.pc # "verify.refused" => ~f.kept
Permits(f) ==
  f.pc \in Releases /\ "id" \in DOMAIN f /\ f.id[1] \in Session /\ (f.pc \in Permitted => f.id \in granted)
Begun(f) == HasGuess(f) /\ f.pc \in Proofs /\ f.at = 0 /\ f.kept \in BOOLEAN /\ ~f.kept

Quietly(w) ==
  /\ Others(w)
  /\ task'[w] = <<>> \/ \E f : task'[w] = <<f>> /\ (Plain(f) \/ Carried(w, f) \/ Permits(f) \/ Begun(f))

LEMMA GuessAt ==
  ASSUME Guesses, NEW w \in Worker, ~Idle(w), Top(w).pc \in Proofs
  PROVE  /\ HasGuess(Top(w)) /\ Top(w).at \in Nat /\ Top(w).kept \in BOOLEAN
         /\ Top(w).pc # "verify.refused" => ~Top(w).kept
BY DEF Guesses, Guess, Proofs, HasGuess

LEMMA QuietlyTurned ==
  ASSUME LockFine, Guesses, NEW w \in Worker, Quietly(w),
         granted \subseteq granted', lockout'.named = lockout.named, wrong' = wrong
  PROVE  Turned(w)
<1>1. ASSUME NEW f, task'[w] = <<f>>, Plain(f) \/ Carried(w, f) \/ Permits(f) \/ Begun(f)
      PROVE  Guess(f)' /\ (Holding(f) => Carries(w, f) \/ lockout.named < f.at)
  <2>1. CASE Plain(f)
    BY <2>1 DEF Plain, Proofs, Reserving, Releases, Guess, Holding
  <2>2. CASE Carried(w, f)
    <3>1. HasGuess(Top(w)) /\ Top(w).at \in Nat /\ Top(w).kept \in BOOLEAN
      BY <2>2, GuessAt DEF Carried, Proofs
    <3>2. Holding(f) => Holding(Top(w))
      BY <2>2 DEF Carried, Holding
    <3>3. Guess(Top(w))
      BY <2>2 DEF Guesses, Carried
    <3>4. Holding(f) => f.at <= lockout'.named /\ (f.kept \/ \A g \in wrong' : g[1] # f.at)
      BY <2>2, <3>2, <3>3 DEF Guess, Carried
    <3>5. f.pc \notin Releases
      BY <2>2 DEF Carried, Reserving, Judging, Releases, Permitted
    <3> QED
      BY <2>2, <3>1, <3>2, <3>4, <3>5 DEF Guess, Carried, HasGuess, Carries, Holding
  <2>3. CASE Permits(f)
    <3>1. f.pc \notin Reserving \cup {"verify.reserve"}
      BY <2>3 DEF Permits, Reserving, Judging, Releases, Permitted
    <3> QED
      BY <2>3, <3>1 DEF Permits, Guess, Holding
  <2>4. CASE Begun(f)
    <3>1. f.pc \notin Releases
      BY <2>4 DEF Begun, Proofs, Reserving, Judging, Releases, Permitted
    <3>2. f.at \in Nat /\ ~Holding(f)
      BY <2>4 DEF Begun, Holding
    <3>3. Guess(f)'
      BY <2>4, <3>1, <3>2 DEF Begun, HasGuess, Guess, Holding
    <3> QED
      BY <3>2, <3>3
  <2> QED
    BY <1>1, <2>1, <2>2, <2>3, <2>4
<1> QED
  BY <1>1 DEF Quietly, Turned

LEMMA QuietlyCovers ==
  ASSUME Guesses, NEW w \in Worker, Quietly(w), NEW gs, Covers(gs)
  PROVE  Covers(gs)'
<1>1. ASSUME NEW f, task'[w] = <<f>>, Plain(f) \/ Carried(w, f) \/ Permits(f) \/ Begun(f), f.pc \in Judging, f.at > 0
      PROVE  <<f.at, f.since>> \in gs
  <2>1. Carried(w, f)
    BY <1>1 DEF Plain, Permits, Begun, Proofs, Reserving, Judging, Releases, Permitted
  <2> QED
    BY <1>1, <2>1 DEF Carried, Covers
<1>2. task'[w] = <<>> \/ \E f : task'[w] = <<f>> /\ (f.pc \in Judging /\ f.at > 0 => <<f.at, f.since>> \in gs)
  BY <1>1 DEF Quietly
<1>3. Others(w)
  BY DEF Quietly
<1> QED
  BY <1>2, <1>3, CoversKept

LEMMA SameLock ==
  ASSUME LockFine, UNCHANGED <<lockVars, load>>, now' \in Nat
  PROVE  LockFine'
BY DEF LockFine, lockVars

(* A step that leaves the lockout, or only makes it lighter by what has    *)
(* aged and by releases that forgive nothing.                              *)
LEMMA QuietStep ==
  ASSUME load \in Loads, load' = load, GInv, LockFine', now <= now', NEW w \in Worker, Quietly(w),
         lockout'.named = lockout.named, lockout.used \subseteq lockout'.used, granted \subseteq granted',
         \A a \in lockout.spent : a \in lockout'.spent \/ a <= now' - load.policy.window, wrong' = wrong
  PROVE  GInv'
<1>1. PICK old, new : Split(old, new) /\ Covers(old \cup new)
  BY DEF GInv, BudgetsFine
<1>2. LockFine /\ Guesses
  BY DEF GInv
<1>3. Split(old, new)'
  <2>1. lockout.named <= lockout'.named
    BY <1>2 DEF LockFine
  <2>2. wrong' \subseteq old \cup new
    BY <1>1 DEF Split
  <2> QED
    BY <1>1, <1>2, <2>1, <2>2, SplitKept
<1>4. Covers(old \cup new)'
  BY <1>1, <1>2, QuietlyCovers
<1>5. Guesses'
  <2>1. lockout.named <= lockout'.named
    BY <1>2 DEF LockFine
  <2> QED
    BY <1>2, <2>1, QuietlyTurned, TurnedGuesses
<1> QED
  BY <1>3, <1>4, <1>5 DEF GInv, BudgetsFine

(* An attempt handed back counts no more, as no guess of it is wrong.      *)
LEMMA HandBackStep ==
  ASSUME load \in Loads, load' = load, GInv, LockFine', now' = now, NEW w \in Worker, Quietly(w),
         lockout'.named = lockout.named, lockout'.used = lockout.used, granted' = granted, wrong' = wrong,
         ~Idle(w), Top(w).pc \in Reserving, ~Top(w).kept,
         task'[w] = <<>> \/ \E f : task'[w] = <<f>> /\ Plain(f),
         \A a \in lockout.spent :
           a \in lockout'.spent \/ a <= now - load.policy.window \/ a = Top(w).at
  PROVE  GInv'
<1> DEFINE at == Top(w).at
<1>1. PICK old, new : Split(old, new) /\ Covers(old \cup new)
  BY DEF GInv, BudgetsFine
<1>2. LockFine /\ Guesses /\ at \in Nat /\ Top(w).kept \in BOOLEAN
  BY GuessAt DEF GInv, Proofs
<1>3. \A g \in wrong : g[1] # at \/ at = 0
  <2>1. CASE at > 0
    <3>1. Holding(Top(w))
      BY <2>1 DEF Holding
    <3> QED
      BY <1>2, <3>1 DEF Guesses, Guess
  <2> QED
    BY <1>2, <2>1
<1>4. at = 0 => at \notin lockout.spent
  BY <1>2 DEF LockFine
<1>5. PICK kept : kept = {g \in new : at = 0 \/ g[1] # at}
  OBVIOUS
<1>6. kept \subseteq new /\ wrong' \subseteq old \cup kept
  BY <1>1, <1>3, <1>5 DEF Split
<1>7. \A g \in kept : g[1] \in lockout.spent => g[1] \in lockout'.spent \/ g[1] <= now' - load.policy.window
  BY <1>4, <1>5
<1>8. now <= now' /\ lockout.named <= lockout'.named /\ lockout.used \subseteq lockout'.used
  BY <1>2 DEF LockFine
<1>9. Split(old, kept)'
  BY <1>1, <1>2, <1>6, <1>7, <1>8, SplitKept
<1>10. Covers(old \cup kept)'
  <2>1. ASSUME NEW g \in old \cup new, g \notin old \cup kept
        PROVE  ~Idle(w) /\ Holding(Top(w)) /\ g[1] = Top(w).at
    BY <1>2, <1>5, <2>1 DEF Holding
  <2>2. task'[w] = <<>> \/ \E f : /\ task'[w] = <<f>>
                                  /\ f.pc \in Judging /\ f.at > 0 => <<f.at, f.since>> \in old \cup kept
    BY DEF Plain, Proofs, Reserving
  <2>3. Others(w)
    BY DEF Quietly
  <2> HIDE DEF at
  <2> QED
    BY <1>1, <1>2, <2>1, <2>2, <2>3, CoversKept
<1>11. Guesses'
  BY <1>2, <1>8, QuietlyTurned, TurnedGuesses
<1> QED
  BY <1>9, <1>10, <1>11 DEF GInv, BudgetsFine

(* The steps, each by the frame it goes on in.                             *)
LEMMA FrameHas ==
  ASSUME IInv, NEW w \in Worker, NEW pc, Doing(w, pc)
  PROVE  ~Idle(w) /\ TaskFine /\ "pc" \in DOMAIN Top(w) /\ Top(w).pc = pc
BY TopFine DEF IInv, Doing, FrameFine

LEMMA QuietReturned ==
  ASSUME TaskFine, NEW w \in Worker, ~Idle(w), Return(w)
  PROVE  Quietly(w)
BY Returned DEF Quietly

LEMMA QuietBecame ==
  ASSUME TaskFine, NEW w \in Worker, ~Idle(w), NEW f, Become(w, <<f>>),
         Plain(f) \/ Carried(w, f) \/ Permits(f) \/ Begun(f)
  PROVE  Quietly(w)
BY Became DEF Quietly

LEMMA QuietDropped ==
  ASSUME TaskFine, NEW w \in Worker, Drop(w)
  PROVE  Quietly(w)
BY DEF Drop, TaskFine, Quietly, Others

(* The reservation is settled, or the refusal that settles it is next.     *)
LEMMA QuietSettled ==
  ASSUME TaskFine, Guesses, NEW w \in Worker, ~Idle(w), Top(w).pc \in Reserving, ~Top(w).kept,
         NEW t, HasGuess(t), t.at = Top(w).at, t.since = Top(w).since, t.kept = Top(w).kept,
         Settles(w, t) \/ Refuses(w, t)
  PROVE  Quietly(w)
<1>1. CASE Return(w)
  BY <1>1, QuietReturned
<1>2. CASE Become(w, <<[t EXCEPT !.pc = "verify.abandon"]>>)
  <2>1. Carried(w, [t EXCEPT !.pc = "verify.abandon"])
    BY DEF HasGuess, Carried, Reserving, Judging
  <2> QED
    BY <1>2, <2>1, QuietBecame
<1>3. CASE Become(w, <<[t EXCEPT !.pc = "verify.refused"]>>)
  <2>1. Carried(w, [t EXCEPT !.pc = "verify.refused"])
    BY DEF HasGuess, Carried, Reserving, Judging
  <2> QED
    BY <1>3, <2>1, QuietBecame
<1> QED
  BY <1>1, <1>2, <1>3 DEF Settles, Refuses

LEMMA QuietThrown ==
  ASSUME TaskFine, Guesses, NEW w \in Worker, ~Idle(w), Throw(w)
  PROVE  Quietly(w)
<1> DEFINE f == Top(w)
           g == [f EXCEPT !.pc = OnThrow[@]]
<1>1. task[w] = <<f>> /\ "pc" \in DOMAIN f
  BY TopFine DEF FrameFine
<1>2. task'[w] = Unwound(<<f>>) /\ Others(w)
  BY <1>1 DEF Throw, TaskFine, Others
<1>3. CASE f.pc \notin DOMAIN OnThrow
  <2>1. Catching(<<f>>) = {}
    BY <1>3 DEF Catching
  <2> QED
    BY <1>2, <2>1 DEF Unwound, Quietly
<1>4. CASE f.pc \in DOMAIN OnThrow
  <2>1. Catching(<<f>>) = {1}
    BY <1>4 DEF Catching
  <2>2. (CHOOSE i \in Catching(<<f>>) : \A j \in Catching(<<f>>) : i <= j) = 1
    BY <2>1
  <2>3. Unwound(<<f>>) = <<g>> \o SubSeq(<<f>>, 2, 1)
    BY <2>1, <2>2 DEF Unwound
  <2>4. SubSeq(<<f>>, 2, 1) = <<>>
    OBVIOUS
  <2>5. Unwound(<<f>>) = <<g>>
    BY <2>3, <2>4
  <2>6. /\ f.pc \in Reserving /\ f.pc # "verify.refused"
        /\ OnThrow[f.pc] \in {"verify.abandon", "verify.giveback"}
    BY <1>4, FactorsAssumption DEF Reserving, Judging
  <2>7. HasGuess(f) /\ f.kept \in BOOLEAN /\ ~f.kept
    BY <2>6, GuessAt DEF Proofs
  <2>8. g.pc = OnThrow[f.pc] /\ HasGuess(g) /\ g.at = f.at /\ g.since = f.since /\ g.kept = f.kept
    BY <2>7 DEF HasGuess
  <2>9. Carried(w, g)
    <3> HIDE DEF g
    <3>1. g.pc \in Reserving /\ g.pc \notin Judging
      BY <2>6, <2>8 DEF Reserving, Judging
    <3> QED
      BY <2>6, <2>7, <2>8, <3>1 DEF Carried
  <2> HIDE DEF g
  <2> QED
    BY <1>2, <2>5, <2>9 DEF Quietly
<1> QED
  BY <1>3, <1>4

(* Nothing of the lockout is touched.                                      *)
LEMMA AsideStep ==
  ASSUME load \in Loads, GInv, NEW w \in Worker, Quietly(w), UNCHANGED <<lockVars, now, load>>
  PROVE  GInv'
<1>1. /\ load' = load /\ LockFine /\ now' = now /\ now <= now'
      /\ lockout' = lockout /\ granted' = granted /\ wrong' = wrong
  BY DEF GInv, LockFine, lockVars
<1>2. LockFine'
  BY <1>1, SameLock DEF LockFine
<1> QED
  BY <1>1, <1>2, QuietStep

LEMMA KeepingQuiet ==
  ASSUME IInv, NEW w \in Worker, KeepingStep(w)
  PROVE  Quietly(w)
<1> DEFINE t == Top(w)
<1>1. ASSUME NEW f, f.pc \in {"bind.fence", "bind.early", "bind.write", "bind.check",
                              "reissue.write", "remove.stood", "remove.write", "move.write"}
      PROVE  Plain(f)
  BY <1>1 DEF Plain, Proofs, Reserving, Judging, Releases, Permitted
<1>2. ASSUME NEW pc, Doing(w, pc)
      PROVE  ~Idle(w) /\ TaskFine /\ "pc" \in DOMAIN t /\ t.pc = pc
  BY <1>2, FrameHas
<1>3. ~Idle(w) /\ TaskFine /\ "pc" \in DOMAIN t
  BY <1>2 DEF KeepingStep, BindBegin, BindFence, BindEarly, BindWrite, BindCheck, ReissueFence, ReissueWrite,
              RemoveFence, RemoveStood, RemoveWrite, MoveWrite
<1>4. ASSUME NEW judged, SaveFirst(w, judged), t.pc \in {"bind.write", "move.write"}
      PROVE  Quietly(w)
  <2>1. [t EXCEPT !.saving = TRUE].pc = t.pc
    OBVIOUS
  <2> QED
    BY <1>1, <1>3, <1>4, <2>1, QuietBecame DEF SaveFirst
<1>5. CASE BindBegin(w)
  <2>1. ASSUME NEW first PROVE Plain([t EXCEPT !.pc = "bind.fence", !.first = first])
    BY <1>3 DEF Plain, Proofs, Reserving, Judging, Releases, Permitted
  <2> QED
    BY <1>3, <1>5, <2>1, QuietBecame, QuietReturned DEF BindBegin
<1>6. CASE BindFence(w)
  <2>1. Plain([t EXCEPT !.pc = "bind.early", !.fence = list.fences])
    BY <1>3 DEF Plain, Proofs, Reserving, Judging, Releases, Permitted
  <2> QED
    BY <1>3, <1>6, <2>1, QuietBecame DEF BindFence
<1>7. CASE BindEarly(w)
  <2>1. Plain([t EXCEPT !.pc = "bind.write"])
    BY <1>3 DEF Plain, Proofs, Reserving, Judging, Releases, Permitted
  <2> QED
    BY <1>3, <1>7, <2>1, QuietBecame, QuietReturned DEF BindEarly, To
<1>8. CASE BindWrite(w)
  <2> DEFINE judged == BindJudged(t)
  <2>1. t.pc = "bind.write"
    BY <1>2, <1>8 DEF BindWrite
  <2>2. ASSUME NEW due PROVE Plain([t EXCEPT !.pc = "bind.check", !.saving = FALSE, !.due = due])
    BY <1>3 DEF Plain, Proofs, Reserving, Judging, Releases, Permitted
  <2>3. CASE SaveFirst(w, judged)
    BY <1>4, <2>1, <2>3
  <2>4. \/ SaveFirst(w, judged)
        \/ Return(w)
        \/ \E due : Become(w, <<[t EXCEPT !.pc = "bind.check", !.saving = FALSE, !.due = due]>>)
    <3> HIDE DEF judged
    <3>1. \/ SaveFirst(w, judged)
          \/ IF judged.verdict \in {"due", "bound"}
             THEN Become(w, <<[t EXCEPT !.pc = "bind.check", !.saving = FALSE, !.due = judged.verdict = "due"]>>)
             ELSE Return(w)
      BY <1>8 DEF BindWrite, judged
    <3> QED
      BY <3>1
  <2> HIDE DEF judged
  <2> QED
    BY <1>3, <2>2, <2>3, <2>4, QuietBecame, QuietReturned
<1>9. CASE BindCheck(w)
  <2>1. Plain([t EXCEPT !.pc = "reissue.write", !.id = ids'])
    BY <1>3 DEF Plain, Proofs, Reserving, Judging, Releases, Permitted
  <2> QED
    BY <1>3, <1>9, <2>1, QuietBecame, QuietReturned DEF BindCheck
<1>10. CASE ReissueFence(w)
  <2>1. Plain([t EXCEPT !.pc = "reissue.write", !.fence = list.fences])
    BY <1>3 DEF Plain, Proofs, Reserving, Judging, Releases, Permitted
  <2> QED
    BY <1>3, <1>10, <2>1, QuietBecame DEF ReissueFence
<1>11. CASE RemoveFence(w)
  <2>1. Plain([t EXCEPT !.pc = "remove.stood", !.fence = list.fences])
    BY <1>3 DEF Plain, Proofs, Reserving, Judging, Releases, Permitted
  <2> QED
    BY <1>3, <1>11, <2>1, QuietBecame DEF RemoveFence
<1>12. CASE RemoveStood(w)
  <2>1. ASSUME NEW stood PROVE Plain([t EXCEPT !.pc = "remove.write", !.stood = stood])
    BY <1>3 DEF Plain, Proofs, Reserving, Judging, Releases, Permitted
  <2> QED
    BY <1>3, <1>12, <2>1, QuietBecame DEF RemoveStood
<1>13. CASE ReissueWrite(w) \/ RemoveWrite(w)
  BY <1>3, <1>13, QuietReturned DEF ReissueWrite, RemoveWrite
<1>14. CASE MoveWrite(w)
  <2>1. t.pc = "move.write"
    BY <1>2, <1>14 DEF MoveWrite
  <2>2. Return(w) \/ \E judged : SaveFirst(w, judged)
    BY <1>14 DEF MoveWrite
  <2> QED
    BY <1>3, <1>4, <2>1, <2>2, QuietReturned
<1> QED
  BY <1>5, <1>6, <1>7, <1>8, <1>9, <1>10, <1>11, <1>12, <1>13, <1>14 DEF KeepingStep

LEMMA BeginQuiet ==
  ASSUME IInv, NEW w \in Worker, Begin(w)
  PROVE  Quietly(w)
<1>1. ASSUME NEW f, Start(w, <<f>>), Plain(f) \/ Permits(f) \/ Begun(f)
      PROVE  Quietly(w)
  BY <1>1, Started DEF Quietly, IInv
<1>2. ASSUME NEW f, f.pc \in {"bind.begin", "reissue.fence", "remove.fence", "move.write"}
      PROVE  Plain(f)
  BY <1>2 DEF Plain, Proofs, Reserving, Judging, Releases, Permitted
<1>3. CASE BeginBind(w)
  <2>1. PICK kind \in {"totp", "mail"}, login \in BOOLEAN :
          Start(w, <<[Keeping("bind.begin", ids') EXCEPT !.kind = kind, !.login = login]>>)
    BY <1>3 DEF BeginBind, Begins
  <2>2. Plain([Keeping("bind.begin", ids') EXCEPT !.kind = kind, !.login = login])
    BY DEF Keeping, Plain, Proofs, Reserving, Judging, Releases, Permitted
  <2> QED
    BY <1>1, <2>1, <2>2
<1>4. CASE BeginReissue(w)
  <2>1. Plain(Keeping("reissue.fence", ids'))
    BY DEF Keeping, Plain, Proofs, Reserving, Judging, Releases, Permitted
  <2> QED
    BY <1>1, <1>4, <2>1 DEF BeginReissue, Begins
<1>5. CASE BeginRemove(w)
  <2>1. PICK g \in list.factors : Start(w, <<Keeping("remove.fence", g.id)>>)
    BY <1>5 DEF BeginRemove, Begins
  <2>2. Plain(Keeping("remove.fence", g.id))
    BY DEF Keeping, Plain, Proofs, Reserving, Judging, Releases, Permitted
  <2> QED
    BY <1>1, <2>1, <2>2
<1>6. CASE BeginMove(w)
  <2>1. PICK reset \in BOOLEAN : Start(w, <<[Keeping("move.write", 0) EXCEPT !.reset = reset]>>)
    BY <1>6 DEF BeginMove, Begins
  <2>2. Plain([Keeping("move.write", 0) EXCEPT !.reset = reset])
    BY DEF Keeping, Plain, Proofs, Reserving, Judging, Releases, Permitted
  <2> QED
    BY <1>1, <2>1, <2>2
<1>7. CASE BeginVerify(w)
  <2>1. PICK x \in Transaction, g \in list.factors, proof \in load.proofs :
          Start(w, <<[pc |-> IF g.kind = "codes" THEN "verify.spend" ELSE "verify.reserve", id |-> g.id,
                      x |-> x, proof |-> proof, at |-> 0, since |-> 0, left |-> 0, kept |-> FALSE, read |-> {}]>>)
    BY <1>7 DEF BeginVerify, Begins
  <2>2. ASSUME NEW f, f = [pc |-> IF g.kind = "codes" THEN "verify.spend" ELSE "verify.reserve", id |-> g.id,
                           x |-> x, proof |-> proof, at |-> 0, since |-> 0, left |-> 0, kept |-> FALSE, read |-> {}]
        PROVE  Begun(f)
    <3>1. f.pc \in Proofs /\ f.at = 0 /\ HasGuess(f)
      BY <2>2 DEF Proofs, Reserving, Judging, HasGuess
    <3>2. f.kept = FALSE
      BY <2>2
    <3>3. f.kept \in BOOLEAN /\ ~f.kept
      BY <3>2
    <3> QED
      BY <3>1, <3>3 DEF Begun
  <2> QED
    BY <1>1, <2>1, <2>2
<1>8. CASE BeginRelease(w)
  <2>1. PICK s \in Session :
          Start(w, <<[pc |-> "release.permit", id |-> <<s, 0>>, stood |-> [first |-> 0, fixedAt |-> 0]]>>)
    BY <1>8 DEF BeginRelease, Begins
  <2>2. Permits([pc |-> "release.permit", id |-> <<s, 0>>, stood |-> [first |-> 0, fixedAt |-> 0]])
    BY DEF Permits, Releases, Permitted
  <2> QED
    BY <1>1, <2>1, <2>2
<1> QED
  BY <1>3, <1>4, <1>5, <1>6, <1>7, <1>8 DEF Begin

LEMMA FailQuiet ==
  ASSUME IInv, Guesses, NEW w \in Worker, Fail(w)
  PROVE  Quietly(w)
<1>1. TaskFine /\ ~Idle(w)
  BY DEF IInv, Fail
<1>2. CASE Throw(w)
  BY <1>1, <1>2, QuietThrown
<1>3. CASE Drop(w)
  BY <1>1, <1>3, QuietDropped
<1>4. CASE Top(w).pc = "verify.refused" /\ Settles(w, Top(w))
  <2>1. Top(w).pc \in Reserving
    BY <1>4 DEF Reserving
  <2>2. HasGuess(Top(w)) /\ Top(w).kept \in BOOLEAN
    BY <1>1, <2>1, GuessAt DEF Proofs
  <2>3. CASE Top(w).kept
    BY <1>1, <1>4, <2>3, QuietReturned DEF Settles
  <2>4. CASE ~Top(w).kept
    BY <1>1, <1>4, <2>1, <2>2, <2>4, QuietSettled
  <2> QED
    BY <2>3, <2>4
<1> QED
  BY <1>2, <1>3, <1>4 DEF Fail

(* A reservation, made while the budget is open.                           *)
LEMMA ReserveCounted ==
  ASSUME IInv, GInv, NEW w \in Worker, VerifyReserve(w), UNCHANGED <<load, now>>
  PROVE  GInv'
<1> DEFINE t == Top(w)
           next == Counted(lockout, load.policy, now)
           f == [t EXCEPT !.pc = "verify.spend", !.at = NextAt(lockout, now), !.since = now]
<1>1. ~Idle(w) /\ TaskFine /\ t.pc = "verify.reserve" /\ load \in Loads
  BY FrameHas DEF VerifyReserve, IInv
<1>2. CASE Return(w) /\ UNCHANGED <<lockout, permit, granted, wrong>>
  BY <1>1, <1>2, QuietReturned, AsideStep DEF lockVars
<1>3. CASE /\ Open(lockout, load.policy, now) /\ lockout' = next /\ Become(w, <<f>>)
           /\ UNCHANGED <<permit, granted, wrong>>
  <2>1. LockFine /\ Guesses /\ Fields(lockout) /\ now \in Nat /\ lockout.named \in Nat
    BY DEF GInv, LockFine, Fields
  <2>2. PICK at : at = NextAt(lockout, now)
    OBVIOUS
  <2>3. at \in Nat /\ lockout.named < at /\ now <= at
    BY <2>1, <2>2 DEF NextAt, Greater
  <2>4. PICK was : was = Younger(lockout)
    OBVIOUS
  <2>5. /\ Fields(lockout') /\ lockout'.spent = was \cup {at} /\ lockout'.named = at
        /\ lockout'.used = lockout.used
    BY <1>3, <2>1, <2>2, <2>4, CountedFine
  <2>6. was \subseteq lockout.spent /\ \A a \in lockout.spent : a \in was \/ a <= now - load.policy.window
    <3>1. load.policy.window \in Nat /\ lockout.spent \subseteq Nat
      BY <1>1, <2>1, PolicyFine DEF LockFine
    <3> QED
      BY <2>1, <2>4, <3>1 DEF Younger
  <2>7. IsFiniteSet(was) /\ Cardinality(was) \in Nat
    BY <2>1, <2>6, FS_Subset, FS_CardinalityType DEF LockFine
  <2>8. Cardinality(was) < load.policy.budget
    <3>1. Aged(lockout, load.policy, now).spent = was
      BY <2>1, <2>4, AgedFine
    <3>2. ~(Cardinality(was) >= load.policy.budget)
      BY <1>3, <3>1 DEF Open, Held
    <3> QED
      BY <1>1, <2>7, <3>2, PolicyFine
  <2>9. LockFine'
    <3>1. IsFiniteSet(lockout'.spent) /\ lockout'.spent \subseteq Nat \ {0}
      BY <2>1, <2>3, <2>5, <2>6, <2>7, FS_AddElement DEF LockFine
    <3>2. \A g \in wrong' : g[1] \in Nat /\ g[1] <= lockout'.named
      BY <1>3, <2>1, <2>3, <2>5 DEF LockFine
    <3> QED
      BY <1>3, <2>1, <2>3, <2>5, <3>1, <3>2 DEF LockFine, Fields
  <2>10. PICK old, new : Split(old, new) /\ Covers(old \cup new)
    BY DEF GInv, BudgetsFine
  <2>11. PICK one, all : one = <<at, now>> /\ all = new \cup {one}
    OBVIOUS
  <2>12. Split(old, all)'
    BY <1>1, <1>3, <2>1, <2>3, <2>5, <2>6, <2>8, <2>9, <2>10, <2>11, SplitReserved
  <2>13. task'[w] = <<f>> /\ Others(w)
    BY <1>1, <1>3, Became
  <2>14. HasGuess(t) /\ t.kept \in BOOLEAN /\ ~t.kept
    BY <1>1, <2>1, GuessAt DEF Proofs
  <2>15. /\ f.pc = "verify.spend" /\ f.at = at /\ f.since = now /\ HasGuess(f)
         /\ f.kept = t.kept
    BY <2>2, <2>14 DEF HasGuess
  <2>16. PICK h : h = f
    OBVIOUS
  <2>17. /\ task'[w] = <<h>> /\ h.pc = "verify.spend" /\ h.at = at /\ h.since = now /\ HasGuess(h)
         /\ h.kept \in BOOLEAN /\ ~h.kept
    BY <2>13, <2>14, <2>15, <2>16
  <2>18. Covers(old \cup all)'
    <3>1. \A g \in old \cup new : g \in old \cup all
      BY <2>11
    <3>2. <<h.at, h.since>> \in old \cup all
      BY <2>11, <2>17
    <3> QED
      BY <2>1, <2>10, <2>13, <2>17, <3>1, <3>2, CoversKept
  <2>19. Guess(h)'
    <3>1. h.kept \in BOOLEAN /\ ~h.kept
      BY <2>17
    <3>2. h.at <= lockout'.named /\ \A g \in wrong' : g[1] # h.at
      BY <1>3, <2>1, <2>3, <2>5, <2>17 DEF LockFine
    <3>3. h.pc \notin Releases
      BY <2>17 DEF Releases, Permitted
    <3> QED
      BY <2>3, <2>17, <3>1, <3>2, <3>3 DEF Guess, HasGuess
  <2>20. Turned(w)
    BY <2>3, <2>13, <2>19, <2>17 DEF Turned
  <2>21. Guesses'
    <3>1. lockout.named <= lockout'.named
      BY <2>1, <2>3, <2>5
    <3> QED
      BY <1>3, <2>1, <2>9, <2>20, <3>1, TurnedGuesses
  <2> QED
    BY <2>9, <2>12, <2>18, <2>21 DEF GInv, BudgetsFine
<1> QED
  BY <1>2, <1>3 DEF VerifyReserve

(* A proof judged: a wrong guess is one of those counted so far.           *)
LEMMA ReadCounted ==
  ASSUME IInv, GInv, NEW w \in Worker, ProveRead(w), UNCHANGED <<load, now>>
  PROVE  GInv'
<1> DEFINE t == Top(w)
           u == [t EXCEPT !.kept = TRUE]
<1>1. ~Idle(w) /\ TaskFine /\ t.pc = "prove.read" /\ load \in Loads /\ "pc" \in DOMAIN t
  BY FrameHas DEF ProveRead, IInv
<1>2. LockFine /\ Guesses
  BY DEF GInv
<1>3. t.pc \in Reserving /\ HasGuess(t) /\ t.at \in Nat /\ t.kept \in BOOLEAN /\ ~t.kept
  BY <1>1, <1>2, GuessAt DEF Proofs, Reserving, Judging
<1>4. lockout' = lockout /\ permit' = permit /\ granted' = granted
  BY DEF ProveRead
<1>5. CASE Refuses(w, t) /\ wrong' = wrong
  <2>1. Quietly(w)
    BY <1>1, <1>2, <1>3, <1>5, QuietSettled
  <2> QED
    BY <1>1, <1>4, <1>5, <2>1, AsideStep DEF lockVars
<1>6. ASSUME NEW read, Become(w, <<[t EXCEPT !.pc = "prove.decide", !.read = read]>>), wrong' = wrong
      PROVE  GInv'
  <2>1. Carried(w, [t EXCEPT !.pc = "prove.decide", !.read = read])
    BY <1>1, <1>3 DEF Carried, HasGuess, Reserving, Judging
  <2>2. Quietly(w)
    BY <1>1, <1>6, <2>1, QuietBecame
  <2> QED
    BY <1>1, <1>4, <1>6, <2>2, AsideStep DEF lockVars
<1>7. CASE Refuses(w, u) /\ wrong' = wrong \cup {g \in {<<t.at, t.since>>} : t.at > 0}
  <2>1. PICK old, new : Split(old, new) /\ Covers(old \cup new)
    BY DEF GInv, BudgetsFine
  <2>2. wrong' \subseteq old \cup new
    BY <1>1, <1>7, <2>1 DEF Split, Covers, Judging
  <2>3. \A g \in wrong' : g \in wrong \/ (Holding(t) /\ g[1] = t.at)
    <3>1. <<t.at, t.since>>[1] = t.at
      OBVIOUS
    <3> QED
      BY <1>3, <1>7, <3>1 DEF Holding
  <2>4. t.at > 0 => t.at <= lockout.named
    BY <1>1, <1>2, <1>3 DEF Guesses, Guess, Holding
  <2>5. LockFine'
    <3>1. \A g \in wrong' : g[1] \in Nat /\ g[1] <= lockout.named
      BY <1>2, <1>3, <2>3, <2>4 DEF LockFine, Holding
    <3> QED
      BY <1>2, <1>4, <3>1 DEF LockFine
  <2>6. Split(old, new)'
    <3>1. lockout.named <= lockout'.named /\ now <= now'
      BY <1>2, <1>4 DEF LockFine
    <3> QED
      BY <1>1, <1>2, <1>4, <2>1, <2>2, <2>5, <3>1, SplitKept
  <2>7. Others(w) /\ (task'[w] = <<>> \/ \E f : task'[w] = <<f>> /\ f.pc = "verify.refused" /\ HasGuess(f)
                                                 /\ f.at = t.at /\ f.kept = TRUE)
    <3>1. u.kept = TRUE /\ u.at = t.at /\ HasGuess(u)
      BY <1>3 DEF HasGuess
    <3>2. CASE Return(w)
      BY <1>1, <3>2, Returned
    <3>3. CASE Become(w, <<[u EXCEPT !.pc = "verify.refused"]>>)
      <4>1. LET f == [u EXCEPT !.pc = "verify.refused"]
            IN  f.pc = "verify.refused" /\ HasGuess(f) /\ f.at = t.at /\ f.kept = TRUE
        BY <3>1 DEF HasGuess
      <4> QED
        BY <1>1, <3>3, <4>1, Became
    <3>4. Return(w) \/ Become(w, <<[u EXCEPT !.pc = "verify.refused"]>>)
      <4> HIDE DEF u
      <4> QED
        BY <1>7, <3>1 DEF Refuses, Settles
    <3> QED
      BY <3>2, <3>3, <3>4
  <2>8. Covers(old \cup new)'
    BY <1>2, <2>1, <2>7, CoversKept DEF Judging
  <2>9. Turned(w)
    <3>1. ASSUME NEW f, f.pc = "verify.refused", HasGuess(f), f.at = t.at, f.kept = TRUE
          PROVE  Guess(f)' /\ (Holding(f) => Carries(w, f))
      <4>1. f.at \in Nat /\ f.kept \in BOOLEAN /\ f.kept /\ f.pc \in Reserving /\ f.pc \notin Releases
        BY <1>3, <3>1 DEF Reserving, Releases, Permitted
      <4>2. Holding(f) => f.at <= lockout'.named
        BY <1>4, <2>4, <3>1 DEF Holding
      <4>3. Guess(f)'
        BY <3>1, <4>1, <4>2 DEF Guess, HasGuess, Holding
      <4>4. Holding(f) => Carries(w, f)
        BY <1>1, <1>3, <3>1 DEF Holding, Carries
      <4> QED
        BY <4>3, <4>4
    <3> QED
      BY <2>7, <3>1 DEF Turned
  <2>10. Guesses'
    <3>1. lockout.named <= lockout'.named
      BY <1>2, <1>4 DEF LockFine
    <3> QED
      BY <1>1, <1>2, <1>4, <2>3, <2>5, <2>9, <3>1, TurnedGuesses
  <2> QED
    BY <2>5, <2>6, <2>8, <2>10 DEF GInv, BudgetsFine
<1> QED
  BY <1>5, <1>6, <1>7 DEF ProveRead

LEMMA HandingBack ==
  ASSUME IInv, GInv, NEW w \in Worker, ~Idle(w), Top(w).pc \in {"verify.succeed", "verify.abandon"},
         NEW success \in BOOLEAN, lockout' = HandedBack(lockout, load.policy, now, Top(w).at, success),
         UNCHANGED <<load, now, permit, granted, wrong>>,
         Return(w) \/ To(w, "permit.grant")
  PROVE  GInv'
<1> DEFINE t == Top(w)
<1>1. /\ load \in Loads /\ LockFine /\ Guesses /\ TaskFine /\ Fields(lockout)
      /\ load.policy.window \in Nat
  BY PolicyFine DEF IInv, GInv, LockFine, Fields
<1>2. t.pc \in Reserving /\ t.pc # "verify.refused" /\ "pc" \in DOMAIN t
  BY TopFine DEF Reserving, IInv, FrameFine
<1>3. HasGuess(t) /\ t.at \in Nat /\ t.kept \in BOOLEAN /\ ~t.kept
  BY <1>1, <1>2, GuessAt DEF Proofs
<1>4. PICK at : at = t.at
  OBVIOUS
<1>5. /\ Fields(lockout') /\ lockout'.named = lockout.named /\ lockout'.used = lockout.used
      /\ lockout'.spent = lockout.spent \/ lockout'.spent = Younger(lockout) \ {at}
  BY <1>1, <1>4, HandedBackFine
<1>6. /\ lockout'.spent \subseteq lockout.spent
      /\ \A a \in lockout.spent : a \in lockout'.spent \/ a <= now - load.policy.window \/ a = at
  BY <1>1, <1>5 DEF Younger, LockFine
<1>7. LockFine'
  <2>1. lockout'.spent \in SUBSET lockout.spent /\ IsFiniteSet(lockout.spent)
    BY <1>1, <1>6 DEF LockFine
  <2>2. IsFiniteSet(lockout'.spent)
    BY <2>1, FS_Subset
  <2> QED
    BY <1>1, <1>5, <2>1, <2>2 DEF LockFine, Fields
<1>8. Others(w) /\ (task'[w] = <<>> \/ \E f : task'[w] = <<f>> /\ Plain(f))
  <2>1. Plain([t EXCEPT !.pc = "permit.grant"])
    BY <1>2 DEF Plain, Proofs, Reserving, Judging, Releases, Permitted
  <2>2. CASE Return(w)
    BY <1>1, <2>2, Returned
  <2>3. CASE Become(w, <<[t EXCEPT !.pc = "permit.grant"]>>)
    BY <1>1, <2>1, <2>3, Became
  <2> QED
    BY <2>2, <2>3 DEF To
<1>9. Quietly(w)
  BY <1>8 DEF Quietly
<1> QED
  BY <1>1, <1>2, <1>3, <1>4, <1>5, <1>6, <1>7, <1>8, <1>9, HandBackStep

LEMMA VerifyCounted ==
  ASSUME IInv, GInv, NEW w \in Worker, VerifyStep(w), UNCHANGED load
  PROVE  GInv'
<1> DEFINE t == Top(w)
<1>1. load \in Loads /\ LockFine /\ Guesses /\ TaskFine /\ now' = now
  BY DEF IInv, GInv, VerifyStep
<1>2. ASSUME NEW pc \in Reserving \ {"verify.refused"}, Doing(w, pc)
      PROVE  /\ ~Idle(w) /\ t.pc = pc /\ t.pc \in Reserving
             /\ HasGuess(t) /\ t.kept \in BOOLEAN /\ ~t.kept
  <2>1. ~Idle(w) /\ t.pc = pc
    BY <1>2 DEF Doing
  <2> QED
    BY <1>1, <1>2, <2>1, GuessAt DEF Proofs
<1>3. CASE VerifyReserve(w)
  BY <1>1, <1>3, ReserveCounted
<1>4. CASE VerifySpend(w)
  <2>1. /\ ~Idle(w) /\ t.pc = "verify.spend" /\ t.pc \in Reserving
        /\ HasGuess(t) /\ t.kept \in BOOLEAN /\ ~t.kept
    BY <1>2, <1>4 DEF VerifySpend, Reserving, Judging
  <2>2. Carried(w, [t EXCEPT !.pc = "prove.read", !.left = attempts[t.x] - 1])
    BY <2>1 DEF Carried, HasGuess, Reserving, Judging
  <2>3. Quietly(w)
    BY <1>1, <1>4, <2>1, <2>2, QuietBecame, QuietSettled DEF VerifySpend
  <2> QED
    BY <1>1, <1>4, <2>3, AsideStep DEF VerifySpend
<1>5. CASE ProveRead(w)
  BY <1>1, <1>5, ReadCounted
<1>6. CASE ProveDecide(w)
  <2> DEFINE u == [t EXCEPT !.read = {}]
  <2>1. /\ ~Idle(w) /\ t.pc = "prove.decide" /\ t.pc \in Reserving
        /\ HasGuess(t) /\ t.kept \in BOOLEAN /\ ~t.kept
    BY <1>2, <1>6 DEF ProveDecide, Reserving
  <2>2. HasGuess(u) /\ u.at = t.at /\ u.since = t.since /\ u.kept = t.kept /\ u.pc = t.pc
    BY <2>1 DEF HasGuess
  <2>3. Carried(w, [u EXCEPT !.pc = "verify.take"])
    BY <2>1, <2>2 DEF Carried, HasGuess, Reserving, Judging
  <2>4. Become(w, <<[u EXCEPT !.pc = "verify.take"]>>) \/ Refuses(w, u) \/ Throw(w)
    BY <1>6 DEF ProveDecide
  <2> HIDE DEF u
  <2>5. Quietly(w)
    BY <1>1, <2>1, <2>2, <2>3, <2>4, QuietBecame, QuietSettled, QuietThrown
  <2> QED
    BY <1>1, <1>6, <2>5, AsideStep DEF ProveDecide
<1>7. CASE VerifyRefused(w)
  <2>1. ~Idle(w) /\ t.pc = "verify.refused" /\ t.pc \in Reserving
    BY <1>7 DEF VerifyRefused, Doing, Reserving
  <2>2. HasGuess(t) /\ t.kept \in BOOLEAN
    BY <1>1, <2>1, GuessAt DEF Proofs
  <2>3. CASE t.kept
    <3>1. Quietly(w)
      BY <1>1, <1>7, <2>1, <2>3, QuietReturned DEF VerifyRefused, Settles
    <3> QED
      BY <1>1, <1>7, <3>1, AsideStep DEF VerifyRefused
  <2>4. CASE ~t.kept
    <3>1. Quietly(w)
      BY <1>1, <1>7, <2>1, <2>2, <2>4, QuietSettled DEF VerifyRefused
    <3> QED
      BY <1>1, <1>7, <3>1, AsideStep DEF VerifyRefused
  <2> QED
    BY <2>3, <2>4
<1>8. CASE VerifyTake(w)
  <2>1. /\ ~Idle(w) /\ t.pc = "verify.take" /\ t.pc \in Reserving
        /\ HasGuess(t) /\ t.kept \in BOOLEAN /\ ~t.kept
    BY <1>2, <1>8 DEF VerifyTake, Reserving
  <2>2. Carried(w, [t EXCEPT !.pc = "verify.succeed"])
    BY <2>1 DEF Carried, HasGuess, Reserving, Judging
  <2>3. Quietly(w)
    BY <1>1, <1>8, <2>1, <2>2, QuietBecame, QuietSettled DEF VerifyTake, To
  <2> QED
    BY <1>1, <1>8, <2>3, AsideStep DEF VerifyTake
<1>9. CASE VerifySucceed(w)
  BY <1>1, <1>9, HandingBack DEF VerifySucceed, Doing
<1>10. CASE VerifyAbandon(w)
  BY <1>1, <1>10, HandingBack DEF VerifyAbandon, Doing
<1>11. CASE VerifyGiveBack(w)
  <2> DEFINE u == [t EXCEPT !.read = {}]
  <2>1. /\ ~Idle(w) /\ t.pc = "verify.giveback" /\ t.pc \in Reserving
        /\ HasGuess(t) /\ t.kept \in BOOLEAN /\ ~t.kept
    BY <1>2, <1>11 DEF VerifyGiveBack, Reserving
  <2>2. HasGuess(u) /\ u.at = t.at /\ u.since = t.since /\ u.kept = t.kept
    BY <2>1 DEF HasGuess
  <2>3. Settles(w, u)
    BY <1>11 DEF VerifyGiveBack
  <2> HIDE DEF u
  <2>4. Quietly(w)
    BY <1>1, <2>1, <2>2, <2>3, QuietSettled
  <2> QED
    BY <1>1, <1>11, <2>4, AsideStep DEF VerifyGiveBack
<1>12. CASE PermitGrant(w)
  <2>1. ~Idle(w)
    BY <1>12 DEF PermitGrant, Doing
  <2>2. Quietly(w)
    BY <1>1, <1>12, <2>1, QuietReturned DEF PermitGrant
  <2>3. PICK s \in Session : /\ permit' = [permit EXCEPT ![s] = [at |-> now, used |-> FALSE]]
                             /\ granted' = granted \cup {<<s, now>>}
    BY <1>12 DEF PermitGrant
  <2>4. lockout' = lockout /\ wrong' = wrong
    BY <1>12 DEF PermitGrant
  <2>5. LockFine'
    <3>1. IsFiniteSet(granted')
      BY <1>1, <2>3, FS_AddElement DEF LockFine
    <3>2. permit' \in [Session -> [at : Nat, used : BOOLEAN]]
      BY <1>1, <2>3 DEF LockFine
    <3>3. \A q \in Session : permit'[q] # NoPermit => <<q, permit'[q].at>> \in granted'
      BY <1>1, <2>3 DEF LockFine
    <3>4. granted' \subseteq Session \X Nat
      BY <1>1, <2>3 DEF LockFine
    <3> QED
      BY <1>1, <2>3, <2>4, <3>1, <3>2, <3>3, <3>4 DEF LockFine
  <2> QED
    BY <1>1, <2>2, <2>3, <2>5, <2>4, QuietStep DEF LockFine
<1> QED
  BY <1>3, <1>4, <1>5, <1>6, <1>7, <1>8, <1>9, <1>10, <1>11, <1>12 DEF VerifyStep

(* A release that forgives is applied once for each permit granted.        *)
LEMMA ReleaseUnderCounted ==
  ASSUME IInv, GInv, NEW w \in Worker, ReleaseUnder(w), UNCHANGED <<load, now>>
  PROVE  GInv'
<1> DEFINE t == Top(w)
<1>1. /\ load \in Loads /\ LockFine /\ Guesses /\ TaskFine /\ Fields(lockout)
      /\ load.policy.window \in Nat
  BY PolicyFine DEF IInv, GInv, LockFine, Fields
<1>2. ~Idle(w) /\ t.pc = "release.under" /\ "pc" \in DOMAIN t
  BY FrameHas DEF ReleaseUnder
<1>3. PICK id : id = t.id
  OBVIOUS
<1>4. id \in granted /\ "id" \in DOMAIN t /\ t.id[1] \in Session
  BY <1>1, <1>2, <1>3 DEF Guesses, Guess, Releases, Permitted
<1>5. PICK stood : stood = t.stood
  OBVIOUS
<1>6. PICK forgive \in BOOLEAN, lift \in BOOLEAN :
        lockout' = Released(lockout, load.policy, now, id, forgive, lift, stood)
  BY <1>3, <1>5 DEF ReleaseUnder
<1>7. permit' = permit /\ granted' = granted /\ wrong' = wrong
  BY DEF ReleaseUnder
<1>8. /\ Fields(lockout') /\ lockout'.named = lockout.named
      /\ \/ lockout' = lockout
         \/ /\ id \notin lockout.used /\ lockout'.used = lockout.used \cup {id}
            /\ lockout'.spent \in {Younger(lockout), {}}
  BY <1>1, <1>6, ReleasedFine
<1>9. Quietly(w)
  <2>1. Permits([t EXCEPT !.pc = "release.use"])
    BY <1>2, <1>3, <1>4 DEF Permits, Releases, Permitted
  <2>2. To(w, "release.use") \/ Return(w)
    BY DEF ReleaseUnder
  <2> QED
    BY <1>1, <1>2, <2>1, <2>2, QuietBecame, QuietReturned DEF To
<1>10. LockFine'
  <2>1. lockout'.spent \in SUBSET lockout.spent
    BY <1>8 DEF Younger
  <2>2. IsFiniteSet(lockout'.spent)
    BY <1>1, <2>1, FS_Subset DEF LockFine
  <2>3. lockout'.used \subseteq granted
    BY <1>1, <1>4, <1>8 DEF LockFine
  <2> QED
    BY <1>1, <1>7, <1>8, <2>1, <2>2, <2>3 DEF LockFine, Fields
<1>11. CASE lockout' = lockout
  BY <1>1, <1>7, <1>9, <1>11, AsideStep DEF lockVars
<1>12. CASE lockout'.used = lockout.used \cup {id} /\ lockout'.spent = Younger(lockout)
  <2>1. \A a \in lockout.spent : a \in lockout'.spent \/ a <= now' - load.policy.window
    BY <1>1, <1>12 DEF Younger, LockFine
  <2>2. now <= now'
    BY <1>1 DEF LockFine
  <2> QED
    BY <1>1, <1>7, <1>8, <1>9, <1>10, <1>12, <2>1, <2>2, QuietStep
<1>13. CASE id \notin lockout.used /\ lockout'.used = lockout.used \cup {id}
  <2>1. PICK old, new : Split(old, new) /\ Covers(old \cup new)
    BY DEF GInv, BudgetsFine
  <2>2. Split(old \cup new, {})'
    BY <1>1, <1>7, <1>10, <1>13, <2>1, SplitForgiven
  <2>3. Covers(old \cup new)'
    BY <1>1, <1>9, <2>1, QuietlyCovers
  <2>4. Covers((old \cup new) \cup {})'
    <3>1. (old \cup new) \cup {} = old \cup new
      OBVIOUS
    <3> QED
      BY <2>3, <3>1
  <2>5. Guesses'
    <3>1. Turned(w)
      BY <1>1, <1>7, <1>8, <1>9, QuietlyTurned
    <3>2. lockout.named <= lockout'.named
      BY <1>1, <1>8 DEF LockFine
    <3> QED
      BY <1>1, <1>7, <1>10, <3>1, <3>2, TurnedGuesses
  <2> QED
    BY <1>10, <2>2, <2>4, <2>5 DEF GInv, BudgetsFine
<1> QED
  BY <1>8, <1>11, <1>12, <1>13

LEMMA ReleaseCounted ==
  ASSUME IInv, GInv, NEW w \in Worker, ReleaseStep(w), UNCHANGED load
  PROVE  GInv'
<1> DEFINE t == Top(w)
<1>1. load \in Loads /\ LockFine /\ Guesses /\ TaskFine /\ now' = now
  BY DEF IInv, GInv, ReleaseStep
<1>2. ~Idle(w) /\ "pc" \in DOMAIN t
  BY FrameHas DEF ReleaseStep, ReleasePermit, ReleaseStanding, ReleaseUnder, ReleaseUse
<1>3. t.pc \in Releases =>
        "id" \in DOMAIN t /\ t.id[1] \in Session /\ (t.pc \in Permitted => t.id \in granted)
  BY <1>1, <1>2 DEF Guesses, Guess
<1>4. CASE ReleasePermit(w)
  <2>1. t.pc = "release.permit" /\ "id" \in DOMAIN t /\ t.id[1] \in Session
    BY <1>3, <1>4 DEF ReleasePermit, Doing, Releases
  <2>2. PICK s \in Session : s = t.id[1]
    BY <2>1
  <2>3. permit[s] # NoPermit => <<s, permit[s].at>> \in granted
    BY <1>1 DEF LockFine
  <2>4. permit[s] # NoPermit => Permits([t EXCEPT !.pc = "release.standing", !.id = <<s, permit[s].at>>])
    BY <1>2, <2>1, <2>3 DEF Permits, Releases, Permitted
  <2>5. Quietly(w)
    <3>1. CASE Return(w)
      BY <1>1, <1>2, <3>1, QuietReturned
    <3>2. CASE permit[s] # NoPermit
               /\ Become(w, <<[t EXCEPT !.pc = "release.standing", !.id = <<s, permit[s].at>>]>>)
      BY <1>1, <1>2, <2>4, <3>2, QuietBecame
    <3> QED
      BY <1>4, <2>2, <3>1, <3>2 DEF ReleasePermit
  <2> QED
    BY <1>1, <1>4, <2>5, AsideStep DEF ReleasePermit
<1>5. CASE ReleaseStanding(w)
  <2>1. t.pc = "release.standing" /\ "id" \in DOMAIN t /\ t.id[1] \in Session /\ t.id \in granted
    BY <1>3, <1>5 DEF ReleaseStanding, Doing, Releases, Permitted
  <2>2. Permits([t EXCEPT !.pc = "release.under", !.stood = StandingOf(lockout, load.policy, now)])
    BY <1>2, <2>1 DEF Permits, Releases, Permitted
  <2>3. Quietly(w)
    BY <1>1, <1>2, <1>5, <2>2, QuietBecame DEF ReleaseStanding
  <2> QED
    BY <1>1, <1>5, <2>3, AsideStep DEF ReleaseStanding
<1>6. CASE ReleaseUnder(w)
  BY <1>1, <1>6, ReleaseUnderCounted
<1>7. CASE ReleaseUse(w)
  <2>1. t.pc = "release.use" /\ t.id[1] \in Session
    BY <1>3, <1>7 DEF ReleaseUse, Doing, Releases, Permitted
  <2>2. Quietly(w)
    BY <1>1, <1>2, <1>7, QuietReturned DEF ReleaseUse
  <2>3. /\ lockout' = lockout /\ wrong' = wrong /\ granted' = granted
    BY <1>7 DEF ReleaseUse
  <2>4. PICK s \in Session : s = t.id[1]
    BY <2>1
  <2>5. \/ permit' = permit
        \/ permit' = [permit EXCEPT ![s].used = TRUE] /\ permit[s].at = t.id[2]
    BY <1>7, <2>4 DEF ReleaseUse
  <2>6. permit' \in [Session -> [at : Nat, used : BOOLEAN]] /\ \A q \in Session : permit'[q].at = permit[q].at
    BY <1>1, <2>5 DEF LockFine
  <2>7. permit' = permit \/ t.id \in granted
    BY <1>3, <1>7 DEF ReleaseUse, Doing, Releases, Permitted
  <2>8. \A q \in Session : permit'[q] # NoPermit => <<q, permit'[q].at>> \in granted'
    <3>1. \A q \in Session : permit[q] # NoPermit => <<q, permit[q].at>> \in granted
      BY <1>1 DEF LockFine
    <3>2. CASE permit' = permit
      BY <2>3, <3>1, <3>2
    <3>3. CASE permit' # permit
      <4>1. t.id = <<s, permit[s].at>> /\ t.id \in granted
        BY <1>1, <2>4, <2>5, <2>7, <3>3 DEF LockFine
      <4>2. \A q \in Session \ {s} : permit'[q] = permit[q]
        BY <1>1, <2>5 DEF LockFine
      <4> QED
        BY <2>3, <2>6, <3>1, <4>1, <4>2
    <3> QED
      BY <3>2, <3>3
  <2>9. LockFine'
    BY <1>1, <2>3, <2>6, <2>8 DEF LockFine
  <2>10. now <= now'
    BY <1>1 DEF LockFine
  <2>11. load.policy.window \in Nat
    BY <1>1, PolicyFine
  <2> QED
    BY <1>1, <2>2, <2>3, <2>9, <2>10, QuietStep
<1> QED
  BY <1>4, <1>5, <1>6, <1>7 DEF ReleaseStep

LEMMA TickCounted ==
  ASSUME IInv, GInv, Tick, UNCHANGED load
  PROVE  GInv'
<1>1. /\ load \in Loads /\ load' = load /\ LockFine /\ now' = now + 1 /\ now <= now' /\ now' \in Nat
      /\ UNCHANGED <<task, lockVars>>
  BY DEF IInv, GInv, LockFine, Tick
<1>2. lockout' = lockout /\ granted' = granted /\ wrong' = wrong /\ permit' = permit
  BY <1>1 DEF lockVars
<1>3. LockFine'
  BY <1>1, SameLock
<1>4. PICK old, new : Split(old, new) /\ Covers(old \cup new)
  BY DEF GInv, BudgetsFine
<1>5. wrong' \subseteq old \cup new
  BY <1>2, <1>4 DEF Split
<1>6. lockout.named <= lockout'.named
  BY <1>1, <1>2 DEF LockFine
<1>7. Split(old, new)'
  BY <1>1, <1>2, <1>3, <1>4, <1>5, <1>6, SplitKept
<1>8. Covers(old \cup new)' /\ Guesses'
  BY <1>1, <1>2, <1>4 DEF Covers, GInv, Guesses, Guess, Holding, Idle, Top
<1> QED
  BY <1>3, <1>7, <1>8 DEF GInv, BudgetsFine

LEMMA InitCounted == Init => GInv
<1> SUFFICES ASSUME Init PROVE GInv
  OBVIOUS
<1>1. \A w \in Worker : Idle(w)
  BY DEF Init, Idle
<1>2. /\ load \in Loads /\ lockout = NoLockout /\ now = 1 /\ granted = {} /\ wrong = {}
      /\ permit = [s \in Session |-> NoPermit]
  BY DEF Init
<1>3. load.policy.budget \in Nat
  BY <1>2, PolicyFine
<1>4. LockFine
  <2>1. /\ {"spent", "named", "used"} \subseteq DOMAIN NoLockout
        /\ NoLockout.spent = {} /\ NoLockout.named = 0 /\ NoLockout.used = {}
    BY DEF NoLockout
  <2>2. NoPermit \in [at : Nat, used : BOOLEAN]
    BY DEF NoPermit
  <2> QED
    BY <1>2, <2>1, <2>2, FS_EmptySet DEF LockFine
<1>5. Guesses
  BY <1>1 DEF Guesses
<1>6. Split({}, {})
  <2>1. \A end \in Nat : Window({}, end) = {}
    BY DEF Window
  <2>2. Cardinality({}) = 0 /\ IsFiniteSet({})
    BY FS_EmptySet
  <2>3. lockout.used = {}
    BY <1>2 DEF NoLockout
  <2>4. load.policy.budget * Cardinality(lockout.used) = 0
    BY <1>3, <2>2, <2>3
  <2>5. \A end \in Nat : /\ Cardinality(Window({}, end)) <= load.policy.budget * Cardinality(lockout.used)
                         /\ Cardinality(Window({}, end)) <= load.policy.budget
    BY <1>3, <2>1, <2>2, <2>4
  <2>6. wrong \subseteq {} \cup {}
    BY <1>2
  <2> QED
    BY <2>2, <2>5, <2>6 DEF Split
<1>7. Covers({} \cup {})
  BY <1>1 DEF Covers
<1> QED
  BY <1>4, <1>5, <1>6, <1>7 DEF GInv, BudgetsFine

LEMMA StepCounted == IInv /\ GInv /\ [Next]_vars => GInv'
<1> SUFFICES ASSUME IInv, GInv, [Next]_vars PROVE GInv'
  OBVIOUS
<1>1. CASE UNCHANGED vars
  <2>1. task' = task /\ load' = load /\ now' = now /\ UNCHANGED lockVars
    BY <1>1 DEF vars
  <2>2. lockout' = lockout /\ permit' = permit /\ granted' = granted /\ wrong' = wrong
    BY <2>1 DEF lockVars
  <2>3. LockFine' /\ Guesses'
    BY <2>1, <2>2 DEF GInv, LockFine, Guesses, Guess, Holding, Idle, Top
  <2>4. PICK old, new : Split(old, new) /\ Covers(old \cup new)
    BY DEF GInv, BudgetsFine
  <2>5. Split(old, new)' /\ Covers(old \cup new)'
    BY <2>1, <2>2, <2>4 DEF Split, Recent, Window, Covers, Idle, Top
  <2> QED
    BY <2>3, <2>5 DEF GInv, BudgetsFine
<1>2. load \in Loads /\ Guesses
  BY DEF IInv, GInv
<1>3. ASSUME NEW w \in Worker, KeepingStep(w), UNCHANGED load
      PROVE  GInv'
  <2>1. Quietly(w)
    BY <1>3, KeepingQuiet
  <2> QED
    BY <1>2, <1>3, <2>1, AsideStep DEF KeepingStep
<1>4. ASSUME NEW w \in Worker, Begin(w), UNCHANGED load
      PROVE  GInv'
  <2>1. Quietly(w)
    BY <1>4, BeginQuiet
  <2> QED
    BY <1>2, <1>4, <2>1, AsideStep DEF Begin
<1>5. ASSUME NEW w \in Worker, Fail(w), UNCHANGED load
      PROVE  GInv'
  <2>1. Quietly(w)
    BY <1>2, <1>5, FailQuiet
  <2> QED
    BY <1>2, <1>5, <2>1, AsideStep DEF Fail
<1> QED
  BY <1>1, <1>3, <1>4, <1>5, VerifyCounted, ReleaseCounted, TickCounted DEF Next

(* Of the guesses made in any window of the budget no more are wrong than  *)
(* the budget allows, and as many again for each permit granted (verify.ts *)
(* "racing guesses cannot pass either limit"), for any number of guesses,  *)
(* successes, calls that fail or stop, and releases at once.               *)
THEOREM WrongGuessesBounded == Spec => []GuessesBounded
<1>1. IInv /\ GInv => GuessesBounded
  BY GuessesCounted DEF IInv
<1>2. IInv /\ GInv /\ [Next]_vars => (IInv /\ GInv)'
  BY StepIInv, StepCounted
<1>3. Init => IInv /\ GInv
  BY InitIInv, InitCounted
<1> QED
  BY <1>1, <1>2, <1>3, PTL DEF Spec
=============================================================================
