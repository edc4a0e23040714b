-------------------------- MODULE EnforcementProofs --------------------------
(***************************************************************************)
(* Proofs about the synthesis (Supervisor) as an author's question runs it *)
(* (Enforcement): what a mechanism keeps is the largest set that can be    *)
(* kept, the closed loop stays in it, and the class that is reported, with *)
(* its trace, is right; and that it is true of the world, because the      *)
(* cells of the plant (Plant) lie side by side, what is in one is judged   *)
(* alike, and a field can drift to any of them.  For every set of plants   *)
(* and questions.                                                          *)
(*                                                                         *)
(* Induction over numbers is done on sets of numbers (SetInduction): the   *)
(* library's own induction theorems take a predicate.                      *)
(***************************************************************************)
EXTENDS Enforcement, FiniteSetTheorems, SequenceTheorems, WellFoundedInduction, TLAPS

-----------------------------------------------------------------------------
(* Natural numbers *)

LEMMA NatLess == IsWellFoundedOn({r \in Nat \X Nat : r[1] < r[2]}, Nat)
BY NatLessThanWellFounded DEF OpToRel

\* A set of numbers that is not empty has a least one.
LEMMA LeastNumber ==
    ASSUME NEW T \in SUBSET Nat, T # {}
    PROVE  \E n \in T : \A k \in T : n <= k
<1> DEFINE R == {r \in Nat \X Nat : r[1] < r[2]}
<1>1. IsWellFoundedOn(R, Nat)  BY NatLess
<1>2. PICK n \in T : \A k \in T : <<k, n>> \notin R
  <2> HIDE DEF R
  <2> QED  BY <1>1, WFMin
<1>3. \A k \in T : ~(k < n)  BY <1>2
<1> QED  BY <1>3

\* A set of numbers with 0 and each successor holds them all.
LEMMA SetInduction ==
    ASSUME NEW S \in SUBSET Nat, 0 \in S, \A n \in S : n + 1 \in S
    PROVE  S = Nat
<1> DEFINE T == Nat \ S
<1> SUFFICES ASSUME T # {} PROVE FALSE
    OBVIOUS
<1>1. PICK n \in T : \A k \in T : n <= k
  <2> HIDE DEF T
  <2>1. T \in SUBSET Nat  BY DEF T
  <2> QED  BY <2>1, LeastNumber
<1>2. n \in Nat /\ n # 0  OBVIOUS
<1>3. n - 1 \in Nat /\ n - 1 + 1 = n  BY <1>2
<1>4. n - 1 \notin T  BY <1>1, <1>2, <1>3
<1> QED  BY <1>3, <1>4

-----------------------------------------------------------------------------
(* What a mechanism can keep *)

\* A pass that loses nothing has found a set that can be kept, and the other way round.
LEMMA KeptIffNothingLost ==
    ASSUME NEW p, NEW m \in Mechanisms, NEW S
    PROVE  Keeps(p, m, S) <=> Lost(p, m, S) = {}
<1>1. CASE m = "guard"
  <2>1. Lost(p, m, S) = { q \in S : Escapes(p, q, S) # {} }  BY <1>1 DEF Lost, Holds
  <2> QED  BY <1>1, <2>1 DEF Keeps, Controllable, Escapes
<1>2. CASE m = "forcing"
  <2>1. Lost(p, m, S) = { q \in S : Escapes(p, q, S) # {} /\ SafeForces(p, q, S) = {} }
    BY <1>2 DEF Lost, Holds
  <2>2. Keeps(p, m, S) <=> \A q \in S : Escapes(p, q, S) = {} \/ SafeForces(p, q, S) # {}
    BY <1>2 DEF Keeps, ForciblyControllable, Escapes, SafeForces
  <2> QED  BY <2>1, <2>2
<1> QED  BY <1>1, <1>2 DEF Mechanisms

\* What can be kept inside S survives the pass over S.
LEMMA PassSparesTheKept ==
    ASSUME NEW p, NEW m \in Mechanisms, NEW S, NEW T, T \subseteq S, Keeps(p, m, T)
    PROVE  T \subseteq S \ Lost(p, m, S)
<1> SUFFICES ASSUME NEW q \in T PROVE Holds(p, m, q, S)
    BY DEF Lost
<1>1. Holds(p, m, q, T)  BY KeptIffNothingLost DEF Lost
<1>2. Escapes(p, q, S) \subseteq Escapes(p, q, T)  BY DEF Escapes
<1>3. SafeForces(p, q, T) \subseteq SafeForces(p, q, S)  BY DEF SafeForces
<1> QED  BY <1>1, <1>2, <1>3 DEF Holds

-----------------------------------------------------------------------------
(* The synthesis *)

\* The states that m has removed so far.
Gone(m) ==
    plant.bad \cup (Legal(plant) \ (IF pc = m THEN Q ELSE IF Done(m) THEN good[m] ELSE Legal(plant)))

\* Why m has removed q: something that cannot be refused leads to a state that was
\* removed before.
Reason(m, q) ==
    \E d \in plant.delta :
        /\ d.from = q /\ d.event \notin plant.controllable
        /\ d.to \in Gone(m) /\ removed[m][d.to] < removed[m][q]

\* Nothing that can be kept is removed.
LargestInv ==
    pc \in Mechanisms =>
        \A S \in SUBSET Legal(plant) : Keeps(plant, pc, S) => S \subseteq Q

\* What is removed has a rank, and a reason unless it is forbidden to begin with.
RankInv ==
    pc # "not_computed" => \A m \in Mechanisms :
        /\ removed = [k \in Mechanisms |-> removed[k]]
        /\ removed[m] \in [Gone(m) -> Nat]
        /\ \A q \in Gone(m) : removed[m][q] = 0 <=> q \in plant.bad
        /\ pc = m => \A q \in Gone(m) : removed[m][q] <= passes
        /\ \A q \in Gone(m) \ plant.bad : Reason(m, q)

\* The closed loop is where its supervisor keeps it.
LoopInv == IF pc = "loop" THEN at \in good[under] ELSE at = plant.initial

IInv == TypeOK /\ LargestInv /\ GoodIsLargest /\ RankInv /\ LoopInv

LEMMA InitKept == ASSUME NEW p \in Plants, InitWith(p) PROVE IInv
<1> USE DEF InitWith
<1>1. IsPlant(p)  BY PlantAssumption
<1>2. TypeOK
  BY <1>1 DEF TypeOK, IsPlant, Mechanisms, Pending, Legal
<1>3. LargestInv  BY DEF LargestInv
<1>4. GoodIsLargest  BY DEF GoodIsLargest, Done, Mechanisms
<1>5. RankInv
  <2> SUFFICES ASSUME NEW m \in Mechanisms
               PROVE  Gone(m) = p.bad /\ removed[m] = [q \in p.bad |-> 0]
    BY DEF RankInv
  <2> QED  BY <1>1 DEF Gone, Done, Legal, Mechanisms, IsPlant
<1>6. LoopInv  BY DEF LoopInv
<1> QED  BY <1>2, <1>3, <1>4, <1>5, <1>6 DEF IInv

\* What is gone is made of states of the plant.
LEMMA GoneStates == ASSUME TypeOK, NEW m \in Mechanisms PROVE Gone(m) \subseteq plant.states
BY DEF TypeOK, IsPlant, Gone, Legal

LEMMA PruneKeeps == ASSUME IInv, Prune PROVE IInv'
<1> DEFINE lost == Lost(plant, pc, Q)
<1> USE DEF IInv
<1>1. /\ pc \in Mechanisms /\ Q' = Q \ lost /\ passes' = passes + 1
      /\ UNCHANGED <<plant, pc, good, under, at>>
  BY DEF Prune
<1>2. lost \subseteq Q  BY DEF Lost
<1>3. IsPlant(plant) /\ Q \subseteq Legal(plant) /\ passes \in Nat  BY DEF TypeOK
<1>4. TypeOK'
  <2>1. Q' \subseteq Legal(plant')  BY <1>1, <1>3
  <2> QED  BY <1>1, <2>1 DEF TypeOK
<1>5. LargestInv'
  <2> SUFFICES ASSUME NEW S \in SUBSET Legal(plant), Keeps(plant, pc, S)
               PROVE  S \subseteq Q \ lost
    BY <1>1 DEF LargestInv
  <2>1. S \subseteq Q  BY <1>1 DEF LargestInv
  <2> QED  BY <1>1, <2>1, PassSparesTheKept
<1>6. GoodIsLargest'  BY <1>1 DEF GoodIsLargest, Done
<1>7. RankInv'
  <2> SUFFICES ASSUME NEW m \in Mechanisms
               PROVE  /\ removed' = [k \in Mechanisms |-> removed'[k]]
                      /\ removed'[m] \in [Gone(m)' -> Nat]
                      /\ \A q \in Gone(m)' : removed'[m][q] = 0 <=> q \in plant.bad
                      /\ pc = m => \A q \in Gone(m)' : removed'[m][q] <= passes'
                      /\ \A q \in Gone(m)' \ plant.bad : Reason(m, q)'
    BY <1>1 DEF RankInv
  <2>1. removed' = [k \in Mechanisms |-> removed'[k]]
    <3>1. removed = [k \in Mechanisms |-> removed[k]]  BY <1>1 DEF RankInv, Mechanisms
    <3> QED  BY <3>1, SMT DEF Prune
  <2>2. /\ removed = [k \in Mechanisms |-> removed[k]]
        /\ removed[m] \in [Gone(m) -> Nat]
        /\ \A q \in Gone(m) : removed[m][q] = 0 <=> q \in plant.bad
        /\ pc = m => \A q \in Gone(m) : removed[m][q] <= passes
        /\ \A q \in Gone(m) \ plant.bad : Reason(m, q)
    BY <1>1 DEF RankInv, Mechanisms
  <2>3. CASE pc # m
    <3>1. Gone(m)' = Gone(m)  BY <1>1, <2>3 DEF Gone, Done
    <3>2. removed'[m] = removed[m]  BY <2>3 DEF Prune
    <3> QED  BY <1>1, <2>1, <2>2, <2>3, <3>1, <3>2 DEF Reason
  <2>4. CASE pc = m
    <3> DEFINE rank == [q \in Gone(m) \cup lost |-> IF q \in lost THEN passes + 1 ELSE removed[m][q]]
    <3>1. Gone(m) = plant.bad \cup (Legal(plant) \ Q)  BY <2>4 DEF Gone
    <3>2. Gone(m)' = Gone(m) \cup lost  BY <1>1, <1>2, <1>3, <2>4 DEF Gone
    <3>3. Gone(m) \cap lost = {}  BY <1>2, <1>3, <3>1 DEF Legal
    <3>4. removed'[m] = rank  BY <2>2, <2>4 DEF Prune
    <3>5. rank \in [Gone(m) \cup lost -> Nat]  BY <1>3, <2>2
    <3>6. \A q \in Gone(m) \cup lost : rank[q] = 0 <=> q \in plant.bad
      BY <1>2, <1>3, <2>2, <3>1, <3>3
    <3>7. \A q \in Gone(m) \cup lost : rank[q] <= passes + 1
      BY <1>3, <2>2, <2>4
    <3>8. ASSUME NEW q \in (Gone(m) \cup lost) \ plant.bad
          PROVE  \E d \in plant.delta :
                    /\ d.from = q /\ d.event \notin plant.controllable
                    /\ d.to \in Gone(m) \cup lost /\ rank[d.to] < rank[q]
      <4>1. CASE q \in lost
        <5>1. PICK d \in plant.delta : d.from = q /\ d.event \notin plant.controllable /\ d.to \notin Q
          BY <4>1 DEF Lost, Holds, Escapes
        <5>2. d.to \in Gone(m)  BY <1>3, <3>1, <5>1 DEF IsPlant, Edges, Legal
        <5>3. rank[d.to] = removed[m][d.to] /\ rank[q] = passes + 1
          BY <3>3, <4>1, <5>2
        <5>4. removed[m][d.to] \in Nat /\ removed[m][d.to] <= passes  BY <2>2, <2>4, <5>2
        <5> QED  BY <1>3, <5>1, <5>2, <5>3, <5>4
      <4>2. CASE q \in Gone(m)
        <5>1. PICK d \in plant.delta : /\ d.from = q /\ d.event \notin plant.controllable
                                      /\ d.to \in Gone(m) /\ removed[m][d.to] < removed[m][q]
          BY <2>2, <4>2, <3>8 DEF Reason
        <5>2. rank[d.to] = removed[m][d.to] /\ rank[q] = removed[m][q]
          BY <3>3, <4>2, <5>1
        <5> QED  BY <5>1, <5>2
      <4> QED  BY <4>1, <4>2
    <3> HIDE DEF rank, lost
    <3> QED  BY <1>1, <2>1, <3>2, <3>4, <3>5, <3>6, <3>7, <3>8 DEF Reason
  <2> QED  BY <2>3, <2>4
<1>8. LoopInv'
  <2>1. pc # "loop"  BY <1>1 DEF Mechanisms
  <2> QED  BY <1>1, <2>1 DEF LoopInv
<1> QED  BY <1>4, <1>5, <1>6, <1>7, <1>8

LEMMA SettleKeeps == ASSUME IInv, Settle PROVE IInv'
<1> USE DEF IInv
<1>1. /\ pc \in Mechanisms /\ Lost(plant, pc, Q) = {}
      /\ pc' = IF pc = "guard" THEN "forcing" ELSE "classified"
      /\ Q' = Legal(plant) /\ passes' = 0
      /\ UNCHANGED <<plant, removed, under, at>>
  BY DEF Settle
<1>2. Q \in SUBSET Legal(plant) /\ good \in [Mechanisms -> SUBSET Legal(plant)]  BY DEF TypeOK
<1>3. /\ good'[pc] = Q /\ good' \in [Mechanisms -> SUBSET Legal(plant)]
      /\ \A m \in Mechanisms \ {pc} : good'[m] = good[m]
  BY <1>1, <1>2 DEF Settle
<1>4. TypeOK'
  BY <1>1, <1>3 DEF TypeOK, Mechanisms
<1>5. LargestInv'
  <2> SUFFICES ASSUME pc' \in Mechanisms
               PROVE  \A S \in SUBSET Legal(plant) : S \subseteq Q'
    BY <1>1 DEF LargestInv
  <2> QED  BY <1>1
<1>6. GoodIsLargest'
  <2> SUFFICES ASSUME NEW m \in Mechanisms, Done(m)'
               PROVE  /\ Keeps(plant, m, good'[m])
                      /\ \A S \in SUBSET Legal(plant) : Keeps(plant, m, S) => S \subseteq good'[m]
    BY <1>1 DEF GoodIsLargest
  <2>1. CASE pc = m
    BY <1>1, <1>3, <2>1, KeptIffNothingLost DEF LargestInv
  <2>2. CASE pc # m
    <3>1. Done(m)  BY <1>1, <2>2 DEF Done, Mechanisms
    <3> QED  BY <1>3, <2>2, <3>1 DEF GoodIsLargest
  <2> QED  BY <2>1, <2>2
<1>7. RankInv'
  <2>1. pc # "not_computed"  BY <1>1 DEF Mechanisms
  <2> SUFFICES ASSUME NEW m \in Mechanisms
               PROVE  /\ Gone(m)' = Gone(m)
                      /\ pc' = m => \A q \in Gone(m) : removed[m][q] = 0
    BY <1>1, <2>1 DEF RankInv, Reason
  <2>2. CASE pc = m
    BY <1>1, <1>3, <2>2 DEF Gone, Done, Mechanisms
  <2>3. CASE pc = "guard" /\ m = "forcing"
    <3>1. Gone(m) = plant.bad  BY <2>3 DEF Gone, Done
    <3>2. Gone(m)' = plant.bad  BY <1>1, <2>3 DEF Gone
    <3> QED  BY <2>1, <3>1, <3>2 DEF RankInv
  <2>4. CASE pc = "forcing" /\ m = "guard"
    BY <1>1, <1>3, <2>4 DEF Gone, Done
  <2> QED  BY <1>1, <2>2, <2>3, <2>4 DEF Mechanisms
<1>8. LoopInv'
  BY <1>1 DEF LoopInv, Mechanisms
<1> QED  BY <1>4, <1>5, <1>6, <1>7, <1>8

LEMMA TimesOutKeeps == ASSUME IInv, TimesOut PROVE IInv'
<1> USE DEF IInv, TimesOut
<1>1. TypeOK'  BY DEF TypeOK
<1>2. LargestInv'  BY DEF LargestInv, Mechanisms
<1>3. GoodIsLargest'  BY DEF GoodIsLargest, Done
<1>4. RankInv'  BY DEF RankInv
<1>5. LoopInv'  BY DEF LoopInv, Mechanisms
<1> QED  BY <1>1, <1>2, <1>3, <1>4, <1>5

-----------------------------------------------------------------------------
(* The closed loop, and the rules in the world *)

\* Once classified, nothing the synthesis has found changes.
LEMMA FoundStays ==
    ASSUME IInv, pc \in {"classified", "loop", "live"}, pc' \in {"classified", "loop", "live"},
           UNCHANGED <<plant, Q, passes, removed, good>>,
           under' \in Mechanisms, at' \in plant.states, LoopInv'
    PROVE  IInv'
<1> USE DEF IInv
<1>1. TypeOK'  BY DEF TypeOK
<1>2. LargestInv'  BY DEF LargestInv, Mechanisms
<1>3. GoodIsLargest'  BY DEF GoodIsLargest, Done
<1>4. \A m \in Mechanisms : Gone(m)' = Gone(m)  BY DEF Gone, Done, Mechanisms
<1>5. RankInv'  BY <1>4 DEF RankInv, Reason, Mechanisms
<1> QED  BY <1>1, <1>2, <1>3, <1>5

LEMMA InstallKeeps == ASSUME IInv, NEW m \in Mechanisms, Install(m) PROVE IInv'
<1>1. LoopInv'  BY DEF IInv, LoopInv, Install, RetainsInitial
<1> QED  BY <1>1, FoundStays DEF Install, IInv, TypeOK

\* Whatever can still happen under the supervisor of a set that is kept stays in it.
LEMMA MoveStays ==
    ASSUME NEW p, NEW m \in Mechanisms, NEW S, Keeps(p, m, S), NEW d \in p.delta, d.from \in S,
           d \notin Refused(p, m, S),
           d.from \in ForcingStates(p, m, S) => d \in Enabled(p, m, S)
    PROVE  d.to \in S
<1>1. CASE d \in Enabled(p, m, S)  BY <1>1 DEF Enabled
<1>2. CASE d \notin Enabled(p, m, S)
  <2>1. d.event \notin p.controllable  BY <1>2 DEF Refused
  <2>2. d.from \notin ForcingStates(p, m, S)  BY <1>2
  <2>3. CASE m = "guard"  BY <2>1, <2>3 DEF Keeps, Controllable
  <2>4. CASE m = "forcing"
    <3>1. Escapes(p, d.from, S) = {}  BY <2>2, <2>4 DEF ForcingStates
    <3> QED  BY <2>1, <3>1 DEF Escapes
  <2> QED  BY <2>3, <2>4 DEF Mechanisms
<1> QED  BY <1>1, <1>2

LEMMA MoveKeeps == ASSUME IInv, NEW d \in plant.delta, Move(d) PROVE IInv'
<1>1. /\ pc = "loop" /\ under \in Mechanisms /\ at \in good[under] /\ IsPlant(plant)
  BY DEF IInv, LoopInv, Move, TypeOK
<1>2. Keeps(plant, under, good[under])
  BY <1>1 DEF IInv, GoodIsLargest, Done, Mechanisms
<1>3. at' \in good[under]
  BY <1>1, <1>2, MoveStays DEF Move
<1>4. at' \in plant.states  BY <1>1 DEF Move, IsPlant, Edges
<1>5. LoopInv'  BY <1>1, <1>3 DEF LoopInv, Move
<1> QED  BY <1>1, <1>4, <1>5, FoundStays DEF Move

LEMMA GoLiveKeeps == ASSUME IInv, GoLive PROVE IInv'
<1>1. LoopInv'  BY DEF IInv, LoopInv, GoLive
<1> QED  BY <1>1, FoundStays DEF GoLive, IInv, TypeOK

LEMMA StutterKeeps == ASSUME IInv, UNCHANGED vars PROVE IInv'
<1> USE DEF vars
<1>1. TypeOK' /\ LargestInv' /\ LoopInv'  BY DEF IInv, TypeOK, LargestInv, LoopInv
<1>2. GoodIsLargest'  BY DEF IInv, GoodIsLargest, Done
<1>3. \A m \in Mechanisms : Gone(m)' = Gone(m)  BY DEF Gone, Done
<1>4. RankInv'  BY <1>3 DEF IInv, RankInv, Reason
<1> QED  BY <1>1, <1>2, <1>4 DEF IInv

LEMMA AskKept == ASSUME EnforceInit PROVE IInv
<1>1. CASE \E p \in Plants : InitWith(p)  BY <1>1, InitKept
<1>2. CASE \E a \in Questions : ~TooLarge(a) /\ InitWith(Built(a))
  BY <1>2, InitKept, QuestionAssumption
<1>3. CASE /\ plant = NoPlant /\ pc = "not_computed" /\ Q = {} /\ passes = 0
           /\ good = Pending /\ under = "guard" /\ at = NoState
  <2> USE <1>3
  <2>1. IsPlant(NoPlant)  BY QuestionAssumption, PlantAssumption
  <2>2. NoPlant.initial = NoState /\ NoPlant.states = {NoState}  BY DEF NoPlant
  <2>3. TypeOK  BY <2>1, <2>2 DEF TypeOK, Mechanisms, Pending
  <2>4. LargestInv /\ GoodIsLargest /\ RankInv
    BY DEF LargestInv, GoodIsLargest, RankInv, Done, Mechanisms
  <2>5. LoopInv  BY <2>2 DEF LoopInv
  <2> QED  BY <2>3, <2>4, <2>5 DEF IInv
<1> QED  BY <1>1, <1>2, <1>3 DEF EnforceInit, Ask, Init

LEMMA StepKeeps == ASSUME IInv, [EnforceNext]_<<vars, asked, world>> PROVE IInv'
<1>1. CASE Prune  BY <1>1, PruneKeeps
<1>2. CASE Settle  BY <1>2, SettleKeeps
<1>3. CASE TimesOut  BY <1>3, TimesOutKeeps
<1>4. CASE \E m \in Mechanisms : Install(m)  BY <1>4, InstallKeeps
<1>5. CASE \E d \in plant.delta : Move(d)  BY <1>5, MoveKeeps
<1>6. CASE GoLive  BY <1>6, GoLiveKeeps
<1>7. CASE \E e \in {"turn_on", "turn_off", "get_status", "manual_on"} : Command(e)
  BY <1>7, StutterKeeps DEF Command
<1>8. CASE WorldChanges  BY <1>8, StutterKeeps DEF WorldChanges
<1>9. CASE UNCHANGED <<vars, asked, world>>  BY <1>9, StutterKeeps
<1> QED
  BY <1>1, <1>2, <1>3, <1>4, <1>5, <1>6, <1>7, <1>8, <1>9
  DEF EnforceNext, Synthesis, Next, Synthesize

\* What the synthesis keeps in its variables holds at every step of a question.
THEOREM Invariant == EnforceSpec => []IInv
<1>1. EnforceInit => IInv  BY AskKept
<1>2. IInv /\ [EnforceNext]_<<vars, asked, world>> => IInv'  BY StepKeeps
<1> QED  BY <1>1, <1>2, PTL DEF EnforceSpec

\* The variables of a synthesis keep to their types, whatever plant was asked about.
THEOREM TypeCorrect == EnforceSpec => []TypeOK
BY Invariant, PTL DEF IInv

\* What a mechanism is found to keep is the largest set of legal states that it can
\* keep, however many passes it took and whatever was removed in each.  (_synthesize)
THEOREM LargestKept == EnforceSpec => []GoodIsLargest
BY Invariant, PTL DEF IInv

\* The closed loop of an installed supervisor never leaves what is kept, and is never
\* preempted without something to force.  (_control, _reach)
THEOREM LoopLegal == EnforceSpec => []LoopStaysLegal
<1>1. IInv => LoopStaysLegal
  <2> SUFFICES ASSUME IInv, pc = "loop"
               PROVE  /\ at \in good[under]
                      /\ at \in ForcingStates(plant, under, good[under]) =>
                            SafeForces(plant, at, good[under]) # {}
    BY DEF LoopStaysLegal
  <2>1. at \in good[under] /\ under \in Mechanisms  BY DEF IInv, LoopInv, TypeOK
  <2>2. Keeps(plant, under, good[under])
    BY <2>1 DEF IInv, GoodIsLargest, Done, Mechanisms
  <2>3. Holds(plant, under, at, good[under])
    BY <2>1, <2>2, KeptIffNothingLost DEF Lost
  <2> QED  BY <2>1, <2>3 DEF Holds, ForcingStates
<1> QED  BY <1>1, Invariant, PTL

-----------------------------------------------------------------------------
(* The states within n steps.  Within is a recursive function on 0..n: that there is    *)
(* one, and only one, is shown for every n by induction.                                *)

OneMore(steps, B) == B \cup { d.to : d \in { e \in steps : e.from \in B } }

IsUpto(f, q, steps, n) ==
    f = [k \in 0..n |-> IF k = 0 THEN {q} ELSE OneMore(steps, f[k - 1])]

StepByStep(f, q, steps, n) == f[0] = {q} /\ \A k \in 1..n : f[k] = OneMore(steps, f[k - 1])

LEMMA UptoAt ==
    ASSUME NEW q, NEW steps, NEW n \in Nat, NEW f, IsUpto(f, q, steps, n)
    PROVE  StepByStep(f, q, steps, n)
<1>1. 0 \in 0..n  OBVIOUS
<1>2. f[0] = {q}  BY <1>1 DEF IsUpto
<1>3. ASSUME NEW k \in 1..n PROVE f[k] = OneMore(steps, f[k - 1])
  <2>1. k \in 0..n /\ k # 0  OBVIOUS
  <2> QED  BY <2>1 DEF IsUpto
<1> QED  BY <1>2, <1>3 DEF StepByStep

LEMMA UptoExists ==
    ASSUME NEW q, NEW steps, NEW n \in Nat
    PROVE  \E f : IsUpto(f, q, steps, n)
<1> DEFINE S == {k \in Nat : \E f : IsUpto(f, q, steps, k)}
<1>1. 0 \in S
  <2>1. IsUpto([k \in 0..0 |-> {q}], q, steps, 0)  BY DEF IsUpto
  <2> QED  BY <2>1
<1>2. ASSUME NEW k \in S PROVE k + 1 \in S
  <2>1. PICK f : IsUpto(f, q, steps, k)  OBVIOUS
  <2> DEFINE g == [j \in 0..(k + 1) |-> IF j = k + 1 THEN OneMore(steps, f[k]) ELSE f[j]]
  <2>2. ASSUME NEW j \in 0..(k + 1)
        PROVE  g[j] = IF j = 0 THEN {q} ELSE OneMore(steps, g[j - 1])
    <3>0. StepByStep(f, q, steps, k)
      BY <2>1, k \in Nat, UptoAt
    <3>1. CASE j = 0  BY <3>0, <3>1 DEF StepByStep
    <3>2. CASE j = k + 1  BY <3>2
    <3>3. CASE j # 0 /\ j # k + 1
      <4>1. j \in 1..k /\ j - 1 \in 0..(k + 1) /\ j - 1 # k + 1  BY <3>3
      <4>2. g[j] = f[j] /\ g[j - 1] = f[j - 1]  BY <4>1, <3>3
      <4>3. f[j] = OneMore(steps, f[j - 1])  BY <3>0, <4>1 DEF StepByStep
      <4> QED  BY <3>3, <4>2, <4>3
    <3> QED  BY <3>1, <3>2, <3>3
  <2>3. IsUpto(g, q, steps, k + 1)
    <3>1. g = [j \in 0..(k + 1) |-> g[j]]  OBVIOUS
    <3> HIDE DEF g
    <3> QED  BY <2>2, <3>1, Zenon DEF IsUpto
  <2> QED  BY <2>3
<1> HIDE DEF S
<1>3. S = Nat  BY <1>1, <1>2, SetInduction DEF S
<1> QED  BY <1>3 DEF S

LEMMA UptoUnique ==
    ASSUME NEW q, NEW steps, NEW n \in Nat, NEW m \in Nat, NEW f, NEW g,
           IsUpto(f, q, steps, n), IsUpto(g, q, steps, m),
           NEW k \in Nat, k <= n, k <= m
    PROVE  f[k] = g[k]
<1> DEFINE S == {j \in Nat : j <= n /\ j <= m => f[j] = g[j]}
<1>3. StepByStep(f, q, steps, n) /\ StepByStep(g, q, steps, m)  BY UptoAt
<1>1. 0 \in S  BY <1>3 DEF StepByStep
<1>2. ASSUME NEW j \in S PROVE j + 1 \in S
  <2> SUFFICES ASSUME j + 1 <= n, j + 1 <= m PROVE f[j + 1] = g[j + 1]
    OBVIOUS
  <2>1. f[j] = g[j]  OBVIOUS
  <2>2. j + 1 \in 1..n /\ j + 1 \in 1..m /\ (j + 1) - 1 = j  OBVIOUS
  <2>3. f[j + 1] = OneMore(steps, f[j])  BY <1>3, <2>2 DEF StepByStep
  <2>4. g[j + 1] = OneMore(steps, g[j])  BY <1>3, <2>2 DEF StepByStep
  <2> QED  BY <2>1, <2>3, <2>4
<1> HIDE DEF S
<1>5. S = Nat  BY <1>1, <1>2, SetInduction DEF S
<1> QED  BY <1>5 DEF S

LEMMA WithinIsUpto ==
    ASSUME NEW q, NEW steps, NEW n \in Nat
    PROVE  \E f : IsUpto(f, q, steps, n) /\ Within(q, steps, n) = f[n]
<1> DEFINE f == CHOOSE h : IsUpto(h, q, steps, n)
<1>1. IsUpto(f, q, steps, n)  BY UptoExists, Zenon
<1>2. Within(q, steps, n) = f[n]  BY Zenon DEF Within, IsUpto, OneMore
<1> QED  BY <1>1, <1>2

LEMMA WithinNone == ASSUME NEW q, NEW steps PROVE Within(q, steps, 0) = {q}
BY WithinIsUpto, UptoAt DEF StepByStep

LEMMA WithinMore ==
    ASSUME NEW q, NEW steps, NEW n \in Nat
    PROVE  Within(q, steps, n + 1) = OneMore(steps, Within(q, steps, n))
<1> DEFINE m == n + 1
<1>1. m \in Nat /\ n <= m /\ m \in 1..m /\ m - 1 = n  OBVIOUS
<1> HIDE DEF m
<1>2. PICK f : IsUpto(f, q, steps, n) /\ Within(q, steps, n) = f[n]  BY WithinIsUpto
<1>3. PICK g : IsUpto(g, q, steps, m) /\ Within(q, steps, m) = g[m]  BY <1>1, WithinIsUpto
<1>4. f[n] = g[n]  BY <1>1, <1>2, <1>3, UptoUnique
<1>5. StepByStep(g, q, steps, m)  BY <1>1, <1>3, UptoAt
<1>6. g[m] = OneMore(steps, g[n])  BY <1>1, <1>5 DEF StepByStep
<1> QED  BY <1>2, <1>3, <1>4, <1>6 DEF m

LEMMA WithinGrows ==
    ASSUME NEW q, NEW steps, NEW n \in Nat, NEW k \in 0..n
    PROVE  Within(q, steps, k) \subseteq Within(q, steps, n)
<1> DEFINE S == {j \in Nat : Within(q, steps, k) \subseteq Within(q, steps, k + j)}
<1>1. 0 \in S  OBVIOUS
<1>2. ASSUME NEW j \in S PROVE j + 1 \in S
  <2>1. k + j \in Nat /\ k + (j + 1) = (k + j) + 1  OBVIOUS
  <2>2. Within(q, steps, k + j) \subseteq Within(q, steps, (k + j) + 1)
    BY <2>1, WithinMore DEF OneMore
  <2> QED  BY <2>1, <2>2
<1> HIDE DEF S
<1>3. S = Nat  BY <1>1, <1>2, SetInduction DEF S
<1>4. n - k \in S /\ k + (n - k) = n  BY <1>3
<1> QED  BY <1>4 DEF S

\* Steps that do not leave S never leave it.
LEMMA WithinStays ==
    ASSUME NEW S, NEW q \in S, NEW steps, NEW n \in Nat,
           \A d \in steps : d.from \in S => d.to \in S
    PROVE  Within(q, steps, n) \subseteq S
<1> DEFINE T == {k \in Nat : Within(q, steps, k) \subseteq S}
<1>1. 0 \in T  BY WithinNone
<1>2. ASSUME NEW k \in T PROVE k + 1 \in T
  <2>1. k \in Nat /\ Within(q, steps, k) \subseteq S  OBVIOUS
  <2>2. Within(q, steps, k + 1) = OneMore(steps, Within(q, steps, k))  BY <2>1, WithinMore
  <2> QED  BY <2>1, <2>2 DEF OneMore
<1> HIDE DEF T
<1>3. T = Nat  BY <1>1, <1>2, SetInduction DEF T
<1> QED  BY <1>3 DEF T

\* In a finite set of states, as many steps as there are states reach all that can be
\* reached: no step leads out of them.
LEMMA WithinSaturates ==
    ASSUME NEW S, IsFiniteSet(S), NEW q \in S, NEW steps, \A d \in steps : d.to \in S
    PROVE  \A d \in steps : d.from \in Within(q, steps, Cardinality(S))
                                => d.to \in Within(q, steps, Cardinality(S))
<1> DEFINE W(n) == Within(q, steps, n)
           Closed(n) == \A d \in steps : d.from \in W(n) => d.to \in W(n)
           T == {n \in Nat : Closed(n) \/ Cardinality(W(n)) >= n + 1}
<1> HIDE DEF W
<1>1. ASSUME NEW n \in Nat
      PROVE  /\ IsFiniteSet(W(n)) /\ Cardinality(W(n)) \in Nat
             /\ Cardinality(W(n)) <= Cardinality(S)
  <2>1. W(n) \subseteq S  BY WithinStays DEF W
  <2> QED  BY <2>1, FS_Subset, FS_CardinalityType
<1>2. ASSUME NEW n \in Nat
      PROVE  W(n + 1) = W(n) \cup { d.to : d \in { e \in steps : e.from \in W(n) } }
  BY WithinMore DEF W, OneMore
<1>3. 0 \in T
  <2>1. W(0) = {q}  BY WithinNone DEF W
  <2>2. Cardinality(W(0)) = 1  BY <2>1, FS_Singleton
  <2> QED  BY <2>2
<1>4. ASSUME NEW n \in T PROVE n + 1 \in T
  <2>0. n \in Nat  OBVIOUS
  <2>1. CASE Closed(n)
    <3> DEFINE X == { d.to : d \in { e \in steps : e.from \in W(n) } }
    <3>1. W(n + 1) = W(n)
      <4>1. X \subseteq W(n)  BY <2>1
      <4>2. W(n + 1) = W(n) \cup X
        <5> HIDE DEF T, Closed
        <5> QED  BY <1>2, <2>0
      <4> HIDE DEF X
      <4> QED  BY <4>1, <4>2
    <3> QED  BY <2>1, <3>1
  <2>2. CASE ~Closed(n)
    <3>1. Cardinality(W(n)) >= n + 1  BY <2>2
    <3>2. W(n) \subseteq W(n + 1) /\ W(n) # W(n + 1)  BY <1>2, <2>2
    <3>3. n + 1 \in Nat  OBVIOUS
    <3>4. /\ IsFiniteSet(W(n + 1)) /\ Cardinality(W(n + 1)) \in Nat
          /\ Cardinality(W(n)) \in Nat
      BY <1>1, <3>3
    <3>5. Cardinality(W(n)) < Cardinality(W(n + 1))  BY <3>2, <3>4, FS_Subset
    <3> QED  BY <3>1, <3>3, <3>4, <3>5
  <2> QED  BY <2>1, <2>2
<1>5. T = Nat
  <2> HIDE DEF T
  <2>1. T \in SUBSET Nat  BY DEF T
  <2> QED  BY <1>3, <1>4, <2>1, SetInduction
<1>6. Cardinality(S) \in Nat  BY FS_CardinalityType
<1>7. Closed(Cardinality(S))
  <2>1. Cardinality(S) \in T  BY <1>5, <1>6
  <2>2. ~(Cardinality(W(Cardinality(S))) >= Cardinality(S) + 1)  BY <1>1, <1>6
  <2> QED  BY <2>1, <2>2
<1> QED  BY <1>7 DEF W

\* The nearest states of S are states of S, and there are some where S can be reached.
LEMMA NearestFound ==
    ASSUME NEW p, IsPlant(p), NEW q, NEW steps, NEW S, NEW n \in Nat, n <= Cardinality(p.states)
    PROVE  /\ Nearest(p, q, steps, S) \subseteq S
           /\ Within(q, steps, n) \cap S # {} => Nearest(p, q, steps, S) # {}
<1> DEFINE near == { k \in 0..Cardinality(p.states) : Within(q, steps, k) \cap S # {} }
           first == CHOOSE k \in near : \A j \in near : k <= j
<1>1. Cardinality(p.states) \in Nat  BY FS_CardinalityType DEF IsPlant
<1>2. near \in SUBSET Nat  BY <1>1
<1>3. Nearest(p, q, steps, S) = IF near = {} THEN {} ELSE Within(q, steps, first) \cap S
  BY DEF Nearest
<1>4. near # {} => first \in near
  <2> HIDE DEF near
  <2> SUFFICES ASSUME near # {} PROVE first \in near
    OBVIOUS
  <2>1. \E k \in near : \A j \in near : k <= j  BY <1>2, LeastNumber
  <2> QED  BY <2>1
<1>5. near # {} => Within(q, steps, first) \cap S # {}
  <2> HIDE DEF first
  <2> QED  BY <1>4
<1>6. Within(q, steps, n) \cap S # {} => n \in near  BY <1>1
<1> HIDE DEF near, first
<1> QED  BY <1>3, <1>5, <1>6

-----------------------------------------------------------------------------
(* The finding *)

\* The closed loop of what is kept is safe where it can begin.
LEMMA EnforcesIff ==
    ASSUME IInv, pc \in {"classified", "live"}, NEW m \in Mechanisms
    PROVE  Enforces(plant, m) <=> Keeps(plant, m, Legal(plant)) /\ plant.initial \in Legal(plant)
<1>1. IsPlant(plant) /\ good[m] \subseteq Legal(plant)  BY DEF IInv, TypeOK
<1>2. /\ Keeps(plant, m, good[m])
      /\ \A S \in SUBSET Legal(plant) : Keeps(plant, m, S) => S \subseteq good[m]
  BY DEF IInv, GoodIsLargest, Done, Mechanisms
<1>3. RetainsLegal(plant, m) <=> good[m] = Legal(plant)  BY <1>1 DEF RetainsLegal
<1>4. good[m] = Legal(plant) <=> Keeps(plant, m, Legal(plant))  BY <1>1, <1>2
<1>5. ASSUME plant.initial \in good[m]
      PROVE  Reached(plant, Enabled(plant, m, good[m])) \cap plant.bad = {}
  <2>1. Cardinality(plant.states) \in Nat  BY <1>1, FS_CardinalityType DEF IsPlant
  <2>2. \A d \in Enabled(plant, m, good[m]) : d.to \in good[m]  BY DEF Enabled
  <2>3. Reached(plant, Enabled(plant, m, good[m])) \subseteq good[m]
    BY <1>5, <2>1, <2>2, WithinStays DEF Reached
  <2> QED  BY <1>1, <2>3 DEF Legal
<1> QED  BY <1>3, <1>4, <1>5 DEF Enforces, ClosedLoopSafe, RetainsInitial

LEMMA ClassIsExact == ASSUME IInv PROVE ClassExact
<1> SUFFICES ASSUME pc = "classified" PROVE ClassExact
  BY DEF ClassExact
<1>1. Enforces(plant, "guard") <=> Controllable(plant, Legal(plant)) /\ plant.initial \in Legal(plant)
  BY EnforcesIff DEF Keeps, Mechanisms
<1>2. Enforces(plant, "forcing") <=>
          ForciblyControllable(plant, Legal(plant)) /\ plant.initial \in Legal(plant)
  BY EnforcesIff DEF Keeps, Mechanisms
<1> QED  BY <1>1, <1>2 DEF ClassExact, Class

LEMMA GoneWhenClassified ==
    ASSUME pc = "classified", NEW m \in Mechanisms
    PROVE  Gone(m) = plant.bad \cup (Legal(plant) \ good[m])
BY DEF Gone, Done, Mechanisms

\* From whatever is gone the recorded reasons lead somewhere, and only to forbidden states.
LEMMA TailsEndBad ==
    ASSUME IInv, pc = "classified", NEW m \in Mechanisms, NEW q \in Gone(m)
    PROVE  TailEnds(plant, m, q) # {} /\ TailEnds(plant, m, q) \subseteq plant.bad
<1> DEFINE steps == { d \in Because(plant, m) : d.from \notin plant.bad }
           W == Within(q, steps, Cardinality(plant.states))
<1>1. IsPlant(plant) /\ Gone(m) \subseteq plant.states  BY GoneStates DEF IInv, TypeOK
<1>2. /\ removed[m] \in [Gone(m) -> Nat]
      /\ \A e \in Gone(m) \ plant.bad : Reason(m, e)
  BY DEF IInv, RankInv
<1>3. \A d \in steps : /\ d.from \in Gone(m) /\ d.to \in Gone(m)
                       /\ removed[m][d.from] > removed[m][d.to]
  BY <1>2 DEF Because
<1>4. Cardinality(plant.states) \in Nat  BY <1>1, FS_CardinalityType DEF IsPlant
<1>5. W \subseteq Gone(m)
  <2> HIDE DEF steps
  <2> QED  BY <1>3, <1>4, WithinStays
<1>6. \A d \in steps : d.from \in W => d.to \in W
  <2> HIDE DEF steps
  <2>1. q \in plant.states /\ \A d \in steps : d.to \in plant.states  BY <1>1, <1>3
  <2> QED  BY <1>1, <2>1, WithinSaturates DEF IsPlant
<1>7. q \in W
  <2>1. 0 \in 0..Cardinality(plant.states)  BY <1>4
  <2> HIDE DEF steps
  <2> QED  BY <1>4, <2>1, WithinNone, WithinGrows
<1>8. TailEnds(plant, m, q) = { e \in W : \A d \in steps : d.from # e }
  BY DEF TailEnds
<1> HIDE DEF W
<1>9. \E e \in W : \A d \in steps : d.from # e
  <2> DEFINE ranks == { removed[m][e] : e \in W }
  <2>1. ranks \in SUBSET Nat /\ ranks # {}  BY <1>2, <1>5, <1>7
  <2>2. PICK r \in ranks : \A k \in ranks : r <= k
    <3> HIDE DEF ranks
    <3> QED  BY <2>1, LeastNumber
  <2>3. PICK e \in W : removed[m][e] = r  BY <2>2
  <2>4. ASSUME NEW d \in steps, d.from = e PROVE FALSE
    <3>1. d.to \in W  BY <1>6, <2>3, <2>4
    <3>2. removed[m][e] > removed[m][d.to]  BY <1>3, <2>4
    <3>3. r <= removed[m][d.to]  BY <2>2, <3>1
    <3>4. r \in Nat /\ removed[m][d.to] \in Nat  BY <2>1, <3>1
    <3> QED  BY <2>3, <3>2, <3>3, <3>4
  <2> QED  BY <2>4
<1>10. ASSUME NEW e \in W, e \notin plant.bad PROVE \E d \in steps : d.from = e
  <2>1. e \in Gone(m)  BY <1>5
  <2>2. PICK d \in plant.delta : /\ d.from = e /\ d.event \notin plant.controllable
                                 /\ d.to \in Gone(m) /\ removed[m][d.to] < removed[m][e]
    BY <1>2, <1>10, <2>1 DEF Reason
  <2>3. removed[m][d.from] > removed[m][d.to]  BY <1>2, <2>1, <2>2
  <2> QED  BY <1>2, <1>10, <2>1, <2>2, <2>3 DEF Because
<1> HIDE DEF steps
<1> QED  BY <1>8, <1>9, <1>10

LEMMA TracesEndBad == ASSUME IInv PROVE TraceEndsBad
<1> SUFFICES ASSUME pc = "classified", Class(plant) # "GUARD_ENFORCEABLE",
                    Reached(plant, plant.delta) = plant.states
             PROVE  TraceEnds(plant) # {} /\ TraceEnds(plant) \subseteq plant.bad
  BY DEF TraceEndsBad
<1> DEFINE free    == { d \in plant.delta : d.event \notin plant.controllable }
           lost(m) == Nearest(plant, plant.initial, plant.delta, Legal(plant) \ good[m])
           bad(q)  == Nearest(plant, q, plant.delta, plant.bad)
<1>1. IsPlant(plant)  BY DEF IInv, TypeOK
<1>2. 0 \in Nat /\ Cardinality(plant.states) \in Nat
      /\ 0 <= Cardinality(plant.states) /\ Cardinality(plant.states) <= Cardinality(plant.states)
  BY <1>1, FS_CardinalityType DEF IsPlant
<1>3. ASSUME NEW m \in Mechanisms
      PROVE  lost(m) \subseteq Gone(m) /\ (good[m] # Legal(plant) => lost(m) # {})
  <2>1. good[m] \subseteq Legal(plant)  BY DEF IInv, TypeOK
  <2>2. lost(m) \subseteq Legal(plant) \ good[m]  BY <1>1, <1>2, NearestFound
  <2>3. Within(plant.initial, plant.delta, Cardinality(plant.states)) = plant.states  BY DEF Reached
  <2>4. good[m] # Legal(plant) => plant.states \cap (Legal(plant) \ good[m]) # {}
    BY <2>1 DEF Legal
  <2> QED  BY <1>1, <1>2, <2>2, <2>3, <2>4, NearestFound, GoneWhenClassified
<1>4. ASSUME NEW m \in Mechanisms, good[m] = Legal(plant), plant.initial \in Legal(plant)
      PROVE  Enforces(plant, m)
  <2>1. Keeps(plant, m, good[m])  BY DEF IInv, GoodIsLargest, Done, Mechanisms
  <2> QED  BY <1>4, <2>1, EnforcesIff
<1>5. ~Enforces(plant, "guard")  BY DEF Class
<1>6. CASE Class(plant) = "NEEDS_OBLIGATION"
  <2>1. Enforces(plant, "forcing")  BY <1>5, <1>6 DEF Class
  <2>2. plant.initial \in Legal(plant)  BY <2>1, EnforcesIff DEF Mechanisms
  <2>3. lost("guard") # {} /\ lost("guard") \subseteq Gone("guard")
    BY <1>3, <1>4, <1>5, <2>2 DEF Mechanisms
  <2>4. TraceEnds(plant) = UNION { TailEnds(plant, "guard", q) : q \in lost("guard") }
    BY <1>6, <2>3 DEF TraceEnds, OrElse
  <2> HIDE DEF lost
  <2>5. \A q \in lost("guard") :
            TailEnds(plant, "guard", q) # {} /\ TailEnds(plant, "guard", q) \subseteq plant.bad
    BY <2>3, TailsEndBad DEF Mechanisms
  <2> QED  BY <2>3, <2>4, <2>5
<1>7. CASE Class(plant) # "NEEDS_OBLIGATION"
  <2> DEFINE direct == Nearest(plant, plant.initial, free, plant.bad)
             from   == OrElse(lost("forcing"), OrElse(bad(plant.initial), {plant.initial}))
             tails  == UNION { TailEnds(plant, "forcing", q) : q \in from }
             round  == UNION { OrElse(bad(e), {e}) : e \in tails }
  <2>1. TraceEnds(plant) = OrElse(direct, round)  BY <1>7 DEF TraceEnds
  <2>2. direct \subseteq plant.bad  BY <1>1, <1>2, NearestFound
  <2>3. ASSUME direct = {} PROVE plant.initial \in Legal(plant)
    <3>1. Within(plant.initial, free, 0) \cap plant.bad = {}
      <4> HIDE DEF free
      <4> QED  BY <1>1, <1>2, <2>3, NearestFound
    <3>2. Within(plant.initial, free, 0) = {plant.initial}
      <4> HIDE DEF free
      <4> QED  BY WithinNone
    <3> QED  BY <1>1, <3>1, <3>2 DEF Legal, IsPlant
  <2>4. ASSUME direct = {} PROVE round # {} /\ round \subseteq plant.bad
    <3>1. ~Enforces(plant, "forcing")  BY <1>5, <1>7 DEF Class
    <3>2. lost("forcing") # {} /\ lost("forcing") \subseteq Gone("forcing")
      BY <1>3, <1>4, <2>3, <2>4, <3>1 DEF Mechanisms
    <3>3. from = lost("forcing")  BY <3>2 DEF OrElse
    <3> HIDE DEF from, lost
    <3>4. \A q \in from :
            TailEnds(plant, "forcing", q) # {} /\ TailEnds(plant, "forcing", q) \subseteq plant.bad
      BY <3>2, <3>3, TailsEndBad DEF Mechanisms
    <3>5. tails # {} /\ tails \subseteq plant.bad  BY <3>2, <3>3, <3>4
    <3>6. ASSUME NEW e \in plant.bad PROVE bad(e) # {} /\ bad(e) \subseteq plant.bad
      <4>1. Within(e, plant.delta, 0) = {e}  BY WithinNone
      <4> QED  BY <1>1, <1>2, <4>1, NearestFound
    <3> HIDE DEF tails, bad
    <3> QED  BY <3>5, <3>6 DEF OrElse
  <2> HIDE DEF direct, round
  <2> QED  BY <2>1, <2>2, <2>4 DEF OrElse
<1> QED  BY <1>6, <1>7

\* What is reported of a rule set is right, and its trace shows why: the class is the
\* one the theory defines, on every plant, and when all of a plant can be reached the
\* trace ends in a forbidden state, whichever way the search went.  (_classify, _witness)
THEOREM FindingRight == EnforceSpec => []FindingOK
<1>1. IInv => FindingOK  BY ClassIsExact, TracesEndBad DEF FindingOK
<1> QED  BY <1>1, Invariant, PTL

\* A set of subsets that has the empty one, and each that it has without one element,
\* has them all.
LEMMA SubsetInduction ==
    ASSUME NEW S, IsFiniteSet(S), NEW G \in SUBSET SUBSET S, {} \in G,
           \A s \in SUBSET S : s # {} /\ (\A x \in s : s \ {x} \in G) => s \in G
    PROVE  G = SUBSET S
<1> DEFINE sizes == { Cardinality(s) : s \in (SUBSET S) \ G }
<1> SUFFICES ASSUME (SUBSET S) \ G # {} PROVE FALSE
    OBVIOUS
<1>1. ASSUME NEW s \in SUBSET S PROVE IsFiniteSet(s) /\ Cardinality(s) \in Nat
  BY FS_Subset, FS_CardinalityType
<1>2. sizes \in SUBSET Nat /\ sizes # {}  BY <1>1
<1>3. PICK n \in sizes : \A k \in sizes : n <= k
  <2> HIDE DEF sizes
  <2> QED  BY <1>2, LeastNumber
<1>4. PICK s \in (SUBSET S) \ G : Cardinality(s) = n  BY <1>3
<1>5. s # {}  OBVIOUS
<1>6. PICK x \in s : s \ {x} \notin G  BY <1>5
<1>7. Cardinality(s \ {x}) = Cardinality(s) - 1  BY <1>1, FS_RemoveElement
<1>8. Cardinality(s \ {x}) \in sizes  BY <1>6
<1> HIDE DEF sizes
<1> QED  BY <1>1, <1>3, <1>4, <1>7, <1>8

LEMMA ImageFinite ==
    ASSUME NEW S, IsFiniteSet(S), NEW f
    PROVE  IsFiniteSet({ f[x] : x \in S })
<1> DEFINE G == { s \in SUBSET S : IsFiniteSet({ f[x] : x \in s }) }
<1>1. {} \in G
  <2>1. { f[x] : x \in {} } = {}  OBVIOUS
  <2> QED  BY <2>1, FS_EmptySet
<1>2. ASSUME NEW s \in SUBSET S, s # {}, \A x \in s : s \ {x} \in G
      PROVE  s \in G
  <2>1. PICK y \in s : s \ {y} \in G  BY <1>2
  <2>2. { f[x] : x \in s } = { f[x] : x \in s \ {y} } \cup {f[y]}  OBVIOUS
  <2> DEFINE A == { f[x] : x \in s \ {y} }
  <2>3. IsFiniteSet(A)  BY <2>1
  <2>4. IsFiniteSet({ f[x] : x \in s })
    <3> HIDE DEF A
    <3>1. IsFiniteSet(A \cup {f[y]})  BY <2>3, FS_AddElement
    <3> QED  BY <2>2, <3>1 DEF A
  <2> QED  BY <2>4
<1>3. G = SUBSET S
  <2> HIDE DEF G
  <2>1. G \in SUBSET SUBSET S  BY DEF G
  <2> QED  BY <1>1, <1>2, <2>1, SubsetInduction
<1> QED  BY <1>3

\* The subsets of s smaller than n + 1.
UpTo(S, n) == { s \in SUBSET S : Cardinality(s) <= n }

LEMMA Smaller ==
    ASSUME NEW S, IsFiniteSet(S), NEW n \in Nat, NEW s \in UpTo(S, n + 1), NEW x \in s
    PROVE  s \ {x} \in UpTo(S, n)
<1>1. IsFiniteSet(s) /\ Cardinality(s) \in Nat  BY FS_Subset, FS_CardinalityType DEF UpTo
<1>2. Cardinality(s \ {x}) = Cardinality(s) - 1  BY <1>1, FS_RemoveElement
<1> QED  BY <1>1, <1>2 DEF UpTo

LEMMA AllUpTo ==
    ASSUME NEW S, IsFiniteSet(S)
    PROVE  /\ UpTo(S, 0) = {{}}
           /\ Cardinality(S) \in Nat /\ UpTo(S, Cardinality(S)) = SUBSET S
<1>1. \A s \in SUBSET S : IsFiniteSet(s) /\ Cardinality(s) \in Nat /\ Cardinality(s) <= Cardinality(S)
  BY FS_Subset, FS_CardinalityType
<1>2. \A s \in SUBSET S : Cardinality(s) = 0 <=> s = {}  BY <1>1, FS_EmptySet
<1>3. Cardinality(S) \in Nat  BY FS_CardinalityType
<1>4. UpTo(S, 0) = {{}}  BY <1>1, <1>2 DEF UpTo
<1> QED  BY <1>1, <1>3, <1>4 DEF UpTo

LEMMA MaxOfPlaces ==
    ASSUME NEW n \in Nat, NEW s \in SUBSET (1..n), s # {}
    PROVE  Max(s) \in s /\ \A k \in s : k <= Max(s)
<1> DEFINE T == { n - k : k \in s }
<1>1. T \in SUBSET Nat /\ T # {}
  <2>1. \A k \in s : n - k \in Nat  OBVIOUS
  <2> QED  BY <2>1
<1>2. PICK m \in T : \A k \in T : m <= k
  <2> HIDE DEF T
  <2> QED  BY <1>1, LeastNumber
<1>3. PICK x \in s : m = n - x  BY <1>2
<1>4. \A k \in s : x >= k
  <2> SUFFICES ASSUME NEW k \in s PROVE x >= k
    OBVIOUS
  <2>1. n - x <= n - k  BY <1>2, <1>3
  <2> QED  BY <2>1
<1>5. Max(s) \in s /\ \A k \in s : Max(s) >= k  BY <1>4 DEF Max
<1> QED  BY <1>5

LEMMA MaxOfPrefix == ASSUME NEW n \in Nat PROVE Max(1..(n + 1)) = n + 1
<1>1. 1..(n + 1) # {} /\ n + 1 \in Nat /\ n + 1 \in 1..(n + 1)  OBVIOUS
<1>2. Max(1..(n + 1)) \in 1..(n + 1) /\ \A k \in 1..(n + 1) : k <= Max(1..(n + 1))
  <2> DEFINE m == n + 1
  <2>1. m \in Nat /\ 1..m # {}  BY <1>1
  <2> HIDE DEF m
  <2>2. Max(1..m) \in 1..m /\ \A k \in 1..m : k <= Max(1..m)  BY <2>1, MaxOfPlaces
  <2> QED  BY <2>2 DEF m
<1> QED  BY <1>1, <1>2

LEMMA Prefix ==
    ASSUME NEW n \in Nat, NEW k \in Nat, k + 1 <= n
    PROVE  /\ 1..(k + 1) \in SUBSET (1..n) /\ 1..(k + 1) # {}
           /\ Max(1..(k + 1)) = k + 1 /\ (1..(k + 1)) \ {k + 1} = 1..k
<1>1. 1..(k + 1) \in SUBSET (1..n) /\ 1..(k + 1) # {}  OBVIOUS
<1>2. (1..(k + 1)) \ {k + 1} = 1..k  OBVIOUS
<1> QED  BY <1>1, <1>2, MaxOfPrefix

-----------------------------------------------------------------------------
(* The folds of the plant, as functions of the places or fields that are done.  Each    *)
(* step takes the value for what is left without one element.                           *)

\* rule_region: the boxes narrowed by the conditions at the places s.
Narrow(boxes, c) ==
    { nb \in { [f \in Fields |-> IF f = c.field THEN CommonDim(f, b[f], d) ELSE b[f]]
               : b \in boxes, d \in ConditionDims(c) } :
      ~EmptyDim(c.field, nb[c.field]) }

NarrowStep(h, conds, s) ==
    IF s = {} THEN {FullBox} ELSE Narrow(h[s \ {Max(s)}], conds[Max(s)])

IsNarrowing(h, conds) == h = [s \in SUBSET DOMAIN conds |-> NarrowStep(h, conds, s)]

\* _merge_same: the cells so far, with one atom more.
Joined(f, items, cells, a) ==
    LET last  == Last(cells)
        alike == AgreeAt(f, Sample(f, a), items) = AgreeAt(f, Sample(f, last), items)
    IN  IF alike THEN Append(Front(cells), I(last.lo, a.hi, last.loc, a.hic))
        ELSE Append(cells, a)

JoinStep(h, f, items, first, atoms, s) ==
    IF s = {} THEN <<first>> ELSE Joined(f, items, h[s \ {Max(s)}], atoms[Max(s)])

IsJoining(h, f, items, first, atoms) ==
    h = [s \in SUBSET DOMAIN atoms |-> JoinStep(h, f, items, first, atoms, s)]

\* The estimate: the number of cells, one field after another.
AnyOf(s) == CHOOSE x \in s : TRUE

CountStep(h, cells, precursor, s) ==
    IF s = {} THEN 1 ELSE h[s \ {AnyOf(s)}] * Len(Axis(AnyOf(s), cells, precursor))

IsCounting(h, cells, precursor, fields) ==
    h = [s \in SUBSET fields |-> CountStep(h, cells, precursor, s)]

LEMMA NarrowingExists ==
    ASSUME NEW n \in Nat, NEW conds, DOMAIN conds = 1..n
    PROVE  \E h : IsNarrowing(h, conds)
<1> DEFINE D == 1..n
           G == { k \in Nat : \E h : h = [s \in UpTo(D, k) |-> NarrowStep(h, conds, s)] }
<1>0. IsFiniteSet(D)  BY FS_Interval
<1>1. 0 \in G
  <2> DEFINE h == [s \in UpTo(D, 0) |-> {FullBox}]
  <2>1. \A s \in UpTo(D, 0) : NarrowStep(h, conds, s) = {FullBox}
    BY <1>0, AllUpTo DEF NarrowStep
  <2> QED  BY <2>1
<1>2. ASSUME NEW k \in G PROVE k + 1 \in G
  <2>1. PICK h : h = [s \in UpTo(D, k) |-> NarrowStep(h, conds, s)]  OBVIOUS
  <2> DEFINE g == [s \in UpTo(D, k + 1) |-> NarrowStep(h, conds, s)]
  <2> HIDE DEF D
  <2>2. ASSUME NEW s \in UpTo(D, k + 1) PROVE NarrowStep(h, conds, s) = NarrowStep(g, conds, s)
    <3>1. CASE s = {}  BY <3>1 DEF NarrowStep
    <3>2. CASE s # {}
      <4>1. Max(s) \in s  BY <3>2, MaxOfPlaces DEF D, UpTo
      <4> DEFINE t == s \ {Max(s)}
      <4>2. t \in UpTo(D, k)  BY <1>0, <4>1, Smaller
      <4>3. t \in UpTo(D, k + 1)  BY <4>2, <1>0, FS_Subset, FS_CardinalityType DEF UpTo
      <4>4. g[t] = NarrowStep(h, conds, t)  BY <4>3
      <4>5. h[t] = NarrowStep(h, conds, t)  BY <2>1, <4>2
      <4> QED  BY <3>2, <4>4, <4>5 DEF NarrowStep
    <3> QED  BY <3>1, <3>2
  <2>3. g = [s \in UpTo(D, k + 1) |-> NarrowStep(g, conds, s)]  BY <2>2
  <2> HIDE DEF g
  <2> QED  BY <2>3
<1>3. G = Nat
  <2> HIDE DEF G
  <2>1. G \in SUBSET Nat  BY DEF G
  <2> QED  BY <1>1, <1>2, <2>1, SetInduction
<1>4. Cardinality(D) \in G /\ UpTo(D, Cardinality(D)) = SUBSET D  BY <1>0, <1>3, AllUpTo
<1> QED  BY <1>4 DEF IsNarrowing

LEMMA JoiningExists ==
    ASSUME NEW n \in Nat, NEW atoms, DOMAIN atoms = 1..n, NEW f, NEW items, NEW first
    PROVE  \E h : IsJoining(h, f, items, first, atoms)
<1> DEFINE D == 1..n
           G == { k \in Nat : \E h : h = [s \in UpTo(D, k) |-> JoinStep(h, f, items, first, atoms, s)] }
<1>0. IsFiniteSet(D)  BY FS_Interval
<1>1. 0 \in G
  <2> DEFINE h == [s \in UpTo(D, 0) |-> <<first>>]
  <2>1. \A s \in UpTo(D, 0) : JoinStep(h, f, items, first, atoms, s) = <<first>>
    BY <1>0, AllUpTo DEF JoinStep
  <2> QED  BY <2>1
<1>2. ASSUME NEW k \in G PROVE k + 1 \in G
  <2>1. PICK h : h = [s \in UpTo(D, k) |-> JoinStep(h, f, items, first, atoms, s)]  OBVIOUS
  <2> DEFINE g == [s \in UpTo(D, k + 1) |-> JoinStep(h, f, items, first, atoms, s)]
  <2> HIDE DEF D
  <2>2. ASSUME NEW s \in UpTo(D, k + 1) PROVE JoinStep(h, f, items, first, atoms, s) = JoinStep(g, f, items, first, atoms, s)
    <3>1. CASE s = {}  BY <3>1 DEF JoinStep
    <3>2. CASE s # {}
      <4>1. Max(s) \in s  BY <3>2, MaxOfPlaces DEF D, UpTo
      <4> DEFINE t == s \ {Max(s)}
      <4>2. t \in UpTo(D, k)  BY <1>0, <4>1, Smaller
      <4>3. t \in UpTo(D, k + 1)  BY <4>2, <1>0, FS_Subset, FS_CardinalityType DEF UpTo
      <4>4. g[t] = JoinStep(h, f, items, first, atoms, t)  BY <4>3
      <4>5. h[t] = JoinStep(h, f, items, first, atoms, t)  BY <2>1, <4>2
      <4> QED  BY <3>2, <4>4, <4>5 DEF JoinStep
    <3> QED  BY <3>1, <3>2
  <2>3. g = [s \in UpTo(D, k + 1) |-> JoinStep(g, f, items, first, atoms, s)]  BY <2>2
  <2> HIDE DEF g
  <2> QED  BY <2>3
<1>3. G = Nat
  <2> HIDE DEF G
  <2>1. G \in SUBSET Nat  BY DEF G
  <2> QED  BY <1>1, <1>2, <2>1, SetInduction
<1>4. Cardinality(D) \in G /\ UpTo(D, Cardinality(D)) = SUBSET D  BY <1>0, <1>3, AllUpTo
<1> QED  BY <1>4 DEF IsJoining

LEMMA CountingExists ==
    ASSUME NEW fields, IsFiniteSet(fields), NEW cells, NEW precursor
    PROVE  \E h : IsCounting(h, cells, precursor, fields)
<1> DEFINE D == fields
           G == { k \in Nat : \E h : h = [s \in UpTo(D, k) |-> CountStep(h, cells, precursor, s)] }
<1>0. IsFiniteSet(D)  OBVIOUS
<1>1. 0 \in G
  <2> DEFINE h == [s \in UpTo(D, 0) |-> 1]
  <2>1. \A s \in UpTo(D, 0) : CountStep(h, cells, precursor, s) = 1
    BY <1>0, AllUpTo DEF CountStep
  <2> QED  BY <2>1
<1>2. ASSUME NEW k \in G PROVE k + 1 \in G
  <2>1. PICK h : h = [s \in UpTo(D, k) |-> CountStep(h, cells, precursor, s)]  OBVIOUS
  <2> DEFINE g == [s \in UpTo(D, k + 1) |-> CountStep(h, cells, precursor, s)]
  <2> HIDE DEF D
  <2>2. ASSUME NEW s \in UpTo(D, k + 1) PROVE CountStep(h, cells, precursor, s) = CountStep(g, cells, precursor, s)
    <3>1. CASE s = {}  BY <3>1 DEF CountStep
    <3>2. CASE s # {}
      <4>1. AnyOf(s) \in s  BY <3>2 DEF AnyOf
      <4> DEFINE t == s \ {AnyOf(s)}
      <4>2. t \in UpTo(D, k)  BY <1>0, <4>1, Smaller
      <4>3. t \in UpTo(D, k + 1)  BY <4>2, <1>0, FS_Subset, FS_CardinalityType DEF UpTo
      <4>4. g[t] = CountStep(h, cells, precursor, t)  BY <4>3
      <4>5. h[t] = CountStep(h, cells, precursor, t)  BY <2>1, <4>2
      <4> QED  BY <3>2, <4>4, <4>5 DEF CountStep
    <3> QED  BY <3>1, <3>2
  <2>3. g = [s \in UpTo(D, k + 1) |-> CountStep(g, cells, precursor, s)]  BY <2>2
  <2> HIDE DEF g
  <2> QED  BY <2>3
<1>3. G = Nat
  <2> HIDE DEF G
  <2>1. G \in SUBSET Nat  BY DEF G
  <2> QED  BY <1>1, <1>2, <2>1, SetInduction
<1>4. Cardinality(D) \in G /\ UpTo(D, Cardinality(D)) = SUBSET D  BY <1>0, <1>3, AllUpTo
<1> QED  BY <1>4 DEF IsCounting

LEMMA RegionNarrows ==
    ASSUME NEW n \in Nat, NEW conds, DOMAIN conds = 1..n
    PROVE  \E h : IsNarrowing(h, conds) /\ RuleRegion(conds) = h[DOMAIN conds]
<1>1. IsNarrowing(CHOOSE h : IsNarrowing(h, conds), conds)  BY NarrowingExists, Zenon
<1>2. RuleRegion(conds) = (CHOOSE h : IsNarrowing(h, conds))[DOMAIN conds]
  BY SMT DEF RuleRegion, FoldLeft, MapThenFoldSet, IsNarrowing, NarrowStep, Narrow
<1> QED  BY <1>1, <1>2

LEMMA MergedJoins ==
    ASSUME NEW f, NEW items, NEW atoms, NEW n \in Nat, DOMAIN Tail(atoms) = 1..n
    PROVE  \E h : /\ IsJoining(h, f, items, Head(atoms), Tail(atoms))
                  /\ Merged(f, atoms, items) = h[DOMAIN Tail(atoms)]
<1> DEFINE h == CHOOSE g : IsJoining(g, f, items, Head(atoms), Tail(atoms))
<1>1. IsJoining(h, f, items, Head(atoms), Tail(atoms))  BY JoiningExists, Zenon
<1>2. Merged(f, atoms, items) = h[DOMAIN Tail(atoms)]
  BY Zenon DEF Merged, FoldLeft, MapThenFoldSet, IsJoining, JoinStep, Joined
<1> QED  BY <1>1, <1>2

LEMMA CountCounts ==
    ASSUME NEW items, NEW cuts, NEW precursor, IsFiniteSet(AxisFields(items \cup cuts))
    PROVE  \E h : /\ IsCounting(h, items \cup cuts, precursor, AxisFields(items \cup cuts))
                  /\ StateCount(items, cuts, precursor) = 2 * h[AxisFields(items \cup cuts)]
<1> DEFINE fields == AxisFields(items \cup cuts)
           h == CHOOSE g : IsCounting(g, items \cup cuts, precursor, fields)
<1>1. IsCounting(h, items \cup cuts, precursor, fields)  BY CountingExists, Zenon
<1>2. StateCount(items, cuts, precursor) = 2 * h[fields]
  BY Zenon DEF StateCount, FoldSet, MapThenFoldSet, IsCounting, CountStep, AnyOf
<1> QED  BY <1>1, <1>2

-----------------------------------------------------------------------------
(* Tiles: intervals side by side.  Numbers are in half units, so an open end stops one  *)
(* short of it, and an interval holds the numbers from its first to its last.           *)

Intervals == [lo : Int, hi : Int, loc : BOOLEAN, hic : BOOLEAN]

FirstOf(t) == IF t.loc THEN t.lo ELSE t.lo + 1
LastOf(t) == IF t.hic THEN t.hi ELSE t.hi - 1

\* How far the next value of f is: every half unit, or every whole one.
Stride(f) == IF f \in IntegerFields THEN 2 ELSE 1

IsValue(f, v) ==
    /\ v \in Int /\ Domains[f].lo <= v /\ v <= Domains[f].hi
    /\ f \in IntegerFields => v % 2 = 0

IsTile(f, t) ==
    /\ t \in Intervals
    /\ t.lo % 2 = 0 /\ t.hi % 2 = 0
    /\ FirstOf(t) <= LastOf(t)
    /\ f \in IntegerFields => t.loc /\ t.hic

Spans(t, v) == FirstOf(t) <= v /\ v <= LastOf(t)

LEMMA DomainIs ==
    ASSUME NEW f \in NumericFields
    PROVE  /\ f \in Fields /\ f \notin BooleanFields /\ f \notin StringFields
           /\ Domains[f].lo \in Int /\ Domains[f].hi \in Int /\ Domains[f].lo < Domains[f].hi
           /\ Domains[f].lo % 2 = 0 /\ Domains[f].hi % 2 = 0
           /\ -INF < Domains[f].lo /\ Domains[f].hi < INF
BY RegionsAssumption, AxisAssumption

LEMMA TileIs ==
    ASSUME NEW f, NEW t, IsTile(f, t)
    PROVE  /\ FirstOf(t) \in Int /\ LastOf(t) \in Int /\ FirstOf(t) <= LastOf(t)
           /\ t.lo \in Int /\ t.hi \in Int /\ t.lo <= t.hi
           /\ t.lo <= FirstOf(t) /\ FirstOf(t) <= t.lo + 1
           /\ t.hi - 1 <= LastOf(t) /\ LastOf(t) <= t.hi
           /\ f \in IntegerFields => FirstOf(t) % 2 = 0 /\ LastOf(t) % 2 = 0
BY DEF IsTile, FirstOf, LastOf, Intervals

LEMMA InsideIs ==
    ASSUME NEW f \in NumericFields, NEW t, IsTile(f, t), NEW v \in Int
    PROVE  Inside(f, v, t) <=> Spans(t, v)
<1> DEFINE c == CommonInterval(t, I(v, v, TRUE, TRUE))
<1>1. t.lo \in Int /\ t.hi \in Int /\ t.loc \in BOOLEAN /\ t.hic \in BOOLEAN /\ t.lo <= t.hi
  BY TileIs DEF IsTile, Intervals
<1>2. /\ c.lo = IF t.lo > v THEN t.lo ELSE v
      /\ c.hi = IF t.hi < v THEN t.hi ELSE v
      /\ c.loc <=> (t.lo >= v => t.loc)
      /\ c.hic <=> (t.hi <= v => t.hic)
  BY <1>1 DEF CommonInterval, I
<1>3. Inside(f, v, t) <=> ~(c.lo > c.hi \/ (c.lo = c.hi /\ ~(c.loc /\ c.hic)))
  BY DomainIs DEF Inside, EmptyInterval
<1> HIDE DEF c
<1>4. Inside(f, v, t) <=> /\ t.lo < v \/ (t.lo = v /\ t.loc)
                          /\ v < t.hi \/ (t.hi = v /\ t.hic)
  <2>1. CASE v < t.lo  BY <1>1, <1>2, <1>3, <2>1
  <2>2. CASE v > t.hi  BY <1>1, <1>2, <1>3, <2>2
  <2>3. CASE t.lo <= v /\ v <= t.hi
    <3>1. c.lo = v /\ c.hi = v  BY <1>1, <1>2, <2>3
    <3> QED  BY <1>1, <1>2, <1>3, <2>3, <3>1
  <2> QED  BY <1>1, <2>1, <2>2, <2>3
<1> QED  BY <1>1, <1>4 DEF Spans, FirstOf, LastOf

\* Of two tiles the one that comes first has the smaller ends.
LEMMA TileKeys ==
    ASSUME NEW f, NEW a, NEW b, IsTile(f, a), IsTile(f, b), LastOf(a) < FirstOf(b)
    PROVE  a.lo + a.hi < b.lo + b.hi
<1>1. a.lo <= a.hi /\ b.lo <= b.hi /\ a.hi <= b.lo
  BY DEF IsTile, FirstOf, LastOf, Intervals
<1>2. ~(a.lo = a.hi /\ a.hi = b.lo /\ b.lo = b.hi)
  BY DEF IsTile, FirstOf, LastOf, Intervals
<1>3. a.lo \in Int /\ a.hi \in Int /\ b.lo \in Int /\ b.hi \in Int
  BY DEF IsTile, Intervals
<1> QED  BY <1>1, <1>2, <1>3

\* A set of tiles from one end of the field to the other.
TilesField(f, T) ==
    /\ IsFiniteSet(T)
    /\ \A t \in T : IsTile(f, t) /\ Domains[f].lo <= FirstOf(t) /\ LastOf(t) <= Domains[f].hi
    /\ \A s, t \in T : s = t \/ LastOf(s) < FirstOf(t) \/ LastOf(t) < FirstOf(s)
    /\ \E t \in T : FirstOf(t) = Domains[f].lo
    /\ \A s \in T : LastOf(s) < Domains[f].hi => \E t \in T : FirstOf(t) = LastOf(s) + Stride(f)

\* The cells of an axis, one after another.
TilesAxis(f, cells) ==
    /\ cells \in Seq(Intervals) /\ Len(cells) > 0
    /\ \A i \in 1..Len(cells) : IsTile(f, cells[i])
    /\ \A i \in 1..(Len(cells) - 1) : FirstOf(cells[i + 1]) = LastOf(cells[i]) + Stride(f)
    /\ FirstOf(cells[1]) = Domains[f].lo /\ LastOf(cells[Len(cells)]) = Domains[f].hi

Rank(T, t) == Cardinality({ u \in T : u.lo + u.hi < t.lo + t.hi })

LEMMA RankIs ==
    ASSUME NEW T, IsFiniteSet(T), \A t \in T : t.lo \in Int /\ t.hi \in Int
    PROVE  /\ \A t \in T : Rank(T, t) \in 0..(Cardinality(T) - 1)
           /\ \A s, t \in T : s.lo + s.hi < t.lo + t.hi => Rank(T, s) < Rank(T, t)
<1> DEFINE Lower(t) == { u \in T : u.lo + u.hi < t.lo + t.hi }
<1>0. \A t : Rank(T, t) = Cardinality(Lower(t))  BY DEF Rank
<1>1. Cardinality(T) \in Nat  BY FS_CardinalityType
<1>2. ASSUME NEW t \in T
      PROVE  IsFiniteSet(Lower(t)) /\ Cardinality(Lower(t)) \in Nat /\ Cardinality(Lower(t)) < Cardinality(T)
  <2>1. Lower(t) \subseteq T /\ t \notin Lower(t)  OBVIOUS
  <2>2. Lower(t) # T  BY <2>1
  <2> HIDE DEF Lower
  <2>3. IsFiniteSet(Lower(t)) /\ Cardinality(Lower(t)) <= Cardinality(T)
        /\ (Cardinality(Lower(t)) = Cardinality(T) => Lower(t) = T)
    BY <2>1, FS_Subset
  <2> QED  BY <1>1, <2>2, <2>3, FS_CardinalityType
<1>3. ASSUME NEW s \in T, NEW t \in T, s.lo + s.hi < t.lo + t.hi
      PROVE  Cardinality(Lower(s)) < Cardinality(Lower(t))
  <2>1. Lower(s) \subseteq Lower(t) /\ s \in Lower(t) /\ s \notin Lower(s)  BY <1>3
  <2> HIDE DEF Lower
  <2>2. Cardinality(Lower(s)) <= Cardinality(Lower(t))
        /\ (Cardinality(Lower(s)) = Cardinality(Lower(t)) => Lower(s) = Lower(t))
    BY <1>2, <2>1, FS_Subset
  <2> QED  BY <1>2, <2>1, <2>2
<1> HIDE DEF Lower
<1> QED  BY <1>0, <1>1, <1>2, <1>3

\* A function into n places that takes none twice, from n things, takes each.
LEMMA EachPlace ==
    ASSUME NEW T, IsFiniteSet(T), NEW r,
           \A t \in T : r[t] \in 0..(Cardinality(T) - 1),
           \A s, t \in T : r[s] = r[t] => s = t,
           NEW k \in 0..(Cardinality(T) - 1)
    PROVE  \E t \in T : r[t] = k
<1> DEFINE n == Cardinality(T)
           X == 0..(n - 1)
           g == [t \in T |-> r[t]]
           R == { g[t] : t \in T }
<1>1. n \in Nat  BY FS_CardinalityType
<1>2. IsFiniteSet(X) /\ Cardinality(X) = n
  <2> HIDE DEF n
  <2> QED  BY <1>1, FS_Interval
<1>3. R \subseteq X  OBVIOUS
<1>4. Cardinality(R) = n /\ IsFiniteSet(R)
  <2>1. g \in Bijection(T, R)
    BY DEF Bijection, Injection, Surjection, IsInjective
  <2> HIDE DEF g, R
  <2>2. ExistsBijection(T, R)  BY <2>1 DEF ExistsBijection
  <2> QED  BY <2>2, FS_Bijection
<1>5. R = X
  <2> HIDE DEF R, X, n
  <2> QED  BY <1>2, <1>3, <1>4, FS_Subset
<1>6. k \in R
  <2> HIDE DEF R
  <2> QED  BY <1>5
<1> QED  BY <1>6

\* Tiles of a whole field, put in order, lie one after another.
LEMMA InOrderIs ==
    ASSUME NEW f \in NumericFields, NEW T, TilesField(f, T)
    PROVE  TilesAxis(f, InOrder(T)) /\ \A i \in 1..Len(InOrder(T)) : InOrder(T)[i] \in T
<1> DEFINE n == Cardinality(T)
           s == InOrder(T)
           r == [t \in T |-> Rank(T, t)]
<1>0. /\ IsFiniteSet(T) /\ n \in Nat
      /\ Domains[f].lo \in Int /\ Domains[f].hi \in Int
  BY FS_CardinalityType, DomainIs DEF TilesField
<1>1. ASSUME NEW t \in T
      PROVE  /\ IsTile(f, t) /\ FirstOf(t) \in Int /\ LastOf(t) \in Int /\ FirstOf(t) <= LastOf(t)
             /\ t.lo \in Int /\ t.hi \in Int
             /\ Domains[f].lo <= FirstOf(t) /\ LastOf(t) <= Domains[f].hi
             /\ f \in IntegerFields => FirstOf(t) % 2 = 0 /\ LastOf(t) % 2 = 0
             /\ t \in Intervals
  BY TileIs DEF TilesField, IsTile
<1>2. ASSUME NEW a \in T, NEW b \in T
      PROVE  /\ LastOf(a) < FirstOf(b) => a.lo + a.hi < b.lo + b.hi
             /\ a.lo + a.hi < b.lo + b.hi => LastOf(a) < FirstOf(b)
             /\ a.lo + a.hi = b.lo + b.hi => a = b
  <2>1. LastOf(a) < FirstOf(b) => a.lo + a.hi < b.lo + b.hi  BY <1>1, TileKeys
  <2>2. LastOf(b) < FirstOf(a) => b.lo + b.hi < a.lo + a.hi  BY <1>1, TileKeys
  <2>3. a = b \/ LastOf(a) < FirstOf(b) \/ LastOf(b) < FirstOf(a)  BY DEF TilesField
  <2> QED  BY <1>1, <2>1, <2>2, <2>3
<1>3. /\ \A t \in T : Rank(T, t) \in 0..(n - 1)
      /\ \A a, b \in T : a.lo + a.hi < b.lo + b.hi => Rank(T, a) < Rank(T, b)
  BY <1>0, <1>1, RankIs
<1>4. \A a, b \in T : Rank(T, a) = Rank(T, b) => a = b
  <2> SUFFICES ASSUME NEW a \in T, NEW b \in T, Rank(T, a) = Rank(T, b) PROVE a = b
    OBVIOUS
  <2>1. Rank(T, a) \in Int /\ ~(a.lo + a.hi < b.lo + b.hi) /\ ~(b.lo + b.hi < a.lo + a.hi)
    BY <1>0, <1>3
  <2> QED  BY <1>1, <1>2, <2>1
<1>5. \A k \in 0..(n - 1) : \E t \in T : Rank(T, t) = k
  <2> SUFFICES ASSUME NEW k \in 0..(n - 1) PROVE \E t \in T : Rank(T, t) = k
    OBVIOUS
  <2>1. \A t \in T : r[t] = Rank(T, t)  OBVIOUS
  <2> HIDE DEF r
  <2>2. \E t \in T : r[t] = k  BY <1>0, <1>3, <1>4, <2>1, EachPlace
  <2> QED  BY <2>1, <2>2
<1>6. s = [k \in 1..n |-> CHOOSE t \in T : Rank(T, t) = k - 1]
  BY DEF InOrder, Rank
<1>7. \A k \in 1..n : s[k] \in T /\ Rank(T, s[k]) = k - 1
  <2> SUFFICES ASSUME NEW k \in 1..n PROVE s[k] \in T /\ Rank(T, s[k]) = k - 1
    OBVIOUS
  <2>1. s[k] = CHOOSE t \in T : Rank(T, t) = k - 1  BY <1>6
  <2>2. \E t \in T : Rank(T, t) = k - 1
    <3>1. k - 1 \in 0..(n - 1)  BY <1>0
    <3> QED  BY <1>5, <3>1
  <2> HIDE DEF s
  <2> QED  BY <2>1, <2>2
<1>8. s \in Seq(Intervals) /\ Len(s) = n
  <2>1. s \in [1..n -> Intervals]  BY <1>1, <1>6, <1>7
  <2> HIDE DEF s, n
  <2> QED  BY <1>0, <2>1
<1>9. ASSUME NEW t \in T, NEW k \in 1..n, Rank(T, t) = k - 1 PROVE s[k] = t
  BY <1>4, <1>7, <1>9
<1> HIDE DEF s, r
<1>10. ASSUME NEW a \in T, NEW b \in T, FirstOf(b) = LastOf(a) + Stride(f)
       PROVE  Rank(T, b) = Rank(T, a) + 1
  <2> DEFINE A == { u \in T : u.lo + u.hi < a.lo + a.hi }
             B == { u \in T : u.lo + u.hi < b.lo + b.hi }
  <2>1. LastOf(a) < FirstOf(b)  BY <1>1, <1>10 DEF Stride
  <2>2. a.lo + a.hi < b.lo + b.hi  BY <1>2, <2>1
  <2>3. ASSUME NEW u \in B, u # a PROVE u \in A
    <3>1. LastOf(u) < FirstOf(b)  BY <1>2
    <3>2. ~(LastOf(a) < FirstOf(u))
      <4> SUFFICES ASSUME LastOf(a) < FirstOf(u) PROVE FALSE
        OBVIOUS
      <4>1. /\ FirstOf(u) \in Int /\ LastOf(u) \in Int /\ FirstOf(u) <= LastOf(u)
            /\ LastOf(a) \in Int /\ FirstOf(b) \in Int
            /\ f \in IntegerFields => LastOf(a) % 2 = 0 /\ FirstOf(u) % 2 = 0
        BY <1>1
      <4> QED  BY <1>10, <3>1, <4>1 DEF Stride
    <3>3. LastOf(u) < FirstOf(a)  BY <2>3, <3>2 DEF TilesField
    <3> QED  BY <1>2, <3>3
  <2>4. B = A \cup {a}
    <3>1. \A u \in A : u \in B  BY <1>1, <2>2
    <3>2. a \in B  BY <2>2
    <3> HIDE DEF A, B
    <3> QED  BY <2>3, <3>1, <3>2 DEF A
  <2>5. a \notin A /\ A \subseteq T  BY <1>1
  <2>6. Rank(T, a) = Cardinality(A) /\ Rank(T, b) = Cardinality(B)  BY DEF Rank
  <2> HIDE DEF A, B
  <2>7. IsFiniteSet(A)  BY <1>0, <2>5, FS_Subset
  <2> QED  BY <2>4, <2>5, <2>6, <2>7, FS_AddElement
<1>11. \A k \in 1..(n - 1) : FirstOf(s[k + 1]) = LastOf(s[k]) + Stride(f)
  <2> SUFFICES ASSUME NEW k \in 1..(n - 1) PROVE FirstOf(s[k + 1]) = LastOf(s[k]) + Stride(f)
    OBVIOUS
  <2>1. k \in 1..n /\ k + 1 \in 1..n /\ (k + 1) - 1 = k  BY <1>0
  <2> DEFINE a == s[k]
             c == s[k + 1]
  <2>2. a \in T /\ c \in T /\ Rank(T, a) = k - 1 /\ Rank(T, c) = k  BY <1>7, <2>1
  <2> HIDE DEF a, c
  <2>3. a.lo + a.hi < c.lo + c.hi
    <3>1. ~(c.lo + c.hi < a.lo + a.hi)  BY <1>3, <2>2
    <3>2. a # c  BY <2>2
    <3> QED  BY <1>1, <1>2, <2>2, <3>1, <3>2
  <2>4. LastOf(a) < Domains[f].hi  BY <1>0, <1>1, <1>2, <2>2, <2>3
  <2>5. PICK b \in T : FirstOf(b) = LastOf(a) + Stride(f)  BY <2>2, <2>4 DEF TilesField
  <2>6. Rank(T, b) = (k + 1) - 1  BY <1>10, <2>1, <2>2, <2>5
  <2>7. s[k + 1] = b  BY <1>9, <2>1, <2>6
  <2> QED  BY <2>5, <2>7 DEF a
<1>12. n > 0 /\ FirstOf(s[1]) = Domains[f].lo
  <2>1. PICK t \in T : FirstOf(t) = Domains[f].lo  BY DEF TilesField
  <2>2. { u \in T : u.lo + u.hi < t.lo + t.hi } = {}
    <3> SUFFICES ASSUME NEW u \in T, u.lo + u.hi < t.lo + t.hi PROVE FALSE
      OBVIOUS
    <3>1. LastOf(u) < FirstOf(t)  BY <1>2
    <3> QED  BY <1>0, <1>1, <2>1, <3>1
  <2>3. Rank(T, t) = 0  BY <2>2, FS_EmptySet DEF Rank
  <2>4. n > 0  BY <1>0, <1>3
  <2>5. 1 \in 1..n /\ 0 = 1 - 1  BY <1>0, <2>4
  <2>6. s[1] = t  BY <1>9, <2>3, <2>5
  <2> QED  BY <2>1, <2>4, <2>6
<1>13. LastOf(s[n]) = Domains[f].hi
  <2>1. n \in 1..n  BY <1>0, <1>12
  <2>2. s[n] \in T /\ Rank(T, s[n]) = n - 1  BY <1>7, <2>1
  <2> SUFFICES ASSUME LastOf(s[n]) < Domains[f].hi PROVE FALSE
    BY <1>0, <1>1, <2>2
  <2>3. PICK b \in T : FirstOf(b) = LastOf(s[n]) + Stride(f)  BY <2>2 DEF TilesField
  <2>4. Rank(T, b) = (n - 1) + 1  BY <1>10, <2>2, <2>3
  <2>5. Rank(T, b) \in 0..(n - 1)  BY <1>3
  <2> QED  BY <1>0, <2>4, <2>5
<1>14. \A i \in 1..n : IsTile(f, s[i])  BY <1>1, <1>7
<1> HIDE DEF n
<1>15. TilesAxis(f, s)  BY <1>8, <1>11, <1>12, <1>13, <1>14 DEF TilesAxis
<1>16. \A i \in 1..Len(s) : s[i] \in T  BY <1>7, <1>8
<1> QED  BY <1>15, <1>16 DEF s

\* Cells one after another are in order, and every value lies in one.
LEMMA AxisOrder ==
    ASSUME NEW f \in NumericFields, NEW cells, TilesAxis(f, cells),
           NEW i \in 1..Len(cells), NEW j \in 1..Len(cells), i < j
    PROVE  LastOf(cells[i]) < FirstOf(cells[j])
<1> DEFINE n == Len(cells)
           S == { k \in Nat : i + 1 + k <= n => LastOf(cells[i]) < FirstOf(cells[i + 1 + k]) }
<1>0. n \in Nat /\ \A k \in 1..n :
          /\ FirstOf(cells[k]) \in Int /\ LastOf(cells[k]) \in Int
          /\ FirstOf(cells[k]) <= LastOf(cells[k])
  BY TileIs DEF TilesAxis
<1> HIDE DEF n
<1>a. i \in 1..n /\ j \in 1..n  BY DEF n
<1>1. ASSUME NEW k \in 1..(n - 1) PROVE LastOf(cells[k]) < FirstOf(cells[k + 1])
  <2>1. FirstOf(cells[k + 1]) = LastOf(cells[k]) + Stride(f)  BY DEF TilesAxis, n
  <2>2. k \in 1..n  BY <1>0
  <2> QED  BY <1>0, <2>1, <2>2 DEF Stride
<1>2. 0 \in S
  <2>1. i + 1 <= n => i \in 1..(n - 1)  BY <1>0, <1>a
  <2>2. i + 1 + 0 = i + 1  BY <1>0, <1>a
  <2> QED  BY <1>1, <2>1, <2>2
<1>3. ASSUME NEW k \in S PROVE k + 1 \in S
  <2> SUFFICES ASSUME i + 1 + (k + 1) <= n
               PROVE  LastOf(cells[i]) < FirstOf(cells[i + 1 + (k + 1)])
    OBVIOUS
  <2> DEFINE m == i + 1 + k
  <2>1. /\ k \in Nat /\ m \in 1..(n - 1) /\ m \in 1..n /\ m + 1 \in 1..n
        /\ i + 1 + (k + 1) = m + 1 /\ m <= n
    BY <1>0, <1>a
  <2>2. LastOf(cells[i]) < FirstOf(cells[m])  BY <1>3, <2>1
  <2> HIDE DEF m
  <2>3. LastOf(cells[m]) < FirstOf(cells[m + 1])  BY <1>1, <2>1
  <2>4. /\ LastOf(cells[i]) \in Int /\ LastOf(cells[m]) \in Int
        /\ FirstOf(cells[m]) \in Int /\ FirstOf(cells[m]) <= LastOf(cells[m])
        /\ FirstOf(cells[m + 1]) \in Int
    BY <1>0, <1>a, <2>1
  <2>5. LastOf(cells[i]) < FirstOf(cells[m + 1])  BY <2>2, <2>3, <2>4
  <2> QED  BY <2>1, <2>5
<1>4. S = Nat
  <2> HIDE DEF S
  <2>1. S \in SUBSET Nat  BY DEF S
  <2> QED  BY <1>2, <1>3, <2>1, SetInduction
<1>5. j - i - 1 \in Nat /\ i + 1 + (j - i - 1) = j /\ j <= n  BY <1>0, <1>a
<1>6. j - i - 1 \in S
  <2> HIDE DEF S
  <2> QED  BY <1>4, <1>5
<1> QED  BY <1>5, <1>6

LEMMA AxisCovers ==
    ASSUME NEW f \in NumericFields, NEW cells, TilesAxis(f, cells), NEW v, IsValue(f, v)
    PROVE  \E i \in 1..Len(cells) : Spans(cells[i], v)
<1> DEFINE n == Len(cells)
           ends == { k \in 1..n : v <= LastOf(cells[k]) }
<1>0. n \in Nat /\ n > 0 /\ \A k \in 1..n :
          /\ FirstOf(cells[k]) \in Int /\ LastOf(cells[k]) \in Int
          /\ FirstOf(cells[k]) <= LastOf(cells[k])
          /\ f \in IntegerFields => FirstOf(cells[k]) % 2 = 0 /\ LastOf(cells[k]) % 2 = 0
  BY TileIs DEF TilesAxis
<1>1. n \in ends
  <2>1. n \in 1..n  BY <1>0
  <2>2. v <= LastOf(cells[n])  BY DEF TilesAxis, IsValue
  <2> QED  BY <2>1, <2>2
<1>2. ends \in SUBSET Nat  OBVIOUS
<1>3. PICK i \in ends : \A k \in ends : i <= k
  <2> HIDE DEF ends
  <2> QED  BY <1>1, <1>2, LeastNumber
<1>4. FirstOf(cells[i]) <= v
  <2>1. CASE i = 1  BY <2>1 DEF TilesAxis, IsValue
  <2>2. CASE i # 1
    <3>1. i - 1 \in 1..n /\ i - 1 \in 1..(n - 1) /\ (i - 1) + 1 = i  BY <1>0, <2>2
    <3>2. i - 1 \notin ends
      <4> HIDE DEF ends
      <4>1. i - 1 < i  BY <3>1
      <4> QED  BY <1>2, <1>3, <3>1, <4>1
    <3>3. LastOf(cells[i - 1]) < v  BY <1>0, <3>1, <3>2 DEF IsValue
    <3>4. FirstOf(cells[i]) = LastOf(cells[i - 1]) + Stride(f)  BY <3>1 DEF TilesAxis
    <3> DEFINE b == LastOf(cells[i - 1])
               a == FirstOf(cells[i])
    <3>5. b \in Int /\ a \in Int /\ (f \in IntegerFields => b % 2 = 0)  BY <1>0, <3>1
    <3>6. b < v /\ a = b + Stride(f)  BY <3>3, <3>4
    <3> HIDE DEF a, b
    <3>7. a <= v  BY <3>5, <3>6 DEF Stride, IsValue
    <3> QED  BY <3>7 DEF a
  <2> QED  BY <2>1, <2>2
<1> QED  BY <1>3, <1>4 DEF Spans

-----------------------------------------------------------------------------
(* The atoms of a field: its cuts, and what lies between them *)

IsCuts(f, cuts) ==
    \A c \in cuts : /\ c \in Int /\ c % 2 = 0
                    /\ Domains[f].lo <= c /\ c <= Domains[f].hi

EndsOf(f, cuts) == cuts \cup {Domains[f].lo, Domains[f].hi}

NextTo(E, d, e) == d \in E /\ e \in E /\ d < e /\ ~\E c \in E : d < c /\ c < e

LEMMA GapIs ==
    ASSUME NEW f \in NumericFields, NEW cuts, NEW d \in Int, NEW e \in Int, d % 2 = 0, e % 2 = 0
    PROVE  LET t == Gap(f, cuts, d, e)
           IN  /\ t \in Intervals /\ t.lo % 2 = 0 /\ t.hi % 2 = 0
               /\ FirstOf(t) = IF d \in cuts THEN d + Stride(f) ELSE d
               /\ LastOf(t) = IF e \in cuts THEN e - Stride(f) ELSE e
               /\ d < e => (EmptyInterval(t, f \in IntegerFields) <=> LastOf(t) < FirstOf(t))
               /\ f \in IntegerFields => t.loc /\ t.hic
<1> DEFINE left == d \notin cuts
           right == e \notin cuts
           open == I(d, e, left, right)
           t == Gap(f, cuts, d, e)
<1>0. left \in BOOLEAN /\ right \in BOOLEAN /\ (left <=> d \notin cuts) /\ (right <=> e \notin cuts)
  OBVIOUS
<1>1. CASE f \in IntegerFields
  <2>1. t = I(IntLo(open), IntHi(open), TRUE, TRUE)  BY <1>1 DEF Gap
  <2>0. open.lo = d /\ open.hi = e /\ (open.loc <=> d \notin cuts) /\ (open.hic <=> e \notin cuts)
    BY DEF I
  <2> HIDE DEF open
  <2>2. /\ IntLo(open) = IF d \in cuts THEN d + 2 ELSE d
        /\ IntHi(open) = IF e \in cuts THEN e - 2 ELSE e
    BY <2>0 DEF IntLo, IntHi
  <2>3. IntLo(open) \in Int /\ IntLo(open) % 2 = 0 /\ IntHi(open) \in Int /\ IntHi(open) % 2 = 0
    BY <2>2
  <2>4. /\ t \in Intervals /\ t.lo = IntLo(open) /\ t.hi = IntHi(open) /\ t.loc = TRUE /\ t.hic = TRUE
    BY <2>1, <2>3 DEF I, Intervals
  <2> HIDE DEF t
  <2>5. EmptyInterval(t, TRUE) <=> t.lo > t.hi
    BY <2>3, <2>4 DEF EmptyInterval, IntLo, IntHi
  <2>6. EmptyInterval(t, f \in IntegerFields) <=> EmptyInterval(t, TRUE)  BY <1>1 DEF EmptyInterval
  <2>7. FirstOf(t) = t.lo /\ LastOf(t) = t.hi  BY <2>4 DEF FirstOf, LastOf
  <2> QED  BY <1>1, <2>2, <2>3, <2>4, <2>5, <2>6, <2>7 DEF Stride, t
<1>2. CASE f \notin IntegerFields
  <2>1. t = open  BY <1>2 DEF Gap
  <2> HIDE DEF t, left, right
  <2>2. /\ t \in Intervals /\ t.lo = d /\ t.hi = e
        /\ (t.loc <=> d \notin cuts) /\ (t.hic <=> e \notin cuts)
    BY <1>0, <2>1 DEF I, Intervals
  <2> HIDE DEF open
  <2>3. EmptyInterval(t, f \in IntegerFields) <=> t.lo > t.hi \/ (t.lo = t.hi /\ ~(t.loc /\ t.hic))
    BY <1>2 DEF EmptyInterval
  <2>4. FirstOf(t) = (IF d \in cuts THEN d + 1 ELSE d) /\ LastOf(t) = (IF e \in cuts THEN e - 1 ELSE e)
    BY <2>2 DEF FirstOf, LastOf
  <2> QED  BY <1>2, <2>2, <2>3, <2>4 DEF Stride, t
<1> QED  BY <1>1, <1>2

LEMMA NextExists ==
    ASSUME NEW E \in SUBSET Int, NEW d \in E, NEW top \in E, d < top
    PROVE  \E e \in E : NextTo(E, d, e)
<1> DEFINE far == { e - d : e \in { x \in E : d < x } }
<1>1. far \in SUBSET Nat /\ far # {}
  <2>1. \A x \in E : d < x => x - d \in Nat  OBVIOUS
  <2>2. top - d \in far  OBVIOUS
  <2> QED  BY <2>1, <2>2
<1>2. PICK n \in far : \A k \in far : n <= k
  <2> HIDE DEF far
  <2> QED  BY <1>1, LeastNumber
<1>3. PICK e \in E : d < e /\ n = e - d  BY <1>2
<1>4. ASSUME NEW c \in E, d < c, c < e PROVE FALSE
  <2>1. c - d \in far  BY <1>4
  <2>2. n <= c - d  BY <1>2, <2>1
  <2> QED  BY <1>3, <1>4, <2>2
<1> QED  BY <1>3, <1>4 DEF NextTo

PointAt(c) == I(c, c, TRUE, TRUE)

PairsOf(E) == { d \in E \X E : d[1] < d[2] /\ ~\E c \in E : d[1] < c /\ c < d[2] }

LEMMA TilesOf ==
    ASSUME NEW f, NEW cuts, NEW t
    PROVE  t \in Tiles(f, cuts) <=>
              \/ \E c \in cuts : t = PointAt(c)
              \/ /\ ~EmptyInterval(t, f \in IntegerFields)
                 /\ \E e \in PairsOf(EndsOf(f, cuts)) : t = Gap(f, cuts, e[1], e[2])
BY DEF Tiles, EndsOf, PointAt, PairsOf

LEMMA TilesAre ==
    ASSUME NEW f \in NumericFields, NEW cuts, IsFiniteSet(cuts), IsCuts(f, cuts)
    PROVE  /\ TilesField(f, Tiles(f, cuts))
           /\ \A t \in Tiles(f, cuts) : \A c \in cuts : Spans(t, c) => FirstOf(t) = LastOf(t)
<1> DEFINE lo == Domains[f].lo
           hi == Domains[f].hi
           E == EndsOf(f, cuts)
           T == Tiles(f, cuts)
           Between(d, e) == Gap(f, cuts, d, e)
           Pairs == PairsOf(E)
<1>0. /\ lo \in Int /\ hi \in Int /\ lo < hi /\ lo % 2 = 0 /\ hi % 2 = 0
      /\ E \in SUBSET Int /\ lo \in E /\ hi \in E
      /\ \A c \in E : c % 2 = 0 /\ lo <= c /\ c <= hi
      /\ \A c \in cuts : c \in E
      /\ \A c \in E : c \in cuts \/ c = lo \/ c = hi
  BY DomainIs DEF IsCuts, EndsOf
<1>1. \A t : t \in T <=> \/ \E c \in cuts : t = PointAt(c)
                        \/ /\ ~EmptyInterval(t, f \in IntegerFields)
                           /\ \E e \in Pairs : t = Between(e[1], e[2])
  BY TilesOf
<1>2. /\ Pairs \subseteq E \X E
      /\ \A d, e : <<d, e>> \in Pairs <=> NextTo(E, d, e)
      /\ \A p \in Pairs : NextTo(E, p[1], p[2])
  BY DEF NextTo, PairsOf
<1>3. ASSUME NEW c \in cuts
      PROVE  PointAt(c) \in T /\ IsTile(f, PointAt(c)) /\ FirstOf(PointAt(c)) = c /\ LastOf(PointAt(c)) = c
  <2>1. c \in Int /\ c % 2 = 0  BY DEF IsCuts
  <2> QED  BY <1>1, <2>1 DEF IsTile, Intervals, I, FirstOf, LastOf, PointAt
<1>4. ASSUME NEW d, NEW e, NextTo(E, d, e)
      PROVE  LET g == Between(d, e)
             IN  /\ FirstOf(g) = IF d \in cuts THEN d + Stride(f) ELSE d
                 /\ LastOf(g) = IF e \in cuts THEN e - Stride(f) ELSE e
                 /\ FirstOf(g) <= LastOf(g) => g \in T /\ IsTile(f, g)
                 /\ ~EmptyInterval(g, f \in IntegerFields) => FirstOf(g) <= LastOf(g)
  <2> DEFINE g == Between(d, e)
  <2>1. d \in Int /\ e \in Int /\ d < e /\ d % 2 = 0 /\ e % 2 = 0  BY <1>0, <1>4 DEF NextTo
  <2>2. /\ g \in Intervals /\ g.lo % 2 = 0 /\ g.hi % 2 = 0
        /\ FirstOf(g) = IF d \in cuts THEN d + Stride(f) ELSE d
        /\ LastOf(g) = IF e \in cuts THEN e - Stride(f) ELSE e
        /\ (EmptyInterval(g, f \in IntegerFields) <=> LastOf(g) < FirstOf(g))
        /\ (f \in IntegerFields => g.loc /\ g.hic)
    BY <2>1, GapIs
  <2>3. ~EmptyInterval(g, f \in IntegerFields) => g \in T
    <3> SUFFICES ASSUME ~EmptyInterval(g, f \in IntegerFields) PROVE g \in T
      OBVIOUS
    <3>1. <<d, e>> \in Pairs /\ <<d, e>>[1] = d /\ <<d, e>>[2] = e  BY <1>2, <1>4
    <3> HIDE DEF Pairs, T
    <3> QED  BY <1>1, <3>1
  <2> HIDE DEF g, T
  <2>4. FirstOf(g) \in Int /\ LastOf(g) \in Int  BY <2>1, <2>2 DEF Stride
  <2>5. EmptyInterval(g, f \in IntegerFields) <=> ~(FirstOf(g) <= LastOf(g))  BY <2>2, <2>4
  <2> QED  BY <2>2, <2>3, <2>5 DEF IsTile, g
<1>5. ASSUME NEW t \in T
      PROVE  \/ \E c \in cuts : t = PointAt(c)
             \/ \E d, e \in E : /\ NextTo(E, d, e) /\ t = Between(d, e)
                                /\ FirstOf(t) <= LastOf(t) /\ IsTile(f, t)
  <2>1. CASE t \in { PointAt(c) : c \in cuts }  BY <2>1
  <2>2. CASE t \notin { PointAt(c) : c \in cuts }
    <3>1. ~EmptyInterval(t, f \in IntegerFields) /\ \E p \in Pairs : t = Between(p[1], p[2])
      <4> HIDE DEF Pairs, T, Between
      <4> QED  BY <1>1, <2>2
    <3>2. PICK p \in Pairs : t = Between(p[1], p[2])  BY <3>1
    <3>3. p[1] \in E /\ p[2] \in E /\ NextTo(E, p[1], p[2])  BY <1>2, <3>2
    <3> HIDE DEF Between, T, Pairs
    <3> QED  BY <1>4, <3>1, <3>2, <3>3
  <2> QED  BY <2>1, <2>2
<1> HIDE DEF T
<1>6. IsFiniteSet(T)
  <2>1. IsFiniteSet({ PointAt(c) : c \in cuts })
    <3> DEFINE p == [c \in cuts |-> PointAt(c)]
    <3>1. IsFiniteSet({ p[c] : c \in cuts })
      <4> HIDE DEF p
      <4> QED  BY ImageFinite
    <3>2. { PointAt(c) : c \in cuts } = { p[c] : c \in cuts }  OBVIOUS
    <3> HIDE DEF p
    <3> QED  BY <3>1, <3>2
  <2>2. IsFiniteSet(E)
    <3>1. IsFiniteSet({lo}) /\ IsFiniteSet({hi})  BY FS_Singleton
    <3>2. IsFiniteSet(cuts \cup {lo}) /\ IsFiniteSet((cuts \cup {lo}) \cup {hi})  BY FS_AddElement
    <3>3. E = (cuts \cup {lo}) \cup {hi}  BY DEF EndsOf
    <3> QED  BY <3>2, <3>3
  <2>3. IsFiniteSet(Pairs)
    <3>1. IsFiniteSet(E \X E)  BY <2>2, FS_Product
    <3> QED  BY <1>2, <3>1, FS_Subset
  <2> DEFINE gap == [e \in Pairs |-> Between(e[1], e[2])]
             G == { Between(e[1], e[2]) : e \in Pairs }
             P == { PointAt(c) : c \in cuts }
  <2>4. IsFiniteSet(G)
    <3>1. IsFiniteSet({ gap[e] : e \in Pairs })
      <4> HIDE DEF gap
      <4> QED  BY <2>3, ImageFinite
    <3>2. G = { gap[e] : e \in Pairs }  OBVIOUS
    <3> HIDE DEF gap, G
    <3> QED  BY <3>1, <3>2
  <2>5. T \subseteq P \cup G
    <3> HIDE DEF Pairs, Between
    <3> QED  BY <1>1
  <2> HIDE DEF P, G
  <2> QED  BY <2>1, <2>4, <2>5, FS_Union, FS_Subset DEF P
<1> HIDE DEF Pairs, Between
<1>7. \A t \in T : IsTile(f, t) /\ lo <= FirstOf(t) /\ LastOf(t) <= hi
  <2> SUFFICES ASSUME NEW t \in T PROVE IsTile(f, t) /\ lo <= FirstOf(t) /\ LastOf(t) <= hi
    OBVIOUS
  <2>1. CASE \E c \in cuts : t = PointAt(c)
    <3> QED  BY <1>0, <1>3, <2>1
  <2>2. CASE \E d, e \in E : NextTo(E, d, e) /\ t = Between(d, e) /\ FirstOf(t) <= LastOf(t) /\ IsTile(f, t)
    <3>1. PICK d \in E, e \in E : NextTo(E, d, e) /\ t = Between(d, e) /\ FirstOf(t) <= LastOf(t) /\ IsTile(f, t)
      BY <2>2
    <3>2. /\ FirstOf(t) = IF d \in cuts THEN d + Stride(f) ELSE d
          /\ LastOf(t) = IF e \in cuts THEN e - Stride(f) ELSE e
      BY <1>4, <3>1
    <3>3. d \in Int /\ e \in Int /\ lo <= d /\ e <= hi  BY <1>0, <3>1
    <3> HIDE DEF lo, hi, E
    <3> QED  BY <1>0, <3>1, <3>2, <3>3 DEF Stride
  <2> QED  BY <1>5, <2>1, <2>2
<1>8. ASSUME NEW t \in T
      PROVE  \/ \E c \in cuts : t = PointAt(c) /\ FirstOf(t) = c /\ LastOf(t) = c
             \/ \E d, e \in E : /\ NextTo(E, d, e) /\ t = Between(d, e) /\ FirstOf(t) <= LastOf(t)
                                /\ FirstOf(t) = IF d \in cuts THEN d + Stride(f) ELSE d
                                /\ LastOf(t) = IF e \in cuts THEN e - Stride(f) ELSE e
  BY <1>3, <1>4, <1>5
<1>9. Stride(f) \in {1, 2} /\ (f \in IntegerFields <=> Stride(f) = 2)  BY DEF Stride
<1> DEFINE w == Stride(f)
<1> HIDE DEF lo, hi, E, w
<1>10. ASSUME NEW d, NEW e, NextTo(E, d, e)
       PROVE  /\ d \in Int /\ e \in Int /\ d < e /\ d % 2 = 0 /\ e % 2 = 0 /\ lo <= d /\ e <= hi
              /\ d \in E /\ e \in E /\ d + 2 <= e
              /\ \A c \in E : c <= d \/ e <= c
              /\ d \notin cuts => d = lo
              /\ e \notin cuts => e = hi
  <2>1. d \in E /\ e \in E /\ d < e /\ \A c \in E : ~(d < c /\ c < e)  BY <1>10 DEF NextTo
  <2>2. d \in Int /\ e \in Int /\ d % 2 = 0 /\ e % 2 = 0 /\ lo <= d /\ e <= hi
    BY <1>0, <2>1
  <2>3. \A c \in E : c \in Int  BY <1>0
  <2>4. \A c \in E : c <= d \/ e <= c  BY <2>1, <2>2, <2>3
  <2>5. d # hi /\ e # lo  BY <1>0, <2>1, <2>2
  <2>6. d + 2 <= e  BY <2>1, <2>2
  <2> QED  BY <1>0, <2>1, <2>2, <2>4, <2>5, <2>6
<1>11. ASSUME NEW c \in cuts, NEW d, NEW e, NextTo(E, d, e), NEW t \in T,
              FirstOf(t) = IF d \in cuts THEN d + w ELSE d,
              LastOf(t) = IF e \in cuts THEN e - w ELSE e
       PROVE  LastOf(t) < c \/ c < FirstOf(t)
  <2>1. c \in E /\ c \in Int  BY <1>0
  <2>2. c <= d \/ e <= c  BY <1>10, <1>11, <2>1
  <2>3. d \in Int /\ e \in Int  BY <1>10, <1>11
  <2>4. w \in {1, 2}  BY <1>9 DEF w
  <2>5. CASE c <= d
    <3>1. c = d => d \in cuts  OBVIOUS
    <3> QED  BY <1>11, <2>1, <2>3, <2>4, <2>5, <3>1
  <2>6. CASE e <= c
    <3>1. c = e => e \in cuts  OBVIOUS
    <3> QED  BY <1>11, <2>1, <2>3, <2>4, <2>6, <3>1
  <2> QED  BY <2>2, <2>5, <2>6
<1>12. ASSUME NEW d, NEW e, NextTo(E, d, e), NEW x, NEW y, NextTo(E, x, y), d < x
       PROVE  (IF e \in cuts THEN e - w ELSE e) < (IF x \in cuts THEN x + w ELSE x)
  <2>1. e <= x /\ d \in Int /\ e \in Int /\ x \in Int /\ y \in Int /\ x < y /\ y <= hi /\ hi \in Int
    <3>1. x \in E  BY <1>10, <1>12
    <3>2. x <= d \/ e <= x  BY <1>10, <1>12, <3>1
    <3> QED  BY <1>0, <1>10, <1>12, <3>2
  <2>2. w \in {1, 2}  BY <1>9 DEF w
  <2>3. e = x => e \in cuts
    <3>1. e \notin cuts => e = hi  BY <1>10, <1>12
    <3> QED  BY <2>1, <3>1
  <2> QED  BY <2>1, <2>2, <2>3
<1>13. \A s, t \in T : s = t \/ LastOf(s) < FirstOf(t) \/ LastOf(t) < FirstOf(s)
  <2> SUFFICES ASSUME NEW s \in T, NEW t \in T
               PROVE  s = t \/ LastOf(s) < FirstOf(t) \/ LastOf(t) < FirstOf(s)
    OBVIOUS
  <2> DEFINE Dot(q) == \E c \in cuts : q = PointAt(c) /\ FirstOf(q) = c /\ LastOf(q) = c
             Space(q) == \E d, e \in E : /\ NextTo(E, d, e) /\ q = Between(d, e)
                                         /\ FirstOf(q) = IF d \in cuts THEN d + w ELSE d
                                         /\ LastOf(q) = IF e \in cuts THEN e - w ELSE e
  <2>1. (Dot(s) \/ Space(s)) /\ (Dot(t) \/ Space(t))  BY <1>8 DEF w
  <2>2. CASE Dot(s) /\ Dot(t)
    <3>1. PICK c \in cuts, k \in cuts : /\ s = PointAt(c) /\ LastOf(s) = c /\ FirstOf(s) = c
                                        /\ t = PointAt(k) /\ LastOf(t) = k /\ FirstOf(t) = k
      BY <2>2
    <3>2. c \in Int /\ k \in Int  BY <1>0
    <3>3. c = k \/ c < k \/ k < c  BY <3>2
    <3> QED  BY <3>1, <3>3
  <2>3. CASE Dot(s) /\ Space(t)
    <3>1. PICK c \in cuts : FirstOf(s) = c /\ LastOf(s) = c  BY <2>3
    <3>2. PICK d \in E, e \in E : /\ NextTo(E, d, e)
                                  /\ FirstOf(t) = IF d \in cuts THEN d + w ELSE d
                                  /\ LastOf(t) = IF e \in cuts THEN e - w ELSE e
      BY <2>3
    <3> QED  BY <1>11, <3>1, <3>2
  <2>4. CASE Space(s) /\ Dot(t)
    <3>1. PICK c \in cuts : FirstOf(t) = c /\ LastOf(t) = c  BY <2>4
    <3>2. PICK d \in E, e \in E : /\ NextTo(E, d, e)
                                  /\ FirstOf(s) = IF d \in cuts THEN d + w ELSE d
                                  /\ LastOf(s) = IF e \in cuts THEN e - w ELSE e
      BY <2>4
    <3> QED  BY <1>11, <3>1, <3>2
  <2>5. CASE Space(s) /\ Space(t)
    <3>1. PICK d \in E, e \in E : /\ NextTo(E, d, e) /\ s = Between(d, e)
                                  /\ FirstOf(s) = IF d \in cuts THEN d + w ELSE d
                                  /\ LastOf(s) = IF e \in cuts THEN e - w ELSE e
      BY <2>5
    <3>2. PICK x \in E, y \in E : /\ NextTo(E, x, y) /\ t = Between(x, y)
                                  /\ FirstOf(t) = IF x \in cuts THEN x + w ELSE x
                                  /\ LastOf(t) = IF y \in cuts THEN y - w ELSE y
      BY <2>5
    <3>3. d \in Int /\ x \in Int  BY <1>0
    <3>4. CASE d < x  BY <1>12, <3>1, <3>2, <3>4
    <3>5. CASE x < d  BY <1>12, <3>1, <3>2, <3>5
    <3>6. CASE d = x
      <4>1. e <= y /\ y <= e /\ e \in Int /\ y \in Int
        <5>1. NextTo(E, d, e) /\ NextTo(E, d, y)  BY <3>1, <3>2, <3>6
        <5>2. e \in Int /\ y \in Int /\ d < e /\ d < y /\ d \in Int  BY <1>10, <5>1
        <5>3. (e <= d \/ y <= e) /\ (y <= d \/ e <= y)  BY <1>10, <5>1
        <5> QED  BY <5>2, <5>3
      <4>2. e = y  BY <4>1
      <4> QED  BY <3>1, <3>2, <3>6, <4>2
    <3> QED  BY <3>3, <3>4, <3>5, <3>6
  <2> HIDE DEF Dot, Space
  <2> QED  BY <2>1, <2>2, <2>3, <2>4, <2>5
<1>14. ASSUME NEW d, NEW e, NextTo(E, d, e), d \notin cuts \/ e \notin cuts \/ d + 2 < e \/ w = 1
       PROVE  /\ Between(d, e) \in T
              /\ FirstOf(Between(d, e)) = IF d \in cuts THEN d + w ELSE d
  <2> DEFINE g == Between(d, e)
  <2>1. /\ FirstOf(g) = IF d \in cuts THEN d + w ELSE d
        /\ LastOf(g) = IF e \in cuts THEN e - w ELSE e
        /\ FirstOf(g) <= LastOf(g) => g \in T
    BY <1>4, <1>14 DEF w
  <2>2. d \in Int /\ e \in Int /\ d + 2 <= e /\ d % 2 = 0 /\ e % 2 = 0  BY <1>10, <1>14
  <2>3. w \in {1, 2}  BY <1>9 DEF w
  <2> HIDE DEF g
  <2>4. FirstOf(g) <= LastOf(g)
    <3>1. CASE d \in cuts /\ e \in cuts
      <4>1. FirstOf(g) = d + w /\ LastOf(g) = e - w  BY <2>1, <3>1
      <4>2. d + 2 < e \/ w = 1  BY <1>14, <3>1
      <4>3. d + 2 < e => d + 4 <= e  BY <2>2
      <4> QED  BY <2>2, <2>3, <4>1, <4>2, <4>3
    <3>2. CASE d \notin cuts \/ e \notin cuts  BY <2>1, <2>2, <2>3, <3>2
    <3> QED  BY <3>1, <3>2
  <2> QED  BY <2>1, <2>4 DEF g
<1>15. \E t \in T : FirstOf(t) = lo
  <2>1. CASE lo \in cuts  BY <1>3, <2>1
  <2>2. CASE lo \notin cuts
    <3>1. PICK e \in E : NextTo(E, lo, e)  BY <1>0, NextExists
    <3> QED  BY <1>14, <2>2, <3>1
  <2> QED  BY <2>1, <2>2
<1>16. ASSUME NEW s \in T, LastOf(s) < hi PROVE \E t \in T : FirstOf(t) = LastOf(s) + w
  <2>1. CASE \E c \in cuts : s = PointAt(c) /\ FirstOf(s) = c /\ LastOf(s) = c
    <3>1. PICK c \in cuts : LastOf(s) = c  BY <2>1
    <3>2. c \in E /\ c < hi  BY <1>0, <1>16, <3>1
    <3>3. PICK e \in E : NextTo(E, c, e)  BY <1>0, <3>2, NextExists
    <3>4. CASE e \notin cuts \/ c + 2 < e \/ w = 1  BY <1>14, <3>1, <3>3, <3>4
    <3>5. CASE ~(e \notin cuts \/ c + 2 < e \/ w = 1)
      <4>1. e \in cuts /\ e = c + 2 /\ w = 2
        <5>1. c \in Int /\ e \in Int /\ c + 2 <= e  BY <1>10, <3>3
        <5>2. w \in {1, 2}  BY <1>9 DEF w
        <5> QED  BY <3>5, <5>1, <5>2
      <4> QED  BY <1>3, <3>1, <4>1
    <3> QED  BY <3>4, <3>5
  <2>2. CASE \E d, e \in E : /\ NextTo(E, d, e)
                             /\ LastOf(s) = IF e \in cuts THEN e - w ELSE e
    <3>1. PICK d \in E, e \in E : NextTo(E, d, e) /\ LastOf(s) = IF e \in cuts THEN e - w ELSE e
      BY <2>2
    <3>2. e \in cuts
      <4>1. e \notin cuts => e = hi /\ e \in Int  BY <1>10, <3>1
      <4> QED  BY <1>16, <3>1, <4>1
    <3>3. e \in Int /\ w \in {1, 2}  BY <1>9, <1>10, <3>1 DEF w
    <3>4. FirstOf(PointAt(e)) = LastOf(s) + w  BY <1>3, <3>1, <3>2, <3>3
    <3> QED  BY <1>3, <3>2, <3>4
  <2> QED  BY <1>8, <2>1, <2>2 DEF w
<1>17. \A t \in T : \A c \in cuts : Spans(t, c) => FirstOf(t) = LastOf(t)
  <2> SUFFICES ASSUME NEW t \in T, NEW c \in cuts, Spans(t, c) PROVE FirstOf(t) = LastOf(t)
    OBVIOUS
  <2>1. CASE \E k \in cuts : FirstOf(t) = k /\ LastOf(t) = k  BY <2>1
  <2>2. CASE \E d, e \in E : /\ NextTo(E, d, e)
                             /\ FirstOf(t) = IF d \in cuts THEN d + w ELSE d
                             /\ LastOf(t) = IF e \in cuts THEN e - w ELSE e
    <3>1. LastOf(t) < c \/ c < FirstOf(t)  BY <1>11, <2>2
    <3>2. c \in Int /\ FirstOf(t) \in Int /\ LastOf(t) \in Int  BY <1>0, <1>7, TileIs
    <3> QED  BY <3>1, <3>2 DEF Spans
  <2> QED  BY <1>8, <2>1, <2>2 DEF w
<1>18. TilesField(f, T)
  BY <1>6, <1>7, <1>13, <1>15, <1>16 DEF TilesField, lo, hi, w
<1> QED  BY <1>17, <1>18 DEF T

-----------------------------------------------------------------------------
(* Items agree on the values between two cuts *)

AllTyped(items) == \A conds \in items : Typed(conds)

LEMMA TypedIs ==
    ASSUME NEW conds, Typed(conds), NEW i \in DOMAIN conds
    PROVE  /\ conds[i].field \in Fields
           /\ conds[i].op \in {"<", "<=", ">", ">=", "==", "!="}
           /\ conds[i].field \in NumericFields => conds[i].value \in Int
           /\ conds[i].field \in NumericFields \ IntegerFields => conds[i].value % 2 = 0
           /\ conds[i].field \in BooleanFields => conds[i].value \in BOOLEAN
           /\ conds[i].field \notin NumericFields => conds[i].op \in {"==", "!="}
BY DEF Typed

LEMMA TypedLength ==
    ASSUME NEW conds, Typed(conds)
    PROVE  Len(conds) \in Nat /\ DOMAIN conds = 1..Len(conds)
<1> DEFINE S == ToSet(conds)
<1>1. conds \in Seq(S)  BY DEF Typed
<1> HIDE DEF S
<1> QED  BY <1>1

ValuesFor(f, conds) == { conds[i].value : i \in { j \in DOMAIN conds : conds[j].field = f } }

LEMMA CutsAre ==
    ASSUME NEW f \in NumericFields, NEW items, IsFiniteSet(items), AllTyped(items)
    PROVE  /\ IsFiniteSet(Cuts(f, items)) /\ IsCuts(f, Cuts(f, items))
           /\ \A conds \in items : \A i \in DOMAIN conds : conds[i].field = f =>
                 \A c \in Int : /\ Domains[f].lo <= c /\ c <= Domains[f].hi
                                /\ IF f \in IntegerFields
                                   THEN \/ c = 2 * (conds[i].value \div 2)
                                        \/ c = 2 * ((conds[i].value + 1) \div 2)
                                   ELSE c = conds[i].value
                                => c \in Cuts(f, items)
<1> DEFINE parts == { ValuesFor(f, conds) : conds \in items }
           values == UNION parts
           down == { 2 * (v \div 2) : v \in values }
           up == { 2 * ((v + 1) \div 2) : v \in values }
           around == IF f \in IntegerFields THEN down \cup up ELSE values
<1>1. Cuts(f, items) = { v \in around : Domains[f].lo <= v /\ v <= Domains[f].hi }
  BY DEF Cuts, ValuesFor
<1>2. \A v \in values : v \in Int /\ (f \notin IntegerFields => v % 2 = 0)
  BY TypedIs DEF AllTyped, ValuesFor
<1>3. ASSUME NEW conds \in items PROVE IsFiniteSet(ValuesFor(f, conds))
  <2>1. Typed(conds)  BY DEF AllTyped
  <2>2. IsFiniteSet(1..Len(conds)) /\ DOMAIN conds = 1..Len(conds)
    <3>1. Len(conds) \in Nat /\ DOMAIN conds = 1..Len(conds)  BY <2>1, TypedLength
    <3> QED  BY <3>1, FS_Interval
  <2> DEFINE D == { j \in DOMAIN conds : conds[j].field = f }
             g == [i \in D |-> conds[i].value]
  <2>3. IsFiniteSet(D)  BY <2>2, FS_Subset
  <2>4. IsFiniteSet({ g[i] : i \in D })
    <3> HIDE DEF D, g
    <3> QED  BY <2>3, ImageFinite
  <2>5. ValuesFor(f, conds) = { g[i] : i \in D }  BY DEF ValuesFor
  <2> HIDE DEF g, D
  <2> QED  BY <2>4, <2>5
<1>4. IsFiniteSet(values)
  <2> DEFINE g == [conds \in items |-> ValuesFor(f, conds)]
  <2>1. parts = { g[conds] : conds \in items }  OBVIOUS
  <2>2. IsFiniteSet({ g[conds] : conds \in items })
    <3> HIDE DEF g
    <3> QED  BY ImageFinite
  <2>3. \A S \in parts : IsFiniteSet(S)  BY <1>3
  <2>4. IsFiniteSet(parts)
    <3> HIDE DEF parts, g
    <3> QED  BY <2>1, <2>2
  <2> HIDE DEF parts
  <2> QED  BY <2>3, <2>4, FS_UNION
<1> HIDE DEF values
<1>5. IsFiniteSet(around)
  <2> DEFINE g == [v \in values |-> 2 * (v \div 2)]
             h == [v \in values |-> 2 * ((v + 1) \div 2)]
  <2>1. IsFiniteSet({ g[v] : v \in values }) /\ IsFiniteSet({ h[v] : v \in values })
    <3> HIDE DEF g, h
    <3> QED  BY <1>4, ImageFinite
  <2>2. down = { g[v] : v \in values } /\ up = { h[v] : v \in values }  OBVIOUS
  <2> HIDE DEF g, h, down, up
  <2>3. IsFiniteSet(down \cup up)  BY <2>1, <2>2, FS_Union
  <2> QED  BY <1>4, <2>3
<1>6. \A c \in around : c \in Int /\ c % 2 = 0  BY <1>2
<1>7. IsFiniteSet(Cuts(f, items)) /\ IsCuts(f, Cuts(f, items))
  <2> HIDE DEF around
  <2>1. Cuts(f, items) \subseteq around  BY <1>1
  <2>2. IsFiniteSet(Cuts(f, items))  BY <1>5, <2>1, FS_Subset
  <2> QED  BY <1>1, <1>6, <2>2 DEF IsCuts
<1>8. ASSUME NEW conds \in items, NEW i \in DOMAIN conds, conds[i].field = f
      PROVE  /\ f \in IntegerFields => /\ 2 * (conds[i].value \div 2) \in around
                                       /\ 2 * ((conds[i].value + 1) \div 2) \in around
             /\ f \notin IntegerFields => conds[i].value \in around
  <2>1. conds[i].value \in values  BY <1>8 DEF values, ValuesFor
  <2> QED  BY <2>1
<1> HIDE DEF around
<1> QED  BY <1>1, <1>7, <1>8

\* Between two values without a cut between them no condition changes.
LEMMA AgreeSame ==
    ASSUME NEW f \in NumericFields, NEW items, IsFiniteSet(items), AllTyped(items),
           NEW v, NEW w, IsValue(f, v), IsValue(f, w), v <= w,
           \A c \in Cuts(f, items) : c < v \/ w < c
    PROVE  AgreeAt(f, v, items) = AgreeAt(f, w, items)
<1>1. v \in Int /\ w \in Int /\ v # Missing /\ w # Missing
  BY WorldAssumption DEF IsValue
<1>2. ASSUME NEW conds \in items, NEW i \in DOMAIN conds, conds[i].field = f
      PROVE  ConditionHolds(conds[i], [g \in {f} |-> v]) <=> ConditionHolds(conds[i], [g \in {f} |-> w])
  <2> DEFINE x == conds[i].value
             op == conds[i].op
  <2>1. x \in Int /\ (f \notin IntegerFields => x % 2 = 0)
    BY <1>2, TypedIs DEF AllTyped
  <2>2. \A c \in Int : /\ Domains[f].lo <= c /\ c <= Domains[f].hi
                       /\ IF f \in IntegerFields THEN c = 2 * (x \div 2) \/ c = 2 * ((x + 1) \div 2)
                          ELSE c = x
                       => c < v \/ w < c
    BY <1>2, CutsAre
  <2>3. Domains[f].lo \in Int /\ Domains[f].hi \in Int /\ Domains[f].lo <= v /\ w <= Domains[f].hi
    BY DomainIs DEF IsValue
  <2> HIDE DEF x, op
  <2>4. x < v \/ w < x
    <3> SUFFICES ASSUME v <= x, x <= w PROVE FALSE
      BY <1>1, <2>1
    <3>1. CASE f \notin IntegerFields
      <4>1. x < v \/ w < x  BY <1>1, <2>1, <2>2, <2>3, <3>1
      <4> QED  BY <1>1, <2>1, <4>1
    <3>2. CASE f \in IntegerFields
      <4>1. v % 2 = 0 /\ w % 2 = 0  BY <3>2 DEF IsValue
      <4> DEFINE c == 2 * (x \div 2)
      <4>2. c \in Int /\ c <= x /\ x <= c + 1 /\ c % 2 = 0  BY <2>1
      <4>3. v <= c  BY <1>1, <2>1, <4>1, <4>2
      <4>4. c < v \/ w < c
        <5>1. Domains[f].lo <= c /\ c <= Domains[f].hi  BY <1>1, <2>1, <2>3, <4>2, <4>3
        <5> QED  BY <2>2, <3>2, <4>2, <5>1
      <4> QED  BY <1>1, <2>1, <4>2, <4>3, <4>4
    <3> QED  BY <3>1, <3>2
  <2>5. \A u \in Int : ConditionHolds(conds[i], [g \in {f} |-> u]) <=> u # Missing /\ Compare(op, u, x)
    BY <1>2 DEF ConditionHolds, x, op
  <2>6. Compare(op, v, x) <=> Compare(op, w, x)  BY <1>1, <2>1, <2>4 DEF Compare
  <2> QED  BY <1>1, <2>5, <2>6
<1> QED  BY <1>2 DEF AgreeAt

\* All values in a tile are alike to the items.
Uniform(f, items, t) ==
    \A v, w : IsValue(f, v) /\ IsValue(f, w) /\ Spans(t, v) /\ Spans(t, w)
                 => AgreeAt(f, v, items) = AgreeAt(f, w, items)

LEMMA TilesUniform ==
    ASSUME NEW f \in NumericFields, NEW items, IsFiniteSet(items), AllTyped(items),
           NEW t \in Tiles(f, Cuts(f, items))
    PROVE  Uniform(f, items, t)
<1> DEFINE cuts == Cuts(f, items)
<1>1. IsFiniteSet(cuts) /\ IsCuts(f, cuts)  BY CutsAre
<1>2. IsTile(f, t) /\ \A c \in cuts : Spans(t, c) => FirstOf(t) = LastOf(t)
  <2> HIDE DEF cuts
  <2> QED  BY <1>1, TilesAre DEF TilesField, cuts
<1>3. ASSUME NEW v, NEW w, IsValue(f, v), IsValue(f, w), Spans(t, v), Spans(t, w), v <= w
      PROVE  AgreeAt(f, v, items) = AgreeAt(f, w, items)
  <2>1. /\ v \in Int /\ w \in Int /\ FirstOf(t) \in Int /\ LastOf(t) \in Int
        /\ FirstOf(t) <= v /\ w <= LastOf(t)
    BY <1>2, <1>3, TileIs DEF IsValue, Spans
  <2>2. CASE v = w  BY <2>2
  <2>3. CASE v # w
    <3>1. ASSUME NEW c \in cuts PROVE c < v \/ w < c
      <4>1. c \in Int  BY <1>1 DEF IsCuts
      <4>2. ~Spans(t, c)  BY <1>2, <1>3, <2>1, <2>3
      <4> QED  BY <2>1, <4>1, <4>2 DEF Spans
    <3> QED  BY <1>3, <3>1, AgreeSame
  <2> QED  BY <2>2, <2>3
<1> SUFFICES ASSUME NEW v, NEW w, IsValue(f, v), IsValue(f, w), Spans(t, v), Spans(t, w)
             PROVE  AgreeAt(f, v, items) = AgreeAt(f, w, items)
    BY DEF Uniform
<1>4. v <= w \/ w <= v  BY DEF IsValue
<1> QED  BY <1>3, <1>4

-----------------------------------------------------------------------------
(* The point that stands for a cell lies in it *)

Fits(f, t) == IsTile(f, t) /\ Domains[f].lo <= FirstOf(t) /\ LastOf(t) <= Domains[f].hi

LEMMA SampleIn ==
    ASSUME NEW f \in NumericFields, NEW t, Fits(f, t)
    PROVE  IsValue(f, Sample(f, t)) /\ Spans(t, Sample(f, t))
<1> DEFINE v == Sample(f, t)
<1>1. /\ t.lo \in Int /\ t.hi \in Int /\ t.loc \in BOOLEAN /\ t.hic \in BOOLEAN
      /\ t.lo % 2 = 0 /\ t.hi % 2 = 0 /\ FirstOf(t) <= LastOf(t)
      /\ FirstOf(t) \in Int /\ LastOf(t) \in Int
      /\ f \in IntegerFields => t.loc /\ t.hic
      /\ FirstOf(t) = IF t.loc THEN t.lo ELSE t.lo + 1
      /\ LastOf(t) = IF t.hic THEN t.hi ELSE t.hi - 1
  BY TileIs DEF Fits, IsTile, Intervals, FirstOf, LastOf
<1>2. v = SampleInterval(t, f \in IntegerFields, Typical(f))  BY DomainIs DEF Sample
<1>3. Domains[f].lo \in Int /\ Domains[f].hi \in Int /\ Domains[f].lo <= FirstOf(t) /\ LastOf(t) <= Domains[f].hi
  BY DomainIs DEF Fits
<1> HIDE DEF v
<1>4. v \in Int /\ FirstOf(t) <= v /\ v <= LastOf(t) /\ (f \in IntegerFields => v % 2 = 0)
  <2>1. CASE f \in IntegerFields
    <3>1. IntLo(t) = t.lo /\ IntHi(t) = t.hi  BY <1>1, <2>1 DEF IntLo, IntHi
    <3>2. v = IF 2 < t.lo THEN t.lo ELSE IF 2 > t.hi THEN t.hi ELSE 2
      BY <1>2, <2>1, <3>1 DEF SampleInterval, Typical
    <3>3. FirstOf(t) = t.lo /\ LastOf(t) = t.hi  BY <1>1, <2>1
    <3> QED  BY <1>1, <3>2, <3>3
  <2>2. CASE f \notin IntegerFields
    <3> DEFINE mid == (t.lo + t.hi) \div 2
    <3>1. v = IF \/ t.lo < 3 /\ 3 < t.hi
                 \/ 3 = t.lo /\ t.loc
                 \/ 3 = t.hi /\ t.hic THEN 3
              ELSE IF 3 <= t.lo THEN IF t.loc THEN t.lo ELSE Min({t.lo + 1, mid})
              ELSE IF t.hic THEN t.hi ELSE Max({t.hi - 1, mid})
      BY <1>2, <2>2 DEF SampleInterval, Typical
    <3>2. t.lo < t.hi => t.lo + 1 <= mid /\ mid <= t.hi - 1  BY <1>1
    <3>3. mid \in Int  BY <1>1
    <3> HIDE DEF mid
    <3>4. t.lo < t.hi => Min({t.lo + 1, mid}) = t.lo + 1  BY <1>1, <3>2, <3>3 DEF Min
    <3>5. t.lo < t.hi => Max({t.hi - 1, mid}) = t.hi - 1  BY <1>1, <3>2, <3>3 DEF Max
    <3>6. t.lo <= t.hi /\ (t.lo = t.hi => t.loc /\ t.hic)  BY <1>1
    <3>7. CASE t.lo < 3 /\ 3 < t.hi  BY <1>1, <2>2, <3>1, <3>7
    <3>8. CASE 3 <= t.lo
      <4>2. t.lo # 3 /\ t.hi # 3  BY <1>1
      <4>3. v = IF t.loc THEN t.lo ELSE Min({t.lo + 1, mid})  BY <1>1, <3>1, <3>8, <4>2
      <4> QED  BY <1>1, <2>2, <3>4, <3>6, <4>3
    <3>9. CASE t.lo < 3 /\ t.hi <= 3
      <4>1. t.lo # 3 /\ t.hi # 3  BY <1>1
      <4>2. v = IF t.hic THEN t.hi ELSE Max({t.hi - 1, mid})  BY <1>1, <3>1, <3>9, <4>1
      <4> QED  BY <1>1, <2>2, <3>5, <3>6, <4>2
    <3> QED  BY <1>1, <3>7, <3>8, <3>9
  <2> QED  BY <2>1, <2>2
<1> QED  BY <1>1, <1>3, <1>4 DEF IsValue, Spans, v

-----------------------------------------------------------------------------
(* Neighbours that are alike become one cell *)

\* Cells from the low end of the field to the number top, uniform and no two neighbours alike.
CellsTo(f, items, cells, top) ==
    /\ cells \in Seq(Intervals) /\ Len(cells) > 0
    /\ \A i \in 1..Len(cells) : Fits(f, cells[i]) /\ Uniform(f, items, cells[i])
    /\ \A i \in 1..(Len(cells) - 1) :
          /\ FirstOf(cells[i + 1]) = LastOf(cells[i]) + Stride(f)
          /\ AgreeAt(f, Sample(f, cells[i]), items) # AgreeAt(f, Sample(f, cells[i + 1]), items)
    /\ FirstOf(cells[1]) = Domains[f].lo /\ LastOf(cells[Len(cells)]) = top

LEMMA JoinedTile ==
    ASSUME NEW f \in NumericFields, NEW items, NEW s, NEW a,
           Fits(f, s), Fits(f, a), Uniform(f, items, s), Uniform(f, items, a),
           FirstOf(a) = LastOf(s) + Stride(f),
           AgreeAt(f, Sample(f, a), items) = AgreeAt(f, Sample(f, s), items)
    PROVE  LET t == I(s.lo, a.hi, s.loc, a.hic)
           IN  /\ Fits(f, t) /\ Uniform(f, items, t)
               /\ FirstOf(t) = FirstOf(s) /\ LastOf(t) = LastOf(a)
               /\ AgreeAt(f, Sample(f, t), items) = AgreeAt(f, Sample(f, s), items)
<1> DEFINE t == I(s.lo, a.hi, s.loc, a.hic)
<1>1. /\ FirstOf(s) \in Int /\ LastOf(s) \in Int /\ FirstOf(s) <= LastOf(s)
      /\ FirstOf(a) \in Int /\ LastOf(a) \in Int /\ FirstOf(a) <= LastOf(a)
      /\ f \in IntegerFields => LastOf(s) % 2 = 0 /\ FirstOf(a) % 2 = 0
      /\ FirstOf(a) = LastOf(s) + Stride(f) /\ Stride(f) \in {1, 2}
      /\ (f \in IntegerFields <=> Stride(f) = 2)
  BY TileIs DEF Fits, Stride
<1>2. t \in Intervals /\ t.lo = s.lo /\ t.hi = a.hi /\ t.loc = s.loc /\ t.hic = a.hic
  BY DEF Fits, IsTile, Intervals, I
<1> HIDE DEF t
<1>3. FirstOf(t) = FirstOf(s) /\ LastOf(t) = LastOf(a)  BY <1>2 DEF FirstOf, LastOf
<1>4. FirstOf(t) <= LastOf(t)  BY <1>1, <1>3
<1>5. Fits(f, t)  BY <1>2, <1>3, <1>4 DEF Fits, IsTile
<1>6. /\ IsValue(f, Sample(f, s)) /\ Spans(s, Sample(f, s))
      /\ IsValue(f, Sample(f, a)) /\ Spans(a, Sample(f, a))
  BY SampleIn
<1>7. ASSUME NEW v, IsValue(f, v), Spans(t, v)
      PROVE  AgreeAt(f, v, items) = AgreeAt(f, Sample(f, s), items)
  <2>1. Spans(s, v) \/ Spans(a, v)
    <3>1. v \in Int /\ FirstOf(s) <= v /\ v <= LastOf(a) /\ (f \in IntegerFields => v % 2 = 0)
      BY <1>3, <1>7 DEF Spans, IsValue
    <3>2. v <= LastOf(s) \/ FirstOf(a) <= v
      <4>1. CASE f \in IntegerFields  BY <1>1, <3>1, <4>1
      <4>2. CASE f \notin IntegerFields  BY <1>1, <3>1, <4>2
      <4> QED  BY <4>1, <4>2
    <3> QED  BY <3>1, <3>2 DEF Spans
  <2>2. CASE Spans(s, v)  BY <1>6, <1>7, <2>2 DEF Uniform
  <2>3. CASE Spans(a, v)
    <3>1. AgreeAt(f, v, items) = AgreeAt(f, Sample(f, a), items)  BY <1>6, <1>7, <2>3 DEF Uniform
    <3> QED  BY <3>1
  <2> QED  BY <2>1, <2>2, <2>3
<1>8. Uniform(f, items, t)
  <2> SUFFICES ASSUME NEW v, NEW w, IsValue(f, v), IsValue(f, w), Spans(t, v), Spans(t, w)
               PROVE  AgreeAt(f, v, items) = AgreeAt(f, w, items)
    BY DEF Uniform
  <2>1. AgreeAt(f, v, items) = AgreeAt(f, Sample(f, s), items)  BY <1>7
  <2>2. AgreeAt(f, w, items) = AgreeAt(f, Sample(f, s), items)  BY <1>7
  <2> QED  BY <2>1, <2>2
<1>9. AgreeAt(f, Sample(f, t), items) = AgreeAt(f, Sample(f, s), items)
  BY <1>5, <1>7, SampleIn
<1> QED  BY <1>3, <1>5, <1>8, <1>9 DEF t

LEMMA JoinedIs ==
    ASSUME NEW f \in NumericFields, NEW items, NEW cells, NEW top, CellsTo(f, items, cells, top),
           NEW a, Fits(f, a), Uniform(f, items, a), FirstOf(a) = top + Stride(f)
    PROVE  CellsTo(f, items, Joined(f, items, cells, a), LastOf(a))
<1> DEFINE n == Len(cells)
           s == Last(cells)
           t == I(s.lo, a.hi, s.loc, a.hic)
           out == Joined(f, items, cells, a)
           alike == AgreeAt(f, Sample(f, a), items) = AgreeAt(f, Sample(f, s), items)
<1>1. /\ n \in Nat /\ n > 0 /\ n \in 1..n /\ cells \in Seq(Intervals)
      /\ s = cells[n] /\ Fits(f, s) /\ Uniform(f, items, s) /\ LastOf(s) = top
      /\ a \in Intervals
  BY DEF CellsTo, Last, Fits, IsTile
<1>2. out = IF alike THEN Append(Front(cells), t) ELSE Append(cells, a)  BY DEF Joined
<1>3. CASE alike
  <2>1. /\ Fits(f, t) /\ Uniform(f, items, t)
        /\ FirstOf(t) = FirstOf(s) /\ LastOf(t) = LastOf(a)
        /\ AgreeAt(f, Sample(f, t), items) = AgreeAt(f, Sample(f, s), items)
    <3> HIDE DEF s
    <3>1. FirstOf(a) = LastOf(s) + Stride(f)  BY <1>1
    <3> QED  BY <1>1, <1>3, <3>1, JoinedTile
  <2>2. t \in Intervals  BY <2>1 DEF Fits, IsTile
  <2> HIDE DEF t, s
  <2>3. Front(cells) \in Seq(Intervals) /\ Len(Front(cells)) = n - 1
        /\ \A i \in 1..(n - 1) : Front(cells)[i] = cells[i]
    <3>1. Front(cells) = SubSeq(cells, 1, n - 1)  BY DEF Front
    <3> HIDE DEF n
    <3>2. 1 \in 1..(n + 1) /\ n - 1 \in (1 - 1)..n /\ n = Len(cells)  BY <1>1 DEF n
    <3>3. /\ SubSeq(cells, 1, n - 1) \in Seq(Intervals)
          /\ Len(SubSeq(cells, 1, n - 1)) = IF 1 <= n - 1 THEN (n - 1) - 1 + 1 ELSE 0
          /\ \A i \in 1..((n - 1) - 1 + 1) : SubSeq(cells, 1, n - 1)[i] = cells[1 + i - 1]
      BY <1>1, <3>2, SubSeqProperties
    <3>4. (IF 1 <= n - 1 THEN (n - 1) - 1 + 1 ELSE 0) = n - 1 /\ (n - 1) - 1 + 1 = n - 1
      BY <1>1
    <3>5. \A i \in 1..(n - 1) : 1 + i - 1 = i  OBVIOUS
    <3> QED  BY <3>1, <3>3, <3>4, <3>5
  <2>4. out = Append(Front(cells), t)  BY <1>2, <1>3
  <2> HIDE DEF out
  <2>5. /\ out \in Seq(Intervals) /\ Len(out) = n /\ out[n] = t
        /\ \A i \in 1..(n - 1) : out[i] = cells[i]
    <3> DEFINE front == Front(cells)
    <3> HIDE DEF front
    <3>1. /\ front \in Seq(Intervals) /\ Len(front) = n - 1 /\ out = Append(front, t)
          /\ \A i \in 1..(n - 1) : front[i] = cells[i]
      BY <2>3, <2>4 DEF front
    <3> HIDE DEF n
    <3> QED  BY <1>1, <2>2, <3>1
  <2> HIDE DEF n
  <2>6. \A i \in 1..n : Fits(f, out[i]) /\ Uniform(f, items, out[i])
    <3> SUFFICES ASSUME NEW i \in 1..n PROVE Fits(f, out[i]) /\ Uniform(f, items, out[i])
      OBVIOUS
    <3>1. CASE i = n  BY <2>1, <2>5, <3>1
    <3>2. CASE i # n
      <4>1. i \in 1..(n - 1)  BY <1>1, <3>2
      <4> QED  BY <2>5, <4>1 DEF CellsTo, n
    <3> QED  BY <3>1, <3>2
  <2>7. FirstOf(out[1]) = FirstOf(cells[1])
    <3>1. CASE n = 1  BY <1>1, <2>1, <2>5, <3>1
    <3>2. CASE n # 1
      <4>1. 1 \in 1..(n - 1)  BY <1>1, <3>2
      <4> QED  BY <2>5, <4>1
    <3> QED  BY <3>1, <3>2
  <2>8. ASSUME NEW i \in 1..(n - 1)
        PROVE  /\ FirstOf(out[i + 1]) = LastOf(out[i]) + Stride(f)
               /\ AgreeAt(f, Sample(f, out[i]), items) # AgreeAt(f, Sample(f, out[i + 1]), items)
    <3>1. /\ FirstOf(cells[i + 1]) = LastOf(cells[i]) + Stride(f)
          /\ AgreeAt(f, Sample(f, cells[i]), items) # AgreeAt(f, Sample(f, cells[i + 1]), items)
      BY DEF CellsTo, n
    <3>2. out[i] = cells[i]  BY <2>5
    <3>3. FirstOf(out[i + 1]) = FirstOf(cells[i + 1])
          /\ AgreeAt(f, Sample(f, out[i + 1]), items) = AgreeAt(f, Sample(f, cells[i + 1]), items)
      <4>1. CASE i + 1 = n  BY <1>1, <2>1, <2>5, <4>1
      <4>2. CASE i + 1 # n
        <5>1. i + 1 \in 1..(n - 1)  BY <1>1, <4>2
        <5> QED  BY <2>5, <5>1
      <4> QED  BY <4>1, <4>2
    <3> QED  BY <3>1, <3>2, <3>3
  <2>9. CellsTo(f, items, out, LastOf(a))
    <3>1. FirstOf(cells[1]) = Domains[f].lo  BY DEF CellsTo
    <3> QED  BY <1>1, <2>1, <2>5, <2>6, <2>7, <2>8, <3>1 DEF CellsTo
  <2> QED  BY <2>9 DEF out
<1>4. CASE ~alike
  <2>1. out = Append(cells, a)  BY <1>2, <1>4
  <2>0. AgreeAt(f, Sample(f, a), items) # AgreeAt(f, Sample(f, s), items)  BY <1>4
  <2> HIDE DEF out, s, alike
  <2>2. /\ out \in Seq(Intervals) /\ Len(out) = n + 1 /\ out[n + 1] = a
        /\ \A i \in 1..n : out[i] = cells[i]
    BY <1>1, <2>1
  <2> HIDE DEF n
  <2>3. \A i \in 1..(n + 1) : Fits(f, out[i]) /\ Uniform(f, items, out[i])
    <3> SUFFICES ASSUME NEW i \in 1..(n + 1) PROVE Fits(f, out[i]) /\ Uniform(f, items, out[i])
      OBVIOUS
    <3>1. CASE i = n + 1  BY <2>2, <3>1
    <3>2. CASE i # n + 1
      <4>1. i \in 1..n  BY <1>1, <3>2
      <4> QED  BY <2>2, <4>1 DEF CellsTo, n
    <3> QED  BY <3>1, <3>2
  <2>4. ASSUME NEW i \in 1..n
        PROVE  /\ FirstOf(out[i + 1]) = LastOf(out[i]) + Stride(f)
               /\ AgreeAt(f, Sample(f, out[i]), items) # AgreeAt(f, Sample(f, out[i + 1]), items)
    <3>1. CASE i = n  BY <1>1, <2>0, <2>2, <3>1
    <3>2. CASE i # n
      <4>1. i \in 1..(n - 1) /\ i + 1 \in 1..n  BY <1>1, <3>2
      <4>2. /\ FirstOf(cells[i + 1]) = LastOf(cells[i]) + Stride(f)
            /\ AgreeAt(f, Sample(f, cells[i]), items) # AgreeAt(f, Sample(f, cells[i + 1]), items)
        BY <4>1 DEF CellsTo, n
      <4> QED  BY <2>2, <4>1, <4>2
    <3> QED  BY <3>1, <3>2
  <2>5. 1 \in 1..n /\ (n + 1) - 1 = n  BY <1>1
  <2>6. FirstOf(out[1]) = Domains[f].lo  BY <2>2, <2>5 DEF CellsTo
  <2>7. CellsTo(f, items, out, LastOf(a))
    <3>1. Len(out) > 0 /\ Len(out) - 1 = n  BY <1>1, <2>2
    <3> QED  BY <2>2, <2>3, <2>4, <2>6, <3>1 DEF CellsTo
  <2> QED  BY <2>7 DEF out
<1> QED  BY <1>3, <1>4

LEMMA MergedIs ==
    ASSUME NEW f \in NumericFields, NEW items, NEW atoms, TilesAxis(f, atoms),
           \A i \in 1..Len(atoms) : Fits(f, atoms[i]) /\ Uniform(f, items, atoms[i])
    PROVE  CellsTo(f, items, Merged(f, atoms, items), Domains[f].hi)
<1> DEFINE n == Len(atoms) - 1
           rest == Tail(atoms)
<1>1. n \in Nat /\ atoms \in Seq(Intervals) /\ atoms # << >>  BY DEF TilesAxis
<1>2. DOMAIN rest = 1..n /\ Head(atoms) = atoms[1] /\ \A k \in 1..n : rest[k] = atoms[k + 1]
  BY <1>1
<1> HIDE DEF rest
<1>3. PICK h : /\ IsJoining(h, f, items, Head(atoms), rest)
               /\ Merged(f, atoms, items) = h[DOMAIN rest]
  <2>1. DOMAIN Tail(atoms) = 1..n  BY <1>2 DEF rest
  <2> HIDE DEF n
  <2>2. \E g : /\ IsJoining(g, f, items, Head(atoms), Tail(atoms))
               /\ Merged(f, atoms, items) = g[DOMAIN Tail(atoms)]
    BY <1>1, <2>1, MergedJoins, Zenon
  <2> QED  BY <2>2 DEF rest
<1> DEFINE G == { k \in Nat : k <= n => CellsTo(f, items, h[1..k], LastOf(atoms[k + 1])) }
<1>4. 0 \in G
  <2>1. h[{}] = <<atoms[1]>>
    <3>1. {} \in SUBSET DOMAIN rest  OBVIOUS
    <3> QED  BY <1>2, <1>3, <3>1 DEF IsJoining, JoinStep
  <2>2. 1..0 = {} /\ 0 + 1 = 1  OBVIOUS
  <2> DEFINE one == <<atoms[1]>>
  <2>3. atoms[1] \in Intervals /\ 1 \in 1..Len(atoms)  BY <1>1
  <2>4. one \in Seq(Intervals) /\ Len(one) = 1 /\ one[1] = atoms[1]  BY <2>3
  <2> HIDE DEF one
  <2>5. CellsTo(f, items, one, LastOf(atoms[1]))
    <3>1. 1..Len(one) = {1} /\ 1..(Len(one) - 1) = {}  BY <2>4
    <3>2. FirstOf(atoms[1]) = Domains[f].lo  BY DEF TilesAxis
    <3> QED  BY <2>3, <2>4, <3>1, <3>2 DEF CellsTo
  <2> QED  BY <2>1, <2>2, <2>5 DEF one
<1>5. ASSUME NEW k \in G PROVE k + 1 \in G
  <2> SUFFICES ASSUME k + 1 <= n
               PROVE  CellsTo(f, items, h[1..(k + 1)], LastOf(atoms[(k + 1) + 1]))
    OBVIOUS
  <2>1. k \in Nat /\ k <= n /\ CellsTo(f, items, h[1..k], LastOf(atoms[k + 1]))  BY <1>1
  <2>2. /\ 1..(k + 1) \in SUBSET (1..n) /\ 1..(k + 1) # {}
        /\ Max(1..(k + 1)) = k + 1 /\ (1..(k + 1)) \ {k + 1} = 1..k
    <3> HIDE DEF n
    <3> QED  BY <1>1, <2>1, Prefix
  <2>3. k + 1 \in 1..n /\ k + 1 \in 1..(Len(atoms) - 1) /\ (k + 1) + 1 \in 1..Len(atoms)
    BY <1>1, <2>1
  <2>4. h[1..(k + 1)] = Joined(f, items, h[1..k], atoms[(k + 1) + 1])
    <3>1. h[1..(k + 1)] = JoinStep(h, f, items, Head(atoms), rest, 1..(k + 1))
      BY <1>2, <1>3, <2>2 DEF IsJoining
    <3> QED  BY <1>2, <2>2, <2>3, <3>1 DEF JoinStep
  <2>5. FirstOf(atoms[(k + 1) + 1]) = LastOf(atoms[k + 1]) + Stride(f)
    BY <2>3 DEF TilesAxis
  <2>6. Fits(f, atoms[(k + 1) + 1]) /\ Uniform(f, items, atoms[(k + 1) + 1])  BY <2>3
  <2> DEFINE a == atoms[(k + 1) + 1]
             cells == h[1..k]
             top == LastOf(atoms[k + 1])
  <2> HIDE DEF a, cells, top
  <2>7. CellsTo(f, items, Joined(f, items, cells, a), LastOf(a))
    <3>1. CellsTo(f, items, cells, top)  BY <2>1 DEF cells, top
    <3>2. FirstOf(a) = top + Stride(f)  BY <2>5 DEF a, top
    <3>3. Fits(f, a) /\ Uniform(f, items, a)  BY <2>6 DEF a
    <3> QED  BY <3>1, <3>2, <3>3, JoinedIs
  <2> QED  BY <2>4, <2>7 DEF a, cells
<1>6. G = Nat
  <2> HIDE DEF G
  <2>1. G \in SUBSET Nat  BY DEF G
  <2> QED  BY <1>4, <1>5, <2>1, SetInduction
<1>7. CellsTo(f, items, h[1..n], LastOf(atoms[n + 1]))
  <2>1. n \in G  BY <1>1, <1>6
  <2>2. n <= n  BY <1>1
  <2> QED  BY <2>1, <2>2
<1>8. LastOf(atoms[n + 1]) = Domains[f].hi
  <2>1. n + 1 = Len(atoms)  BY <1>1
  <2> QED  BY <2>1 DEF TilesAxis
<1> QED  BY <1>2, <1>3, <1>7, <1>8

\* A numeric axis: cells side by side over the whole field, on each of which the items
\* agree, and no two neighbours that could be joined.
LEMMA AxisIs ==
    ASSUME NEW f \in NumericFields, NEW items, IsFiniteSet(items), AllTyped(items), NEW precursor
    PROVE  LET cells == Axis(f, items, precursor)
           IN  CellsTo(f, items, cells, Domains[f].hi) /\ TilesAxis(f, cells)
<1> DEFINE cuts == Cuts(f, items)
           T == Tiles(f, cuts)
           atoms == InOrder(T)
<1>1. IsFiniteSet(cuts) /\ IsCuts(f, cuts)  BY CutsAre
<1>2. TilesField(f, T)
  <2> HIDE DEF cuts
  <2> QED  BY <1>1, TilesAre
<1>3. \A t \in T : Uniform(f, items, t)  BY TilesUniform
<1>4. Axis(f, items, precursor) = Merged(f, atoms, items)  BY DomainIs DEF Axis, Atoms
<1> HIDE DEF T
<1>5. TilesAxis(f, atoms) /\ \A i \in 1..Len(atoms) : atoms[i] \in T  BY <1>2, InOrderIs
<1> HIDE DEF atoms
<1>6. \A i \in 1..Len(atoms) : Fits(f, atoms[i]) /\ Uniform(f, items, atoms[i])
  BY <1>2, <1>3, <1>5 DEF Fits, TilesField
<1>7. CellsTo(f, items, Merged(f, atoms, items), Domains[f].hi)  BY <1>5, <1>6, MergedIs
<1> QED  BY <1>4, <1>7 DEF CellsTo, TilesAxis, Fits

-----------------------------------------------------------------------------
(* The cells of a question's plant *)

AllOf(a) == ItemsOf(a) \cup a.cuts

AxesOf(a) == [f \in AxisFields(AllOf(a)) |-> Axis(f, AllOf(a), a.precursor)]

LEMMA ItemsTyped ==
    ASSUME NEW a \in Questions
    PROVE  /\ IsFiniteSet(AllOf(a)) /\ AllTyped(AllOf(a))
           /\ ItemsOf(a) \subseteq AllOf(a)
<1> DEFINE blocks == { x \in a.rules : x.device = a.device /\ x.type = "block" }
           about  == { x \in a.invariants : x.device = a.device }
           B == { r.conds : r \in blocks }
           V == { inv.conds : inv \in about }
<1>1. /\ IsFiniteSet(a.rules) /\ IsFiniteSet(a.invariants) /\ IsFiniteSet(a.cuts)
      /\ \A r \in a.rules : Typed(r.conds)
      /\ \A inv \in a.invariants : Typed(inv.conds)
      /\ \A conds \in a.cuts : Typed(conds)
  BY QuestionAssumption
<1>2. ItemsOf(a) = { c \in B \cup V : Satisfiable(c) }  BY DEF ItemsOf, SpecItems
<1>3. IsFiniteSet(blocks) /\ IsFiniteSet(about)
  <2>1. blocks \subseteq a.rules /\ about \subseteq a.invariants  OBVIOUS
  <2> HIDE DEF blocks, about
  <2> QED  BY <1>1, <2>1, FS_Subset
<1>4. IsFiniteSet(B) /\ IsFiniteSet(V)
  <2> DEFINE g == [r \in blocks |-> r.conds]
             h == [r \in about |-> r.conds]
  <2> HIDE DEF blocks, about
  <2>1. B = { g[r] : r \in blocks } /\ V = { h[r] : r \in about }  OBVIOUS
  <2> HIDE DEF g, h, B, V
  <2> QED  BY <1>3, <2>1, ImageFinite
<1>5. \A c \in B \cup V : Typed(c)  BY <1>1
<1> HIDE DEF B, V
<1>6. IsFiniteSet(ItemsOf(a))
  <2>1. IsFiniteSet(B \cup V)  BY <1>4, FS_Union
  <2>2. ItemsOf(a) \subseteq B \cup V  BY <1>2
  <2> QED  BY <2>1, <2>2, FS_Subset
<1>7. IsFiniteSet(AllOf(a))  BY <1>1, <1>6, FS_Union DEF AllOf
<1>8. AllTyped(AllOf(a))  BY <1>1, <1>2, <1>5 DEF AllOf, AllTyped
<1> QED  BY <1>7, <1>8 DEF AllOf

LEMMA FieldsFinite == IsFiniteSet(Fields)
<1>1. PICK n \in Nat : DOMAIN FieldOrder = 1..n  BY RegionsAssumption
<1>2. Fields = { FieldOrder[i] : i \in 1..n }  BY <1>1 DEF Fields, ToSet
<1>3. IsFiniteSet(1..n)  BY FS_Interval
<1>4. IsFiniteSet({ FieldOrder[i] : i \in 1..n })  BY <1>3, ImageFinite
<1> QED  BY <1>2, <1>4

LEMMA AxisFieldsIs ==
    ASSUME NEW items
    PROVE  /\ AxisFields(items) \subseteq NumericFields \cup BooleanFields
           /\ AxisFields(items) \subseteq Fields /\ IsFiniteSet(AxisFields(items))
<1>1. AxisFields(items) \subseteq NumericFields \cup BooleanFields  BY DEF AxisFields
<1>2. AxisFields(items) \subseteq Fields  BY <1>1, RegionsAssumption
<1> QED  BY <1>1, <1>2, FieldsFinite, FS_Subset

\* What a field can be in the world.
IsWorldValue(f, v) == IF f \in BooleanFields THEN v \in BOOLEAN ELSE IsValue(f, v)

LEMMA WorldValue ==
    ASSUME NEW ctx \in Worlds, NEW f \in NumericFields \cup BooleanFields
    PROVE  IsWorldValue(f, ctx[f])
BY WorldAssumption, RegionsAssumption DEF IsWorldValue, IsValue

LEMMA TruthAxis ==
    ASSUME NEW f \in BooleanFields, NEW items, NEW precursor
    PROVE  LET cells == Axis(f, items, precursor)
           IN  /\ \/ cells = <<FALSE, TRUE>> \/ cells = <<TRUE, Missing, FALSE>>
               /\ Len(cells) \in {2, 3} /\ DOMAIN cells = 1..Len(cells)
               /\ \A v \in BOOLEAN : \E i \in DOMAIN cells :
                     cells[i] = v /\ \A j \in DOMAIN cells : cells[j] = v => j = i
<1> DEFINE cells == Axis(f, items, precursor)
<1>1. cells = <<FALSE, TRUE>> \/ cells = <<TRUE, Missing, FALSE>>  BY DEF Axis
<1>2. Missing # TRUE /\ Missing # FALSE  BY WorldAssumption
<1> HIDE DEF cells
<1>3. CASE cells = <<FALSE, TRUE>>
  <2>1. Len(cells) = 2 /\ DOMAIN cells = 1..2 /\ cells[1] = FALSE /\ cells[2] = TRUE  BY <1>3
  <2>2. ASSUME NEW v \in BOOLEAN
        PROVE  \E i \in DOMAIN cells : cells[i] = v /\ \A j \in DOMAIN cells : cells[j] = v => j = i
    <3>1. 1..2 = {1, 2} /\ TRUE # FALSE  OBVIOUS
    <3>2. /\ \A j \in DOMAIN cells : cells[j] = FALSE => j = 1
          /\ \A j \in DOMAIN cells : cells[j] = TRUE => j = 2
          /\ 1 \in DOMAIN cells /\ 2 \in DOMAIN cells
      BY <2>1, <3>1, Zenon
    <3>3. v = FALSE \/ v = TRUE  OBVIOUS
    <3> QED  BY <2>1, <3>2, <3>3, Zenon
  <2> QED  BY <1>1, <2>1, <2>2 DEF cells
<1>4. CASE cells = <<TRUE, Missing, FALSE>>
  <2>1. /\ Len(cells) = 3 /\ DOMAIN cells = 1..3
        /\ cells[1] = TRUE /\ cells[2] = Missing /\ cells[3] = FALSE
    BY <1>4
  <2>2. ASSUME NEW v \in BOOLEAN
        PROVE  \E i \in DOMAIN cells : cells[i] = v /\ \A j \in DOMAIN cells : cells[j] = v => j = i
    <3>1. 1..3 = {1, 2, 3} /\ TRUE # FALSE  OBVIOUS
    <3>2. /\ \A j \in DOMAIN cells : cells[j] = TRUE => j = 1
          /\ \A j \in DOMAIN cells : cells[j] = FALSE => j = 3
          /\ 1 \in DOMAIN cells /\ 3 \in DOMAIN cells
      BY <1>2, <2>1, <3>1, Zenon
    <3>3. v = FALSE \/ v = TRUE  OBVIOUS
    <3> QED  BY <2>1, <3>2, <3>3, Zenon
  <2> QED  BY <1>1, <2>1, <2>2 DEF cells
<1> QED  BY <1>1, <1>3, <1>4

LEMMA AxisLength ==
    ASSUME NEW items, IsFiniteSet(items), AllTyped(items), NEW precursor,
           NEW f \in NumericFields \cup BooleanFields
    PROVE  LET cells == Axis(f, items, precursor)
           IN  Len(cells) \in Nat /\ Len(cells) > 0 /\ DOMAIN cells = 1..Len(cells)
<1> DEFINE cells == Axis(f, items, precursor)
<1>1. CASE f \in BooleanFields
  <2>1. Len(cells) \in {2, 3} /\ DOMAIN cells = 1..Len(cells)  BY <1>1, TruthAxis
  <2> HIDE DEF cells
  <2>2. Len(cells) \in Nat /\ Len(cells) > 0  BY <2>1
  <2> QED  BY <2>1, <2>2 DEF cells
<1>2. CASE f \in NumericFields
  <2>1. TilesAxis(f, cells)  BY <1>2, AxisIs
  <2> HIDE DEF cells
  <2>2. Len(cells) \in Nat /\ Len(cells) > 0 /\ DOMAIN cells = 1..Len(cells)  BY <2>1 DEF TilesAxis
  <2> QED  BY <2>2 DEF cells
<1> QED  BY <1>1, <1>2

\* Every value lies in one cell of its axis, and in no other.
LEMMA OneCell ==
    ASSUME NEW items, IsFiniteSet(items), AllTyped(items), NEW precursor,
           NEW f \in NumericFields \cup BooleanFields, NEW v, IsWorldValue(f, v)
    PROVE  LET cells == Axis(f, items, precursor)
           IN  \E i \in DOMAIN cells :
                  Inside(f, v, cells[i]) /\ \A j \in DOMAIN cells : Inside(f, v, cells[j]) => j = i
<1> DEFINE cells == Axis(f, items, precursor)
<1>1. CASE f \in BooleanFields
  <2>1. v \in BOOLEAN  BY <1>1 DEF IsWorldValue
  <2>2. \A k \in DOMAIN cells : Inside(f, v, cells[k]) <=> cells[k] = v  BY <1>1 DEF Inside
  <2>3. PICK i \in DOMAIN cells : cells[i] = v /\ \A j \in DOMAIN cells : cells[j] = v => j = i
    BY <1>1, <2>1, TruthAxis, Zenon
  <2> HIDE DEF cells
  <2>4. \E k \in DOMAIN cells :
            Inside(f, v, cells[k]) /\ \A j \in DOMAIN cells : Inside(f, v, cells[j]) => j = k
    BY <2>2, <2>3
  <2> QED  BY <2>4 DEF cells
<1>2. CASE f \notin BooleanFields
  <2>1. f \in NumericFields /\ IsValue(f, v)  BY <1>2 DEF IsWorldValue
  <2>2. TilesAxis(f, cells)  BY <2>1, AxisIs
  <2> HIDE DEF cells
  <2>3. DOMAIN cells = 1..Len(cells) /\ Len(cells) \in Nat  BY <2>2 DEF TilesAxis
  <2>4. \A k \in DOMAIN cells : IsTile(f, cells[k]) /\ (Inside(f, v, cells[k]) <=> Spans(cells[k], v))
    BY <2>1, <2>2, <2>3, InsideIs DEF TilesAxis, IsValue
  <2>5. PICK i \in 1..Len(cells) : Spans(cells[i], v)  BY <2>1, <2>2, AxisCovers
  <2>6. ASSUME NEW j \in DOMAIN cells, Spans(cells[j], v) PROVE j = i
    <3>1. i \in 1..Len(cells) /\ j \in 1..Len(cells) /\ i \in Int /\ j \in Int  BY <2>3
    <3>2. /\ v \in Int /\ FirstOf(cells[i]) \in Int /\ LastOf(cells[i]) \in Int
          /\ FirstOf(cells[j]) \in Int /\ LastOf(cells[j]) \in Int
          /\ FirstOf(cells[i]) <= v /\ v <= LastOf(cells[i])
          /\ FirstOf(cells[j]) <= v /\ v <= LastOf(cells[j])
      BY <2>1, <2>3, <2>4, <2>5, <2>6, TileIs DEF Spans, IsValue
    <3>3. CASE i < j
      <4>1. LastOf(cells[i]) < FirstOf(cells[j])  BY <2>1, <2>2, <3>1, <3>3, AxisOrder
      <4> QED  BY <3>2, <4>1
    <3>4. CASE j < i
      <4>1. LastOf(cells[j]) < FirstOf(cells[i])  BY <2>1, <2>2, <3>1, <3>4, AxisOrder
      <4> QED  BY <3>2, <4>1
    <3> QED  BY <3>1, <3>3, <3>4
  <2>7. \E k \in DOMAIN cells :
            Inside(f, v, cells[k]) /\ \A j \in DOMAIN cells : Inside(f, v, cells[j]) => j = k
    BY <2>3, <2>4, <2>5, <2>6
  <2> QED  BY <2>7 DEF cells
<1> QED  BY <1>1, <1>2

\* The items that hold at a value are those that hold at the sample of its cell.
LEMMA SampleAgrees ==
    ASSUME NEW items, IsFiniteSet(items), AllTyped(items), NEW precursor,
           NEW f \in NumericFields \cup BooleanFields, NEW v, IsWorldValue(f, v),
           NEW i \in DOMAIN Axis(f, items, precursor), Inside(f, v, Axis(f, items, precursor)[i])
    PROVE  AgreeAt(f, Sample(f, Axis(f, items, precursor)[i]), items) = AgreeAt(f, v, items)
<1> DEFINE cells == Axis(f, items, precursor)
           cell == cells[i]
<1>1. CASE f \in BooleanFields
  <2>1. Sample(f, cell) = cell /\ v = cell  BY <1>1 DEF Sample, Inside
  <2> HIDE DEF cells
  <2>2. Sample(f, cell) = v  BY <2>1
  <2> HIDE DEF cell
  <2>3. AgreeAt(f, Sample(f, cell), items) = AgreeAt(f, v, items)  BY <2>2
  <2> QED  BY <2>3 DEF cell, cells
<1>2. CASE f \notin BooleanFields
  <2>1. f \in NumericFields /\ IsValue(f, v)  BY <1>2 DEF IsWorldValue
  <2>2. CellsTo(f, items, cells, Domains[f].hi)  BY <2>1, AxisIs
  <2>3. Inside(f, v, cell)  OBVIOUS
  <2>4. i \in DOMAIN cells  OBVIOUS
  <2> HIDE DEF cells
  <2>5. i \in 1..Len(cells)  BY <2>2, <2>4 DEF CellsTo
  <2>6. Fits(f, cell) /\ Uniform(f, items, cell)  BY <2>2, <2>5 DEF CellsTo
  <2> HIDE DEF cell
  <2>7. Spans(cell, v)  BY <2>1, <2>3, <2>6, InsideIs DEF Fits, IsValue
  <2>8. IsValue(f, Sample(f, cell)) /\ Spans(cell, Sample(f, cell))  BY <2>1, <2>6, SampleIn
  <2>9. AgreeAt(f, Sample(f, cell), items) = AgreeAt(f, v, items)
    BY <2>1, <2>6, <2>7, <2>8 DEF Uniform
  <2> QED  BY <2>9 DEF cell, cells
<1> QED  BY <1>1, <1>2

\* Whether conditions match is decided field by field.
LEMMA MatchIsAgreement ==
    ASSUME NEW items, NEW conds \in items, NEW fields, NEW ctx,
           \A i \in DOMAIN conds : conds[i].field \in fields
    PROVE  Matches([conds |-> conds], ctx) <=> \A f \in fields : conds \in AgreeAt(f, ctx[f], items)
<1>1. \A i \in DOMAIN conds :
          ConditionHolds(conds[i], ctx)
            <=> ConditionHolds(conds[i], [g \in {conds[i].field} |-> ctx[conds[i].field]])
  BY DEF ConditionHolds
<1>2. Matches([conds |-> conds], ctx) <=> \A i \in DOMAIN conds : ConditionHolds(conds[i], ctx)
  BY DEF Matches
<1>3. ASSUME Matches([conds |-> conds], ctx), NEW f \in fields
      PROVE  conds \in AgreeAt(f, ctx[f], items)
  BY <1>1, <1>2, <1>3 DEF AgreeAt
<1>4. ASSUME \A f \in fields : conds \in AgreeAt(f, ctx[f], items), NEW i \in DOMAIN conds
      PROVE  ConditionHolds(conds[i], ctx)
  <2>1. conds \in AgreeAt(conds[i].field, ctx[conds[i].field], items)  BY <1>4
  <2>2. ConditionHolds(conds[i], [g \in {conds[i].field} |-> ctx[conds[i].field]])
    BY <2>1 DEF AgreeAt
  <2> QED  BY <1>1, <2>2
<1> QED  BY <1>2, <1>3, <1>4

\* The cells a context lies in.
CellsOf(axes, ctx) ==
    { c \in CellContexts(axes) : \A f \in DOMAIN axes : Inside(f, ctx[f], axes[f][c[f]]) }

LEMMA OneCellContext ==
    ASSUME NEW a \in Questions, NEW ctx, \A f \in NumericFields \cup BooleanFields : IsWorldValue(f, ctx[f])
    PROVE  \E c \in CellContexts(AxesOf(a)) : CellsOf(AxesOf(a), ctx) = {c}
<1> DEFINE axes == AxesOf(a)
           fields == AxisFields(AllOf(a))
           cell(f) == CHOOSE i \in DOMAIN axes[f] : Inside(f, ctx[f], axes[f][i])
           c == [f \in fields |-> cell(f)]
<1>1. IsFiniteSet(AllOf(a)) /\ AllTyped(AllOf(a))  BY ItemsTyped
<1>2. /\ DOMAIN axes = fields
      /\ \A f \in fields : /\ axes[f] = Axis(f, AllOf(a), a.precursor)
                           /\ f \in NumericFields \cup BooleanFields
  BY AxisFieldsIs DEF AxesOf
<1>3. ASSUME NEW f \in fields
      PROVE  \E i \in DOMAIN axes[f] :
                 /\ Inside(f, ctx[f], axes[f][i])
                 /\ \A j \in DOMAIN axes[f] : Inside(f, ctx[f], axes[f][j]) => j = i
  <2> HIDE DEF axes, fields
  <2> QED  BY <1>1, <1>2, OneCell
<1> HIDE DEF axes, fields
<1>4. ASSUME NEW f \in fields
      PROVE  /\ c[f] \in DOMAIN axes[f] /\ Inside(f, ctx[f], axes[f][c[f]])
             /\ \A j \in DOMAIN axes[f] : Inside(f, ctx[f], axes[f][j]) => j = c[f]
  <2>1. c[f] = cell(f)  OBVIOUS
  <2>2. cell(f) \in DOMAIN axes[f] /\ Inside(f, ctx[f], axes[f][cell(f)])  BY <1>3
  <2> QED  BY <1>3, <2>1, <2>2
<1>5. DOMAIN c = fields /\ c = [f \in fields |-> c[f]]  OBVIOUS
<1> HIDE DEF c
<1>6. c \in CellContexts(axes)  BY <1>2, <1>4, <1>5 DEF CellContexts
<1>7. c \in CellsOf(axes, ctx)  BY <1>2, <1>4, <1>6 DEF CellsOf
<1>8. ASSUME NEW d \in CellsOf(axes, ctx) PROVE d = c
  <2>1. d \in [fields -> UNION { DOMAIN axes[f] : f \in fields }] /\ \A f \in fields : d[f] \in DOMAIN axes[f]
    BY <1>2 DEF CellsOf, CellContexts
  <2>2. \A f \in fields : Inside(f, ctx[f], axes[f][d[f]])  BY <1>2 DEF CellsOf
  <2>3. \A f \in fields : d[f] = c[f]  BY <1>4, <2>1, <2>2
  <2> QED  BY <1>5, <2>1, <2>3
<1>9. CellsOf(axes, ctx) = {c}  BY <1>7, <1>8
<1> QED  BY <1>6, <1>9 DEF axes

\* What is forbidden at a context is what is forbidden at the point of its cells.
LEMMA PointForbidden ==
    ASSUME NEW a \in Questions, WithoutLabels(ItemsOf(a)),
           NEW ctx, \A f \in NumericFields \cup BooleanFields : IsWorldValue(f, ctx[f]),
           NEW c \in CellsOf(AxesOf(a), ctx)
    PROVE  Forbidden(ItemsOf(a), Point(AxesOf(a), c)) <=> Forbidden(ItemsOf(a), ctx)
<1> DEFINE axes == AxesOf(a)
           all == AllOf(a)
           fields == AxisFields(all)
           p == Point(axes, c)
<1>1. IsFiniteSet(all) /\ AllTyped(all) /\ ItemsOf(a) \subseteq all  BY ItemsTyped
<1>2. /\ DOMAIN axes = fields
      /\ \A f \in fields : /\ axes[f] = Axis(f, all, a.precursor) /\ f \in Fields
                           /\ f \in NumericFields \cup BooleanFields
  BY AxisFieldsIs DEF AxesOf
<1>3. /\ c \in [fields -> UNION { DOMAIN axes[f] : f \in fields }]
      /\ \A f \in fields : c[f] \in DOMAIN axes[f] /\ Inside(f, ctx[f], axes[f][c[f]])
  BY <1>2 DEF CellsOf, CellContexts
<1>4. \A f \in fields : p[f] = Sample(f, axes[f][c[f]])  BY <1>2, <1>3 DEF Point
<1> HIDE DEF axes, fields, all, p
<1>5. ASSUME NEW f \in fields PROVE AgreeAt(f, p[f], all) = AgreeAt(f, ctx[f], all)
  BY <1>1, <1>2, <1>3, <1>4, SampleAgrees
<1>6. ASSUME NEW conds \in ItemsOf(a), NEW i \in DOMAIN conds PROVE conds[i].field \in fields
  <2>1. conds[i].field \in Fields \ StringFields
    BY <1>1, <1>6, TypedIs DEF WithoutLabels, AllTyped
  <2>2. conds[i].field \in NumericFields \cup BooleanFields  BY <2>1, RegionsAssumption
  <2> QED  BY <1>1, <2>2 DEF fields, AxisFields
<1>7. ASSUME NEW conds \in ItemsOf(a)
      PROVE  Matches([conds |-> conds], p) <=> Matches([conds |-> conds], ctx)
  <2>1. conds \in all /\ \A i \in DOMAIN conds : conds[i].field \in fields  BY <1>1, <1>6
  <2>2. Matches([conds |-> conds], p) <=> \A f \in fields : conds \in AgreeAt(f, p[f], all)
    BY <2>1, MatchIsAgreement
  <2>3. Matches([conds |-> conds], ctx) <=> \A f \in fields : conds \in AgreeAt(f, ctx[f], all)
    BY <2>1, MatchIsAgreement
  <2> QED  BY <1>5, <2>2, <2>3
<1>8. Forbidden(ItemsOf(a), p) <=> Forbidden(ItemsOf(a), ctx)  BY <1>7 DEF Forbidden
<1> QED  BY <1>8 DEF p, axes

-----------------------------------------------------------------------------
(* How many cells there are *)

LEMMA SameSize ==
    ASSUME NEW S, NEW T, IsFiniteSet(T), NEW g,
           \A x \in S : g[x] \in T,
           \A x, y \in S : g[x] = g[y] => x = y,
           \A t \in T : \E x \in S : g[x] = t
    PROVE  IsFiniteSet(S) /\ Cardinality(S) = Cardinality(T)
<1> DEFINE h == [t \in T |-> CHOOSE x \in S : g[x] = t]
<1>1. \A t \in T : h[t] \in S /\ g[h[t]] = t  OBVIOUS
<1>2. \A x \in S : h[g[x]] = x
  <2> SUFFICES ASSUME NEW x \in S PROVE h[g[x]] = x
    OBVIOUS
  <2>1. h[g[x]] \in S /\ g[h[g[x]]] = g[x]  BY <1>1
  <2> HIDE DEF h
  <2> QED  BY <2>1
<1>3. h \in [T -> S]
  <2>1. h = [t \in T |-> h[t]]  OBVIOUS
  <2> HIDE DEF h
  <2> QED  BY <1>1, <2>1
<1> HIDE DEF h
<1>4. h \in Bijection(T, S)
  BY <1>1, <1>2, <1>3 DEF Bijection, Injection, Surjection, IsInjective
<1>5. ExistsBijection(T, S)  BY <1>4 DEF ExistsBijection
<1> QED  BY <1>5, FS_Bijection

\* The cells on some of the axes.
OnAxes(axes, s) == CellContexts([f \in s |-> axes[f]])

LEMMA OnAxesIs ==
    ASSUME NEW axes, NEW s, NEW c
    PROVE  c \in OnAxes(axes, s) <=> /\ c = [f \in s |-> c[f]]
                                     /\ \A f \in s : c[f] \in DOMAIN axes[f]
<1>1. \A f \in s : [g \in s |-> axes[g]][f] = axes[f]  OBVIOUS
<1> QED  BY <1>1 DEF OnAxes, CellContexts

LEMMA OneAxisMore ==
    ASSUME NEW axes, NEW s, NEW x \in s, IsFiniteSet(OnAxes(axes, s \ {x})),
           NEW n \in Nat, DOMAIN axes[x] = 1..n
    PROVE  /\ IsFiniteSet(OnAxes(axes, s))
           /\ Cardinality(OnAxes(axes, s)) = Cardinality(OnAxes(axes, s \ {x})) * n
<1> DEFINE S == OnAxes(axes, s)
           R == OnAxes(axes, s \ {x})
           T == R \X (1..n)
           g == [c \in S |-> <<[f \in s \ {x} |-> c[f]], c[x]>>]
<1>1. IsFiniteSet(1..n) /\ Cardinality(1..n) = n  BY FS_Interval
<1>2. IsFiniteSet(T) /\ Cardinality(T) = Cardinality(R) * n
  <2> HIDE DEF R
  <2>1. IsFiniteSet(R)  BY DEF R
  <2> QED  BY <1>1, <2>1, FS_Product
<1>3. \A c \in S : g[c] = <<[f \in s \ {x} |-> c[f]], c[x]>>  OBVIOUS
<1>4. \A c \in S : c = [f \in s |-> c[f]] /\ \A f \in s : c[f] \in DOMAIN axes[f]  BY OnAxesIs
<1>5. ASSUME NEW c \in S PROVE g[c] \in T
  <2> DEFINE r == [f \in s \ {x} |-> c[f]]
  <2>1. r \in R
    <3>1. r = [f \in s \ {x} |-> r[f]] /\ \A f \in s \ {x} : r[f] \in DOMAIN axes[f]  BY <1>4
    <3> HIDE DEF r
    <3> QED  BY <3>1, OnAxesIs
  <2> QED  BY <1>3, <1>4, <2>1
<1>6. ASSUME NEW c \in S, NEW d \in S, g[c] = g[d] PROVE c = d
  <2>1. [f \in s \ {x} |-> c[f]] = [f \in s \ {x} |-> d[f]] /\ c[x] = d[x]  BY <1>3, <1>6
  <2>2. \A f \in s \ {x} : c[f] = d[f]
    <3> SUFFICES ASSUME NEW f \in s \ {x} PROVE c[f] = d[f]
      OBVIOUS
    <3>1. [k \in s \ {x} |-> c[k]][f] = [k \in s \ {x} |-> d[k]][f]  BY <2>1
    <3> QED  BY <3>1
  <2>3. \A f \in s : c[f] = d[f]  BY <2>1, <2>2
  <2> QED  BY <1>4, <2>3
<1>7. ASSUME NEW t \in T PROVE \E c \in S : g[c] = t
  <2>1. PICK r \in R, i \in 1..n : t = <<r, i>>  OBVIOUS
  <2> DEFINE c == [f \in s |-> IF f = x THEN i ELSE r[f]]
  <2>2. r = [f \in s \ {x} |-> r[f]] /\ \A f \in s \ {x} : r[f] \in DOMAIN axes[f]  BY OnAxesIs
  <2>3. c = [f \in s |-> c[f]] /\ \A f \in s : c[f] \in DOMAIN axes[f]  BY <2>2
  <2>4. c[x] = i /\ \A f \in s \ {x} : c[f] = r[f]  OBVIOUS
  <2> HIDE DEF c
  <2>5. c \in S  BY <2>3, OnAxesIs
  <2>6. [f \in s \ {x} |-> c[f]] = r  BY <2>2, <2>4
  <2> QED  BY <1>3, <2>1, <2>4, <2>5, <2>6
<1> HIDE DEF g, S, T
<1>8. IsFiniteSet(S) /\ Cardinality(S) = Cardinality(T)  BY <1>2, <1>5, <1>6, <1>7, SameSize
<1> QED  BY <1>2, <1>8 DEF S

\* The estimate is exact.
LEMMA CountIs ==
    ASSUME NEW a \in Questions
    PROVE  /\ IsFiniteSet(States(AxesOf(a)))
           /\ StateCount(ItemsOf(a), a.cuts, a.precursor) = Cardinality(States(AxesOf(a)))
<1> DEFINE axes == AxesOf(a)
           all == AllOf(a)
           fields == AxisFields(all)
<1>1. IsFiniteSet(all) /\ AllTyped(all)  BY ItemsTyped
<1>2. IsFiniteSet(fields) /\ fields \subseteq NumericFields \cup BooleanFields  BY AxisFieldsIs
<1>3. /\ DOMAIN axes = fields
      /\ \A f \in fields : axes[f] = Axis(f, all, a.precursor)
  BY DEF AxesOf
<1>4. \A f \in fields : Len(axes[f]) \in Nat /\ DOMAIN axes[f] = 1..Len(axes[f])
  <2> HIDE DEF axes, all, fields
  <2> QED  BY <1>1, <1>2, <1>3, AxisLength
<1>5. all = ItemsOf(a) \cup a.cuts  BY DEF AllOf
<1> HIDE DEF axes, all, fields
<1>6. PICK h : /\ IsCounting(h, all, a.precursor, fields)
               /\ StateCount(ItemsOf(a), a.cuts, a.precursor) = 2 * h[fields]
  <2>1. fields = AxisFields(ItemsOf(a) \cup a.cuts)  BY <1>5 DEF fields
  <2>2. \E h : /\ IsCounting(h, ItemsOf(a) \cup a.cuts, a.precursor, AxisFields(ItemsOf(a) \cup a.cuts))
               /\ StateCount(ItemsOf(a), a.cuts, a.precursor) = 2 * h[AxisFields(ItemsOf(a) \cup a.cuts)]
    BY <1>2, <2>1, CountCounts
  <2> QED  BY <1>5, <2>1, <2>2
<1> DEFINE G == { s \in SUBSET fields : IsFiniteSet(OnAxes(axes, s)) /\ Cardinality(OnAxes(axes, s)) = h[s] }
<1>7. {} \in G
  <2>1. h[{}] = 1  BY <1>6 DEF IsCounting, CountStep
  <2> DEFINE none == [f \in {} |-> 0]
  <2>2. OnAxes(axes, {}) = {none}
    <3>1. ASSUME NEW c PROVE c \in OnAxes(axes, {}) <=> c = none
      <4>1. c \in OnAxes(axes, {}) => c = none  BY DEF OnAxes, CellContexts
      <4>2. none \in OnAxes(axes, {})  BY DEF OnAxes, CellContexts
      <4> HIDE DEF none
      <4> QED  BY <4>1, <4>2
    <3> HIDE DEF none
    <3> QED  BY <3>1
  <2>3. IsFiniteSet({none}) /\ Cardinality({none}) = 1  BY FS_Singleton
  <2> QED  BY <2>1, <2>2, <2>3
<1>8. ASSUME NEW s \in SUBSET fields, s # {}, \A x \in s : s \ {x} \in G
      PROVE  s \in G
  <2> DEFINE x == AnyOf(s)
  <2>1. x \in s  BY <1>8 DEF AnyOf
  <2>2. h[s] = h[s \ {x}] * Len(Axis(x, all, a.precursor))  BY <1>6, <1>8 DEF IsCounting, CountStep
  <2> HIDE DEF x
  <2>3. IsFiniteSet(OnAxes(axes, s \ {x})) /\ Cardinality(OnAxes(axes, s \ {x})) = h[s \ {x}]
    BY <1>8, <2>1
  <2>4. Len(axes[x]) \in Nat /\ DOMAIN axes[x] = 1..Len(axes[x]) /\ axes[x] = Axis(x, all, a.precursor)
    BY <1>3, <1>4, <2>1
  <2>5. /\ IsFiniteSet(OnAxes(axes, s))
        /\ Cardinality(OnAxes(axes, s)) = Cardinality(OnAxes(axes, s \ {x})) * Len(axes[x])
    BY <2>1, <2>3, <2>4, OneAxisMore
  <2> QED  BY <2>2, <2>3, <2>4, <2>5
<1>9. G = SUBSET fields
  <2> HIDE DEF G
  <2>1. G \in SUBSET SUBSET fields  BY DEF G
  <2> QED  BY <1>2, <1>7, <1>8, <2>1, SubsetInduction
<1>10. IsFiniteSet(OnAxes(axes, fields)) /\ Cardinality(OnAxes(axes, fields)) = h[fields]
  BY <1>9
<1>11. OnAxes(axes, fields) = CellContexts(axes)
  <2>1. axes = [f \in fields |-> axes[f]]  BY DEF axes, AxesOf, fields, all
  <2> QED  BY <2>1 DEF OnAxes
<1>12. IsFiniteSet({"off", "on"}) /\ Cardinality({"off", "on"}) = 2
  <2>1. "off" # "on" /\ {"off", "on"} = {"off"} \cup {"on"} /\ "on" \notin {"off"}  OBVIOUS
  <2>2. IsFiniteSet({"off"}) /\ Cardinality({"off"}) = 1  BY FS_Singleton
  <2>3. IsFiniteSet({"off"} \cup {"on"}) /\ Cardinality({"off"} \cup {"on"}) = 1 + 1
    BY <2>1, <2>2, FS_AddElement
  <2> QED  BY <2>1, <2>3
<1>13. /\ IsFiniteSet(States(axes))
       /\ Cardinality(States(axes)) = 2 * Cardinality(CellContexts(axes))
  BY <1>10, <1>11, <1>12, FS_Product DEF States
<1> QED  BY <1>6, <1>10, <1>11, <1>13 DEF axes

-----------------------------------------------------------------------------
(* The cells are exact *)

LEMMA WorldValues ==
    ASSUME NEW ctx \in Worlds
    PROVE  \A f \in NumericFields \cup BooleanFields : IsWorldValue(f, ctx[f])
BY WorldValue

\* What has been asked, and the plant that came of it.
PlantOK ==
    asked # NoQuestion => asked \in Questions /\ plant \in {Built(asked), NoPlant}

LEMMA BuiltIs ==
    ASSUME NEW a
    PROVE  /\ Built(a).states = States(AxesOf(a))
           /\ Built(a).bad = { q \in States(AxesOf(a)) :
                                  q[1] = "on" /\ Forbidden(ItemsOf(a), Point(AxesOf(a), q[2])) }
           /\ Built(a).delta = Delta(AxesOf(a), a.manual)
           /\ Built(a).controllable = Of(CONTROLLABLE)
BY DEF Built, BuildPlant, AxesOf, AllOf

LEMMA CellsAreExact == ASSUME PlantOK PROVE CellsExact
<1> SUFFICES ASSUME asked # NoQuestion, WithoutLabels(ItemsOf(asked))
             PROVE  LET axes == AxesOf(asked)
                    IN  /\ \A ctx \in Worlds :
                              /\ Cardinality(CellsOf(axes, ctx)) = 1
                              /\ \A c \in CellsOf(axes, ctx) :
                                    Forbidden(ItemsOf(asked), Point(axes, c)) <=> Forbidden(ItemsOf(asked), ctx)
                        /\ \A f \in DOMAIN axes \cap NumericFields : \A i, j \in DOMAIN axes[f] : i < j =>
                              /\ \A v, w \in { ctx[f] : ctx \in Worlds } :
                                    Inside(f, v, axes[f][i]) /\ Inside(f, w, axes[f][j]) => v < w
                              /\ j = i + 1 => AgreeAt(f, Sample(f, axes[f][i]), AllOf(asked))
                                                # AgreeAt(f, Sample(f, axes[f][j]), AllOf(asked))
                        /\ plant # NoPlant =>
                              StateCount(ItemsOf(asked), asked.cuts, asked.precursor)
                                = Cardinality(plant.states)
  BY Zenon DEF CellsExact, CellsOf, AxesOf, AllOf
<1> DEFINE axes == AxesOf(asked)
<1>1. asked \in Questions /\ plant \in {Built(asked), NoPlant}  BY DEF PlantOK
<1>2. ASSUME NEW ctx \in Worlds
      PROVE  /\ Cardinality(CellsOf(axes, ctx)) = 1
             /\ \A c \in CellsOf(axes, ctx) :
                    Forbidden(ItemsOf(asked), Point(axes, c)) <=> Forbidden(ItemsOf(asked), ctx)
  <2>1. \A f \in NumericFields \cup BooleanFields : IsWorldValue(f, ctx[f])  BY WorldValues
  <2>2. PICK c \in CellContexts(axes) : CellsOf(axes, ctx) = {c}  BY <1>1, <2>1, OneCellContext
  <2>3. Cardinality({c}) = 1  BY FS_Singleton
  <2> QED  BY <1>1, <2>1, <2>2, <2>3, PointForbidden
<1>3. ASSUME NEW f \in DOMAIN axes \cap NumericFields,
             NEW i \in DOMAIN axes[f], NEW j \in DOMAIN axes[f], i < j
      PROVE  /\ \A v, w \in { ctx[f] : ctx \in Worlds } :
                    Inside(f, v, axes[f][i]) /\ Inside(f, w, axes[f][j]) => v < w
             /\ j = i + 1 => AgreeAt(f, Sample(f, axes[f][i]), AllOf(asked))
                               # AgreeAt(f, Sample(f, axes[f][j]), AllOf(asked))
  <2> DEFINE cells == axes[f]
  <2>1. f \in NumericFields /\ cells = Axis(f, AllOf(asked), asked.precursor)  BY DEF AxesOf
  <2>2. IsFiniteSet(AllOf(asked)) /\ AllTyped(AllOf(asked))  BY <1>1, ItemsTyped
  <2> HIDE DEF axes
  <2>0. i \in DOMAIN cells /\ j \in DOMAIN cells  OBVIOUS
  <2> HIDE DEF cells
  <2>3. CellsTo(f, AllOf(asked), cells, Domains[f].hi) /\ TilesAxis(f, cells)  BY <2>1, <2>2, AxisIs
  <2>4. i \in 1..Len(cells) /\ j \in 1..Len(cells)  BY <2>0, <2>3 DEF TilesAxis
  <2>5. ASSUME NEW v \in { ctx[f] : ctx \in Worlds }, NEW w \in { ctx[f] : ctx \in Worlds },
               Inside(f, v, cells[i]), Inside(f, w, cells[j])
        PROVE  v < w
    <3>1. v \in Int /\ w \in Int  BY <2>1, WorldAssumption
    <3>2. IsTile(f, cells[i]) /\ IsTile(f, cells[j])  BY <2>3, <2>4 DEF TilesAxis
    <3>3. Spans(cells[i], v) /\ Spans(cells[j], w)  BY <2>1, <2>5, <3>1, <3>2, InsideIs
    <3>4. LastOf(cells[i]) < FirstOf(cells[j])  BY <1>3, <2>1, <2>3, <2>4, AxisOrder
    <3>5. LastOf(cells[i]) \in Int /\ FirstOf(cells[j]) \in Int  BY <3>2, TileIs
    <3> QED  BY <3>1, <3>3, <3>4, <3>5 DEF Spans
  <2>6. ASSUME j = i + 1
        PROVE  AgreeAt(f, Sample(f, cells[i]), AllOf(asked)) # AgreeAt(f, Sample(f, cells[j]), AllOf(asked))
    <3>1. i \in 1..(Len(cells) - 1)
      <4>1. Len(cells) \in Nat  BY <2>3 DEF TilesAxis
      <4> QED  BY <2>4, <2>6, <4>1
    <3> QED  BY <2>3, <2>6, <3>1 DEF CellsTo
  <2> QED  BY <2>5, <2>6 DEF cells
<1>4. ASSUME plant # NoPlant
      PROVE  StateCount(ItemsOf(asked), asked.cuts, asked.precursor) = Cardinality(plant.states)
  BY <1>1, <1>4, CountIs, BuiltIs
<1> QED  BY <1>2, <1>3, <1>4

-----------------------------------------------------------------------------
(* A rule that matches in the world has a region *)

InInterval(v, d) ==
    /\ v > d.lo \/ (v = d.lo /\ d.loc)
    /\ v < d.hi \/ (v = d.hi /\ d.hic)

InDim(f, v, d) ==
    IF f \in StringFields THEN (d.all \/ v \in d.inc) /\ v \notin d.exc
    ELSE IF f \in BooleanFields THEN v \in d
    ELSE d \in Intervals /\ InInterval(v, d)

IsAnyValue(f, v) == f \in StringFields \/ IsWorldValue(f, v)

LEMMA FieldSorts ==
    ASSUME NEW f \in Fields, f \notin StringFields, f \notin BooleanFields,
           NEW v, IsAnyValue(f, v)
    PROVE  f \in NumericFields /\ IsValue(f, v) /\ -INF < v /\ v < INF /\ v \in Int
<1>1. f \in NumericFields /\ IsValue(f, v)  BY RegionsAssumption DEF IsAnyValue, IsWorldValue
<1>2. INF \in Int /\ -INF \in Int  BY SMT DEF INF
<1> QED  BY <1>1, <1>2, DomainIs DEF IsValue

LEMMA InCommonDim ==
    ASSUME NEW f \in Fields, NEW a, NEW b, NEW v, IsAnyValue(f, v), InDim(f, v, a), InDim(f, v, b)
    PROVE  InDim(f, v, CommonDim(f, a, b)) /\ ~EmptyDim(f, CommonDim(f, a, b))
<1>1. CASE f \in StringFields
  BY <1>1 DEF CommonDim, CommonLabels, InDim, EmptyDim
<1>2. CASE f \notin StringFields /\ f \in BooleanFields
  BY <1>2 DEF CommonDim, InDim, EmptyDim
<1>3. CASE f \notin StringFields /\ f \notin BooleanFields
  <2> DEFINE d == CommonInterval(a, b)
  <2>1. a \in Intervals /\ b \in Intervals /\ InInterval(v, a) /\ InInterval(v, b)
    BY <1>3 DEF InDim
  <2>2. v \in Int /\ (f \in IntegerFields => v % 2 = 0)  BY <1>3, FieldSorts DEF IsValue
  <2>3. d \in Intervals /\ InInterval(v, d)
    BY <2>1, <2>2 DEF CommonInterval, I, InInterval, Intervals
  <2> HIDE DEF d
  <2>4. ~EmptyInterval(d, f \in IntegerFields)
    <3>1. CASE f \notin IntegerFields
      BY <2>2, <2>3, <3>1 DEF EmptyInterval, InInterval, Intervals
    <3>2. CASE f \in IntegerFields
      <4>1. IntLo(d) <= v /\ IntLo(d) \in Int  BY <2>2, <2>3, <3>2 DEF IntLo, InInterval, Intervals
      <4>2. v <= IntHi(d) /\ IntHi(d) \in Int  BY <2>2, <2>3, <3>2 DEF IntHi, InInterval, Intervals
      <4> QED  BY <2>2, <3>2, <4>1, <4>2 DEF EmptyInterval
    <3> QED  BY <3>1, <3>2
  <2> QED  BY <1>3, <2>3, <2>4 DEF CommonDim, EmptyDim, InDim, d
<1> QED  BY <1>1, <1>2, <1>3

LEMMA NumericDimHolds ==
    ASSUME NEW op \in {"<", "<=", ">", ">=", "==", "!="}, NEW x \in Int, NEW v \in Int,
           -INF < v, v < INF, Compare(op, v, x)
    PROVE  \E d \in NumericDims(op, x) : d \in Intervals /\ InInterval(v, d)
<1>0. INF \in Int /\ -INF \in Int  BY SMT DEF INF
<1> DEFINE Above(closed) == I(x, INF, closed, FALSE)
           Below(closed) == I(-INF, x, FALSE, closed)
           At == I(x, x, TRUE, TRUE)
<1>1. /\ Above(FALSE) \in Intervals /\ (v > x => InInterval(v, Above(FALSE)))
      /\ Above(TRUE) \in Intervals /\ (v >= x => InInterval(v, Above(TRUE)))
      /\ Below(FALSE) \in Intervals /\ (v < x => InInterval(v, Below(FALSE)))
      /\ Below(TRUE) \in Intervals /\ (v <= x => InInterval(v, Below(TRUE)))
      /\ At \in Intervals /\ (v = x => InInterval(v, At))
  BY <1>0 DEF I, InInterval, Intervals
<1>2. /\ op = ">" => NumericDims(op, x) = {Above(FALSE)} /\ v > x
      /\ op = ">=" => NumericDims(op, x) = {Above(TRUE)} /\ v >= x
      /\ op = "<" => NumericDims(op, x) = {Below(FALSE)} /\ v < x
      /\ op = "<=" => NumericDims(op, x) = {Below(TRUE)} /\ v <= x
      /\ op = "==" => NumericDims(op, x) = {At} /\ v = x
      /\ op = "!=" => NumericDims(op, x) = {Below(FALSE), Above(FALSE)} /\ v # x
  BY DEF NumericDims, Compare
<1> HIDE DEF Above, Below, At
<1>3. v # x => v < x \/ v > x  OBVIOUS
<1> QED  BY <1>1, <1>2, <1>3

LEMMA ConditionDimHolds ==
    ASSUME NEW conds, Typed(conds), NEW i \in DOMAIN conds, NEW ctx,
           IsAnyValue(conds[i].field, ctx[conds[i].field]), ConditionHolds(conds[i], ctx)
    PROVE  \E d \in ConditionDims(conds[i]) : InDim(conds[i].field, ctx[conds[i].field], d)
<1> DEFINE c == conds[i]
           f == c.field
           v == ctx[f]
<1>1. /\ f \in Fields /\ c.op \in {"<", "<=", ">", ">=", "==", "!="}
      /\ f \in NumericFields => c.value \in Int
      /\ f \in BooleanFields => c.value \in BOOLEAN
      /\ f \notin NumericFields => c.op \in {"==", "!="}
  BY TypedIs
<1>2. IsAnyValue(f, v) /\ Compare(c.op, v, c.value)  BY DEF ConditionHolds
<1> HIDE DEF c, v
<1>3. CASE f \in StringFields
  <2> DEFINE d == IF c.op = "==" THEN Only({c.value}) ELSE AllBut({c.value})
  <2>1. ConditionDims(c) = {d}  BY <1>3 DEF ConditionDims
  <2>2. c.op \in {"==", "!="}  BY <1>1, <1>3, RegionsAssumption
  <2>3. InDim(f, v, d)  BY <1>2, <1>3, <2>2 DEF InDim, Only, AllBut, Every, Compare
  <2> HIDE DEF d
  <2> QED  BY <2>1, <2>3 DEF c, v
<1>4. CASE f \notin StringFields /\ f \in BooleanFields
  <2> DEFINE d == IF c.op = "==" THEN {c.value} ELSE {~c.value}
  <2>1. c.op \in {"==", "!="} /\ c.value \in BOOLEAN /\ v \in BOOLEAN
    BY <1>1, <1>2, <1>4, RegionsAssumption DEF IsAnyValue, IsWorldValue
  <2>2. ConditionDims(c) = {d}  BY <1>4, <2>1 DEF ConditionDims
  <2>3. IF c.op = "==" THEN v = c.value ELSE v # c.value  BY <1>2, <2>1 DEF Compare
  <2>4. v # c.value => v = ~c.value  BY <2>1
  <2>5. InDim(f, v, d)  BY <1>4, <2>3, <2>4 DEF InDim
  <2> HIDE DEF d
  <2> QED  BY <2>2, <2>5 DEF c, v
<1>5. CASE f \notin StringFields /\ f \notin BooleanFields
  <2>1. f \in NumericFields /\ v \in Int /\ -INF < v /\ v < INF  BY <1>1, <1>2, <1>5, FieldSorts
  <2>2. ConditionDims(c) = NumericDims(c.op, c.value)  BY <1>5 DEF ConditionDims
  <2>3. PICK d \in NumericDims(c.op, c.value) : d \in Intervals /\ InInterval(v, d)
    BY <1>1, <1>2, <2>1, NumericDimHolds
  <2>4. InDim(f, v, d)  BY <1>5, <2>3 DEF InDim
  <2> QED  BY <2>2, <2>4 DEF c, v
<1> QED  BY <1>3, <1>4, <1>5

InBox(ctx, b) == DOMAIN b = Fields /\ \A f \in Fields : InDim(f, ctx[f], b[f])

LEMMA InFullBox ==
    ASSUME NEW ctx, \A f \in Fields : IsAnyValue(f, ctx[f])
    PROVE  InBox(ctx, FullBox)
<1>1. ASSUME NEW f \in Fields PROVE InDim(f, ctx[f], FullDim(f))
  <2>1. CASE f \in StringFields  BY <2>1 DEF FullDim, Every, InDim
  <2>2. CASE f \notin StringFields /\ f \in BooleanFields
    BY <2>2 DEF FullDim, InDim, IsAnyValue, IsWorldValue
  <2>3. CASE f \notin StringFields /\ f \notin BooleanFields
    <3>1. f \in NumericFields /\ IsValue(f, ctx[f])  BY <2>3, FieldSorts
    <3>2. FullDim(f) = I(Domains[f].lo, Domains[f].hi, TRUE, TRUE)  BY <2>3 DEF FullDim
    <3> QED  BY <2>3, <3>1, <3>2, DomainIs DEF InDim, InInterval, I, Intervals, IsValue
  <2> QED  BY <2>1, <2>2, <2>3
<1> QED  BY <1>1 DEF FullBox, InBox

LEMMA InNarrowed ==
    ASSUME NEW ctx, \A f \in Fields : IsAnyValue(f, ctx[f]), NEW R, NEW b \in R, InBox(ctx, b),
           NEW c, c.field \in Fields, NEW d \in ConditionDims(c), InDim(c.field, ctx[c.field], d)
    PROVE  \E r \in Narrow(R, c) : InBox(ctx, r)
<1> DEFINE g == c.field
           r == [f \in Fields |-> IF f = g THEN CommonDim(f, b[f], d) ELSE b[f]]
<1>1. InDim(g, ctx[g], CommonDim(g, b[g], d)) /\ ~EmptyDim(g, CommonDim(g, b[g], d))
  BY InCommonDim DEF InBox
<1>2. DOMAIN r = Fields /\ r[g] = CommonDim(g, b[g], d) /\ \A f \in Fields : f # g => r[f] = b[f]
  OBVIOUS
<1>3. r \in Narrow(R, c)  BY <1>1, <1>2 DEF Narrow
<1> HIDE DEF r
<1>4. ASSUME NEW f \in Fields PROVE InDim(f, ctx[f], r[f])
  <2>1. CASE f = g  BY <1>1, <1>2, <2>1
  <2>2. CASE f # g  BY <1>2, <2>2 DEF InBox
  <2> QED  BY <2>1, <2>2
<1>5. InBox(ctx, r)  BY <1>2, <1>4 DEF InBox
<1> QED  BY <1>3, <1>5

LEMMA RegionOfMatch ==
    ASSUME NEW conds, Typed(conds), NEW ctx, \A f \in Fields : IsAnyValue(f, ctx[f]),
           Matches([conds |-> conds], ctx)
    PROVE  Satisfiable(conds)
<1> DEFINE n == Len(conds)
<1>1. n \in Nat /\ DOMAIN conds = 1..n  BY TypedLength
<1> HIDE DEF n
<1>2. PICK h : IsNarrowing(h, conds) /\ RuleRegion(conds) = h[DOMAIN conds]  BY <1>1, RegionNarrows
<1> DEFINE G == { k \in Nat : k <= n => \E b \in h[1..k] : InBox(ctx, b) }
<1>3. 0 \in G
  <2>1. h[1..0] = {FullBox}
    <3>1. 1..0 = {} /\ {} \in SUBSET DOMAIN conds  OBVIOUS
    <3> QED  BY <1>2, <3>1 DEF IsNarrowing, NarrowStep
  <2> QED  BY <2>1, InFullBox
<1>4. ASSUME NEW k \in G PROVE k + 1 \in G
  <2> SUFFICES ASSUME k + 1 <= n PROVE \E b \in h[1..(k + 1)] : InBox(ctx, b)
    OBVIOUS
  <2>1. k \in Nat /\ k <= n  BY <1>1
  <2>2. PICK b \in h[1..k] : InBox(ctx, b)  BY <2>1
  <2>3. h[1..(k + 1)] = Narrow(h[1..k], conds[k + 1])
    <3>1. /\ 1..(k + 1) \in SUBSET (1..n) /\ 1..(k + 1) # {}
          /\ Max(1..(k + 1)) = k + 1 /\ (1..(k + 1)) \ {k + 1} = 1..k
      BY <1>1, <2>1, Prefix
    <3> QED  BY <1>1, <1>2, <3>1 DEF IsNarrowing, NarrowStep
  <2>4. k + 1 \in DOMAIN conds  BY <1>1, <2>1
  <2>5. conds[k + 1].field \in Fields  BY <2>4, TypedIs
  <2>6. ConditionHolds(conds[k + 1], ctx)  BY <2>4 DEF Matches
  <2>7. PICK d \in ConditionDims(conds[k + 1]) : InDim(conds[k + 1].field, ctx[conds[k + 1].field], d)
    BY <2>4, <2>5, <2>6, ConditionDimHolds
  <2> QED  BY <2>2, <2>3, <2>5, <2>7, InNarrowed
<1>5. G = Nat
  <2> HIDE DEF G
  <2>1. G \in SUBSET Nat  BY DEF G
  <2> QED  BY <1>3, <1>4, <2>1, SetInduction
<1>6. n \in G /\ n <= n  BY <1>1, <1>5
<1> QED  BY <1>1, <1>2, <1>6 DEF Satisfiable

LEMMA AnyValues ==
    ASSUME NEW ctx \in Worlds
    PROVE  \A f \in Fields : IsAnyValue(f, ctx[f])
BY WorldValue, RegionsAssumption DEF IsAnyValue

\* What the evaluator refuses, the plant forbids.
LEMMA RefusedIsForbidden ==
    ASSUME NEW a \in Questions, NEW ctx \in Worlds, Refuses(a, ctx)
    PROVE  Forbidden(ItemsOf(a), ctx)
<1> DEFINE rules == SetToSeq(a.rules)
           blocks == Matching(rules, a.device, ctx, "block")
<1>1. IsFiniteSet(a.rules)  BY QuestionAssumption
<1>2. rules \in Seq(a.rules) /\ \A i \in DOMAIN rules : rules[i] \in a.rules
  <2>1. \E f : f \in [1..Cardinality(a.rules) -> a.rules] /\ IsInjective(f)
    <3>1. Cardinality(a.rules) \in Nat  BY <1>1, FS_CardinalityType
    <3>2. ExistsBijection(1..Cardinality(a.rules), a.rules)  BY <1>1, FS_NatBijection, FS_CountingElements, FS_CardinalityType
    <3> QED  BY <3>2 DEF ExistsBijection, Bijection, Injection
  <2>2. rules \in [1..Cardinality(a.rules) -> a.rules]  BY <2>1 DEF SetToSeq
  <2> QED  BY <1>1, <2>2, FS_CardinalityType
<1> HIDE DEF rules
<1>3. blocks # {}
  <2>1. "turn_on" \notin SAFE_ACTIONS  BY DEF SAFE_ACTIONS
  <2>2. ComputeVerdict(rules, a.device, "turn_on", ctx).verdict = "block"  BY DEF Refuses, rules
  <2> SUFFICES ASSUME blocks = {} PROVE FALSE
    OBVIOUS
  <2> QED  BY <2>1, <2>2 DEF ComputeVerdict, Decision, Allow
<1>4. PICK i \in blocks : TRUE  BY <1>3
<1> DEFINE r == rules[i]
<1>5. /\ r \in a.rules /\ r.type = "block" /\ Canonical[r.device] = Canonical[a.device]
      /\ Matches(r, ctx)
  BY <1>2, <1>4 DEF Matching
<1> HIDE DEF r
<1>6. r.device = a.device /\ Typed(r.conds)  BY <1>5, QuestionAssumption
<1>7. Matches([conds |-> r.conds], ctx)  BY <1>5 DEF Matches
<1>8. Satisfiable(r.conds)  BY <1>6, <1>7, AnyValues, RegionOfMatch
<1>9. r.conds \in ItemsOf(a)  BY <1>5, <1>6, <1>8 DEF ItemsOf, SpecItems
<1> QED  BY <1>7, <1>9 DEF Forbidden

-----------------------------------------------------------------------------
(* The world beside the plant *)

\* Of what can be asked, and the world: the plant is the one that was built, or none
\* was; and where the plant's legal states can be kept by refusing, the device is not on
\* where it must not be.
Kept(a, p) == Controllable(p, Legal(p)) /\ WithoutLabels(ItemsOf(a)) /\ Covered(a)

WorldInv ==
    /\ asked # NoQuestion =>
          /\ asked \in Questions
          /\ plant = Built(asked) \/ (plant = NoPlant /\ pc = "not_computed")
    /\ pc = "live" =>
          /\ asked # NoQuestion
          /\ world = [mode |-> world.mode, ctx |-> world.ctx]
          /\ world.mode \in {"on", "off"} /\ world.ctx \in Worlds
          /\ Kept(asked, plant) /\ world.mode = "on" => ~Forbidden(ItemsOf(asked), world.ctx)

\* From one of n places, all are reached by steps up and down.
LEMMA UpAndDown ==
    ASSUME NEW n \in Nat, NEW S \in SUBSET (1..n), NEW i \in S,
           \A k \in S : (k + 1 \in 1..n => k + 1 \in S) /\ (k - 1 \in 1..n => k - 1 \in S)
    PROVE  S = 1..n
<1> DEFINE U == { j \in Nat : i + j \in 1..n => i + j \in S }
           V == { j \in Nat : i - j \in 1..n => i - j \in S }
<1>1. 0 \in U /\ 0 \in V  OBVIOUS
<1>2. ASSUME NEW j \in U PROVE j + 1 \in U
  <2> SUFFICES ASSUME i + (j + 1) \in 1..n PROVE i + (j + 1) \in S
    OBVIOUS
  <2>1. i + j \in 1..n /\ (i + j) + 1 = i + (j + 1)  OBVIOUS
  <2>2. i + j \in S  BY <2>1
  <2> HIDE DEF U, V
  <2> QED  BY <2>1, <2>2
<1>3. ASSUME NEW j \in V PROVE j + 1 \in V
  <2> SUFFICES ASSUME i - (j + 1) \in 1..n PROVE i - (j + 1) \in S
    OBVIOUS
  <2>1. i - j \in 1..n /\ (i - j) - 1 = i - (j + 1)  OBVIOUS
  <2>2. i - j \in S  BY <2>1
  <2> HIDE DEF U, V
  <2> QED  BY <2>1, <2>2
<1>4. U = Nat /\ V = Nat
  <2> HIDE DEF U, V
  <2>1. U \in SUBSET Nat /\ V \in SUBSET Nat  BY DEF U, V
  <2> QED  BY <1>1, <1>2, <1>3, <2>1, SetInduction
<1>5. ASSUME NEW k \in 1..n PROVE k \in S
  <2>1. CASE i <= k
    <3>1. k - i \in U /\ i + (k - i) = k
      <4> HIDE DEF U, V
      <4> QED  BY <1>4, <2>1
    <3> QED  BY <3>1
  <2>2. CASE k < i
    <3>1. i - k \in V /\ i - (i - k) = k
      <4> HIDE DEF U, V
      <4> QED  BY <1>4, <2>2
    <3> QED  BY <3>1
  <2> QED  BY <2>1, <2>2
<1> QED  BY <1>5

\* From one of two or three places, all are reached going round.
LEMMA Round ==
    ASSUME NEW n \in {2, 3}, NEW S \in SUBSET (1..n), NEW i \in S,
           \A k \in S : (k % n) + 1 \in S
    PROVE  S = 1..n
<1>1. CASE n = 2
  <2>1. i = 1 \/ i = 2  BY <1>1
  <2>2. (1 % 2) + 1 = 2 /\ (2 % 2) + 1 = 1  OBVIOUS
  <2>3. 1 \in S => (1 % 2) + 1 \in S  BY <1>1
  <2>4. 2 \in S => (2 % 2) + 1 \in S  BY <1>1
  <2>5. 1 \in S /\ 2 \in S  BY <2>1, <2>2, <2>3, <2>4
  <2>6. 1..n = {1, 2}  BY <1>1
  <2> QED  BY <2>5, <2>6
<1>2. CASE n = 3
  <2>1. i = 1 \/ i = 2 \/ i = 3  BY <1>2
  <2>2. (1 % 3) + 1 = 2 /\ (2 % 3) + 1 = 3 /\ (3 % 3) + 1 = 1  OBVIOUS
  <2>3. 1 \in S => (1 % 3) + 1 \in S  BY <1>2
  <2>4. 2 \in S => (2 % 3) + 1 \in S  BY <1>2
  <2>5. 3 \in S => (3 % 3) + 1 \in S  BY <1>2
  <2>6. 1 \in S /\ 2 \in S /\ 3 \in S  BY <2>1, <2>2, <2>3, <2>4, <2>5
  <2>7. 1..n = {1, 2, 3}  BY <1>2
  <2> QED  BY <2>6, <2>7
<1> QED  BY <1>1, <1>2

LEMMA FreeEvents ==
    /\ Of(CONTROLLABLE) = {<<"device", "turn_on">>}
    /\ \A f : <<f, "next">> \notin Of(CONTROLLABLE) /\ <<f, "up">> \notin Of(CONTROLLABLE)
              /\ <<f, "down">> \notin Of(CONTROLLABLE)
    /\ <<"device", "manual_on">> \notin Of(CONTROLLABLE)
<1>1. CONTROLLABLE = {"turn_on"}  BY DEF CONTROLLABLE, SAFE_ACTIONS
<1>2. Of(CONTROLLABLE) = {<<"device", "turn_on">>}  BY <1>1 DEF Of
<1> QED  BY <1>2

LEMMA DeltaHas ==
    ASSUME NEW axes, NEW manual, NEW q \in States(axes)
    PROVE  /\ \A e \in CommandsIn(q[1], manual) :
                 [from |-> q, event |-> <<"device", e>>, to |-> <<ModeAfter(q[1], e), q[2]>>]
                    \in Delta(axes, manual)
           /\ \A f \in DOMAIN axes : \A d \in Drifts(f, q[2][f], Len(axes[f])) :
                 [from |-> q, event |-> d.event, to |-> <<q[1], [q[2] EXCEPT ![f] = d.to]>>]
                    \in Delta(axes, manual)
<1> DEFINE A(p) == { [from |-> p, event |-> <<"device", e>>, to |-> <<ModeAfter(p[1], e), p[2]>>]
                     : e \in CommandsIn(p[1], manual) }
           B(p, f) == { [from |-> p, event |-> d.event, to |-> <<p[1], [p[2] EXCEPT ![f] = d.to]>>]
                        : d \in Drifts(f, p[2][f], Len(axes[f])) }
           D(p) == A(p) \cup UNION { B(p, f) : f \in DOMAIN axes }
<1>1. Delta(axes, manual) = UNION { D(p) : p \in States(axes) }
  BY Zenon DEF Delta
<1>2. \A e \in CommandsIn(q[1], manual) :
          [from |-> q, event |-> <<"device", e>>, to |-> <<ModeAfter(q[1], e), q[2]>>] \in A(q)
  OBVIOUS
<1>3. \A f \in DOMAIN axes : \A d \in Drifts(f, q[2][f], Len(axes[f])) :
          [from |-> q, event |-> d.event, to |-> <<q[1], [q[2] EXCEPT ![f] = d.to]>>] \in B(q, f)
  OBVIOUS
<1> HIDE DEF A, B
<1>4. A(q) \subseteq D(q) /\ \A f \in DOMAIN axes : B(q, f) \subseteq D(q)
  OBVIOUS
<1> HIDE DEF D
<1>5. D(q) \subseteq Delta(axes, manual)  BY <1>1
<1> QED  BY <1>2, <1>3, <1>4, <1>5

\* Where refusing is enough, a field can drift to any cell of its axis.
LEMMA DriftsAnywhere ==
    ASSUME NEW a \in Questions, NEW p, p = Built(a), Controllable(p, Legal(p)),
           NEW m, NEW c, <<m, c>> \in Legal(p), NEW f \in DOMAIN AxesOf(a),
           NEW k \in DOMAIN AxesOf(a)[f]
    PROVE  <<m, [c EXCEPT ![f] = k]>> \in Legal(p)
<1> DEFINE axes == AxesOf(a)
           n == Len(axes[f])
           S == { j \in 1..n : <<m, [c EXCEPT ![f] = j]>> \in Legal(p) }
<1>1. IsFiniteSet(AllOf(a)) /\ AllTyped(AllOf(a))  BY ItemsTyped
<1>2. /\ axes[f] = Axis(f, AllOf(a), a.precursor) /\ f \in NumericFields \cup BooleanFields
      /\ DOMAIN axes = AxisFields(AllOf(a))
  BY AxisFieldsIs DEF AxesOf
<1>3. n \in Nat /\ DOMAIN axes[f] = 1..n  BY <1>1, <1>2, AxisLength
<1>4. /\ p.states = States(axes) /\ p.delta = Delta(axes, a.manual)
      /\ p.controllable = Of(CONTROLLABLE)
  BY BuiltIs
<1>5. Legal(p) \subseteq States(axes)  BY <1>4 DEF Legal
<1> HIDE DEF axes, n
<1>6. ASSUME NEW j \in S, NEW d \in Drifts(f, j, n), d.event \notin Of(CONTROLLABLE), d.to \in 1..n
      PROVE  d.to \in S
  <2> DEFINE b == [c EXCEPT ![f] = j]
             q == <<m, b>>
             t == <<m, [b EXCEPT ![f] = d.to]>>
             e == [from |-> q, event |-> d.event, to |-> t]
  <2>1. q \in States(axes) /\ q \in Legal(p) /\ q[1] = m /\ q[2] = b  BY <1>5
  <2>2. b \in CellContexts(axes)  BY <2>1 DEF States
  <2>3. DOMAIN b = DOMAIN axes /\ f \in DOMAIN axes  BY <2>2 DEF CellContexts, axes
  <2>4. b[f] = j /\ [b EXCEPT ![f] = d.to] = [c EXCEPT ![f] = d.to]
    <3>1. DOMAIN c = DOMAIN b  OBVIOUS
    <3> QED  BY <2>3, <3>1
  <2>5. e \in p.delta
    <3>1. \A x \in Drifts(f, q[2][f], Len(axes[f])) :
              [from |-> q, event |-> x.event, to |-> <<q[1], [q[2] EXCEPT ![f] = x.to]>>] \in Delta(axes, a.manual)
      <4> HIDE DEF q
      <4> QED  BY <2>1, <2>3, DeltaHas
    <3>2. d \in Drifts(f, q[2][f], Len(axes[f]))  BY <2>1, <2>4 DEF n
    <3>3. [from |-> q, event |-> d.event, to |-> <<q[1], [q[2] EXCEPT ![f] = d.to]>>] \in Delta(axes, a.manual)
      <4> HIDE DEF q
      <4> QED  BY <3>1, <3>2
    <3> QED  BY <1>4, <2>1, <3>3
  <2>6. e.from = q /\ e.event = d.event /\ e.to = t  OBVIOUS
  <2> HIDE DEF e, q, t
  <2>7. t \in Legal(p)  BY <1>4, <1>6, <2>1, <2>5, <2>6 DEF Controllable
  <2> QED  BY <1>6, <2>4, <2>7 DEF t
<1>7. DOMAIN c = DOMAIN axes /\ c[f] \in 1..n /\ f \in DOMAIN axes
  <2>1. c \in CellContexts(axes)  BY <1>5 DEF States
  <2> QED  BY <1>3, <2>1 DEF CellContexts, axes
<1>8. c[f] \in S
  <2>1. [c EXCEPT ![f] = c[f]] = c
    <3>1. c \in CellContexts(axes)  BY <1>5 DEF States
    <3> QED  BY <3>1 DEF CellContexts
  <2> QED  BY <1>7, <2>1
<1>9. S \in SUBSET (1..n)  OBVIOUS
<1>10. S = 1..n
  <2>1. CASE f \in BooleanFields
    <3>1. n \in {2, 3}
      <4>1. Len(Axis(f, AllOf(a), a.precursor)) \in {2, 3}  BY <2>1, TruthAxis
      <4> QED  BY <1>2, <4>1 DEF n
    <3>2. ASSUME NEW j \in S PROVE (j % n) + 1 \in S
      <4> DEFINE d == [event |-> <<f, "next">>, to |-> (j % n) + 1]
      <4>1. d \in Drifts(f, j, n)  BY <2>1 DEF Drifts
      <4>2. d.event \notin Of(CONTROLLABLE) /\ d.to = (j % n) + 1  BY FreeEvents
      <4>3. (j % n) + 1 \in 1..n  BY <3>1
      <4> HIDE DEF d, S
      <4> QED  BY <1>6, <4>1, <4>2, <4>3
    <3> HIDE DEF S
    <3> QED  BY <1>8, <1>9, <3>1, <3>2, Round
  <2>2. CASE f \notin BooleanFields
    <3>1. ASSUME NEW j \in S, NEW i \in {j - 1, j + 1} \cap 1..n PROVE i \in S
      <4> DEFINE d == [event |-> <<f, IF i > j THEN "up" ELSE "down">>, to |-> i]
      <4>1. d \in Drifts(f, j, n)  BY <2>2 DEF Drifts
      <4>2. d.event \notin Of(CONTROLLABLE) /\ d.to = i
        <5>1. d.event = <<f, "up">> \/ d.event = <<f, "down">>  OBVIOUS
        <5> QED  BY <5>1, FreeEvents
      <4> HIDE DEF d, S
      <4> QED  BY <1>6, <4>1, <4>2
    <3> HIDE DEF S
    <3>2. \A j \in S : (j + 1 \in 1..n => j + 1 \in S) /\ (j - 1 \in 1..n => j - 1 \in S)
      BY <3>1
    <3> QED  BY <1>3, <1>8, <1>9, <3>2, UpAndDown
  <2> QED  BY <2>1, <2>2
<1>11. k \in 1..n  BY <1>3 DEF axes
<1> QED  BY <1>10, <1>11


\* Where the world is in a cell, the cell is legal with the device off, and with it on
\* just where nothing is forbidden.
LEMMA LegalPoint ==
    ASSUME NEW a \in Questions, WithoutLabels(ItemsOf(a)),
           NEW ctx, \A f \in NumericFields \cup BooleanFields : IsWorldValue(f, ctx[f]),
           NEW c \in CellsOf(AxesOf(a), ctx)
    PROVE  /\ <<"off", c>> \in Legal(Built(a))
           /\ <<"on", c>> \in Legal(Built(a)) <=> ~Forbidden(ItemsOf(a), ctx)
<1>1. c \in CellContexts(AxesOf(a))  BY DEF CellsOf
<1>2. <<"off", c>> \in States(AxesOf(a)) /\ <<"on", c>> \in States(AxesOf(a))
  BY <1>1 DEF States
<1>3. Forbidden(ItemsOf(a), Point(AxesOf(a), c)) <=> Forbidden(ItemsOf(a), ctx)  BY PointForbidden
<1>4. <<"off", c>>[1] = "off" /\ <<"on", c>>[1] = "on" /\ <<"on", c>>[2] = c  OBVIOUS
<1> QED  BY <1>2, <1>3, <1>4, BuiltIs DEF Legal

LEMMA AskBuilds == ASSUME EnforceInit PROVE WorldInv
<1>1. CASE Init /\ asked = NoQuestion
  <2>1. pc = "guard"  BY <1>1 DEF Init, InitWith
  <2> QED  BY <1>1, <2>1 DEF WorldInv
<1>2. ASSUME NEW a \in Questions, asked = a, TooLarge(a), plant = NoPlant, pc = "not_computed"
      PROVE  WorldInv
  BY <1>2 DEF WorldInv
<1>3. ASSUME NEW a \in Questions, asked = a, InitWith(Built(a)) PROVE WorldInv
  <2>1. pc = "guard" /\ plant = Built(a)  BY <1>3 DEF InitWith
  <2> QED  BY <1>3, <2>1 DEF WorldInv
<1> QED  BY <1>1, <1>2, <1>3 DEF EnforceInit, Ask

LEMMA SynthesisKeepsWorld == ASSUME WorldInv, Synthesis PROVE WorldInv'
<1>1. Next /\ UNCHANGED <<asked, world>>  BY DEF Synthesis
<1>2. pc # "not_computed" /\ UNCHANGED plant /\ pc' # "live"
  <2>1. CASE Prune  BY <2>1 DEF Prune, Mechanisms
  <2>2. CASE Settle  BY <2>2 DEF Settle, Mechanisms
  <2>3. CASE TimesOut  BY <2>3 DEF TimesOut, Mechanisms
  <2>4. ASSUME NEW m \in Mechanisms, Install(m) PROVE pc # "not_computed" /\ UNCHANGED plant /\ pc' # "live"
    BY <2>4 DEF Install
  <2>5. ASSUME NEW d \in plant.delta, Move(d) PROVE pc # "not_computed" /\ UNCHANGED plant /\ pc' # "live"
    BY <2>5 DEF Move
  <2> QED  BY <1>1, <2>1, <2>2, <2>3, <2>4, <2>5 DEF Next, Synthesize
<1> QED  BY <1>1, <1>2 DEF WorldInv

LEMMA GoLiveKeepsWorld == ASSUME WorldInv, GoLive PROVE WorldInv'
<1>1. pc = "classified" /\ asked # NoQuestion /\ UNCHANGED <<plant, asked>>  BY DEF GoLive
<1>2. PICK ctx \in Worlds : world' = [mode |-> "off", ctx |-> ctx]  BY DEF GoLive
<1> QED  BY <1>1, <1>2 DEF WorldInv

LEMMA LiveIs ==
    ASSUME WorldInv, pc = "live"
    PROVE  /\ asked \in Questions /\ plant = Built(asked)
           /\ world.mode \in {"on", "off"} /\ world.ctx \in Worlds
           /\ \A f \in NumericFields \cup BooleanFields : IsWorldValue(f, world.ctx[f])
<1>1. asked \in Questions /\ plant = Built(asked)  BY DEF WorldInv
<1>2. world.mode \in {"on", "off"} /\ world.ctx \in Worlds  BY DEF WorldInv
<1> QED  BY <1>1, <1>2, WorldValues

\* Turned on by hand, where that is possible: had it been forbidden, refusing would not
\* have been enough.
LEMMA ManualIsLegal ==
    ASSUME NEW a \in Questions, Kept(a, Built(a)), NEW ctx \in Worlds,
           "manual_on" \in CommandsIn("off", a.manual)
    PROVE  ~Forbidden(ItemsOf(a), ctx)
<1> DEFINE axes == AxesOf(a)
           p == Built(a)
<1>1. \A f \in NumericFields \cup BooleanFields : IsWorldValue(f, ctx[f])  BY WorldValues
<1>2. PICK c \in CellContexts(axes) : CellsOf(axes, ctx) = {c}  BY <1>1, OneCellContext
<1>3. c \in CellsOf(axes, ctx)  BY <1>2
<1>4. <<"off", c>> \in Legal(p)  BY <1>1, <1>3, LegalPoint DEF Kept
<1> DEFINE q == <<"off", c>>
           e == [from |-> q, event |-> <<"device", "manual_on">>, to |-> <<ModeAfter(q[1], "manual_on"), q[2]>>]
<1>5. q[1] = "off" /\ q[2] = c /\ ModeAfter(q[1], "manual_on") = "on"  BY DEF ModeAfter
<1>6. q \in States(axes)  BY <1>2 DEF States
<1>7. e \in Delta(axes, a.manual)
  <2> HIDE DEF axes, q
  <2> QED  BY <1>5, <1>6, DeltaHas
<1>8. e \in p.delta /\ p.controllable = Of(CONTROLLABLE)  BY <1>7, BuiltIs
<1>9. e.from = q /\ e.event = <<"device", "manual_on">> /\ e.to = <<"on", c>>  BY <1>5
<1>10. Controllable(p, Legal(p))  BY DEF Kept
<1>11. <<"on", c>> \in Legal(p)
  <2>1. e.event \notin p.controllable  BY <1>8, <1>9, FreeEvents
  <2> HIDE DEF e, p
  <2> QED  BY <1>4, <1>8, <1>9, <1>10, <2>1 DEF Controllable
<1> QED  BY <1>1, <1>3, <1>11, LegalPoint DEF Kept

LEMMA CommandKeepsWorld ==
    ASSUME WorldInv, NEW e \in {"turn_on", "turn_off", "get_status", "manual_on"}, Command(e)
    PROVE  WorldInv'
<1>1. /\ pc = "live" /\ e \in CommandsIn(world.mode, asked.manual)
      /\ e \in CONTROLLABLE => ~Refuses(asked, world.ctx)
      /\ world' = [world EXCEPT !.mode = ModeAfter(@, e)]
      /\ UNCHANGED <<pc, plant, asked>>
  BY DEF Command, vars
<1>2. /\ asked \in Questions /\ plant = Built(asked)
      /\ world.mode \in {"on", "off"} /\ world.ctx \in Worlds
  BY <1>1, LiveIs
<1>3. world = [mode |-> world.mode, ctx |-> world.ctx]  BY <1>1 DEF WorldInv
<1>4. world' = [mode |-> ModeAfter(world.mode, e), ctx |-> world.ctx]  BY <1>1, <1>3
<1>5. world'.mode = ModeAfter(world.mode, e) /\ world'.ctx = world.ctx
      /\ world' = [mode |-> world'.mode, ctx |-> world'.ctx]
  BY <1>4
<1>6. ModeAfter(world.mode, e) \in {"on", "off"}  BY <1>2 DEF ModeAfter
<1>7. ASSUME Kept(asked, plant), ModeAfter(world.mode, e) = "on"
      PROVE  ~Forbidden(ItemsOf(asked), world.ctx)
  <2>1. CASE e = "turn_on"
    <3>1. e \in CONTROLLABLE  BY <2>1 DEF CONTROLLABLE, SAFE_ACTIONS
    <3> QED  BY <1>1, <1>2, <1>7, <3>1 DEF Kept, Covered
  <2>2. CASE e = "turn_off"  BY <1>7, <2>2 DEF ModeAfter
  <2>3. CASE e = "get_status"
    <3>1. world.mode = "on"  BY <1>7, <2>3 DEF ModeAfter
    <3> QED  BY <1>1, <1>7, <3>1 DEF WorldInv
  <2>4. CASE e = "manual_on"
    <3>1. world.mode = "off"
      <4>1. "manual_on" \notin CommandsIn("on", asked.manual)  BY DEF CommandsIn
      <4> QED  BY <1>1, <1>2, <2>4, <4>1
    <3> QED  BY <1>1, <1>2, <1>7, <2>4, <3>1, ManualIsLegal
  <2> QED  BY <2>1, <2>2, <2>3, <2>4
<1>8. asked # NoQuestion  BY <1>1 DEF WorldInv
<1> QED  BY <1>1, <1>2, <1>5, <1>6, <1>7, <1>8 DEF WorldInv

\* A neighbour of a context is forbidden no more than it, where refusing is enough.
LEMMA DriftIsLegal ==
    ASSUME NEW a \in Questions, Kept(a, Built(a)), NEW x \in Worlds, NEW y \in Worlds,
           NEW f \in Fields, \A g \in Fields \ {f} : y[g] = x[g], ~Forbidden(ItemsOf(a), x)
    PROVE  ~Forbidden(ItemsOf(a), y)
<1> DEFINE axes == AxesOf(a)
           p == Built(a)
<1>1. /\ \A g \in NumericFields \cup BooleanFields : IsWorldValue(g, x[g])
      /\ \A g \in NumericFields \cup BooleanFields : IsWorldValue(g, y[g])
  BY WorldValues
<1>2. PICK c \in CellContexts(axes) : CellsOf(axes, x) = {c}  BY <1>1, OneCellContext
<1>3. PICK d \in CellContexts(axes) : CellsOf(axes, y) = {d}  BY <1>1, OneCellContext
<1>4. <<"on", c>> \in Legal(p)
  <2>1. c \in CellsOf(axes, x)  BY <1>2
  <2> QED  BY <1>1, <2>1, LegalPoint DEF Kept
<1>5. DOMAIN axes \subseteq Fields  BY AxisFieldsIs DEF AxesOf
<1>6. <<"on", d>> \in Legal(p)
  <2>1. CASE f \in DOMAIN axes
    <3> DEFINE b == [c EXCEPT ![f] = d[f]]
    <3>1. d[f] \in DOMAIN axes[f]  BY <1>3, <2>1 DEF CellContexts
    <3>2. <<"on", b>> \in Legal(p)
      <4>1. Controllable(p, Legal(p))  BY DEF Kept
      <4> QED  BY <1>4, <2>1, <3>1, <4>1, DriftsAnywhere
    <3>3. b \in CellContexts(axes)
      <4> HIDE DEF b
      <4>1. <<"on", b>> \in p.states  BY <3>2 DEF Legal
      <4>2. <<"on", b>> \in States(axes)  BY <4>1, BuiltIs
      <4> QED  BY <4>2 DEF States
    <3>4. \A g \in DOMAIN axes : Inside(g, y[g], axes[g][b[g]])
      <4> SUFFICES ASSUME NEW g \in DOMAIN axes PROVE Inside(g, y[g], axes[g][b[g]])
        OBVIOUS
      <4>1. DOMAIN c = DOMAIN axes  BY DEF CellContexts
      <4>2. c \in CellsOf(axes, x) /\ d \in CellsOf(axes, y)  BY <1>2, <1>3
      <4>3. Inside(g, x[g], axes[g][c[g]]) /\ Inside(g, y[g], axes[g][d[g]])  BY <4>2 DEF CellsOf
      <4>4. CASE g = f
        <5>1. b[g] = d[g]  BY <4>1, <4>4
        <5> QED  BY <4>3, <5>1
      <4>5. CASE g # f
        <5>1. b[g] = c[g]  BY <4>1, <4>5
        <5>2. y[g] = x[g]  BY <1>5, <4>5
        <5> QED  BY <4>3, <5>1, <5>2
      <4> QED  BY <4>4, <4>5
    <3>5. b \in CellsOf(axes, y)
      <4> HIDE DEF b, axes
      <4> QED  BY <3>3, <3>4 DEF CellsOf
    <3>6. b = d
      <4> HIDE DEF b
      <4> QED  BY <1>3, <3>5
    <3> QED  BY <3>2, <3>6
  <2>2. CASE f \notin DOMAIN axes
    <3>1. c \in CellsOf(axes, x)  BY <1>2
    <3>2. \A g \in DOMAIN axes : y[g] = x[g]  BY <1>5, <2>2
    <3>3. c \in CellsOf(axes, y)  BY <3>1, <3>2 DEF CellsOf
    <3> QED  BY <1>3, <1>4, <3>3
  <2> QED  BY <2>1, <2>2
<1>7. d \in CellsOf(axes, y)  BY <1>3
<1> QED  BY <1>1, <1>6, <1>7, LegalPoint DEF Kept

LEMMA ChangeKeepsWorld == ASSUME WorldInv, WorldChanges PROVE WorldInv'
<1>1. pc = "live" /\ UNCHANGED <<pc, plant, asked>>  BY DEF WorldChanges, vars
<1>2. PICK y \in Beside(world.ctx) : world' = [world EXCEPT !.ctx = y]  BY DEF WorldChanges
<1>3. /\ asked \in Questions /\ plant = Built(asked)
      /\ world.mode \in {"on", "off"} /\ world.ctx \in Worlds
  BY <1>1, LiveIs
<1>4. world = [mode |-> world.mode, ctx |-> world.ctx]  BY <1>1 DEF WorldInv
<1>5. world' = [mode |-> world.mode, ctx |-> y]  BY <1>2, <1>4
<1>6. world'.mode = world.mode /\ world'.ctx = y /\ world' = [mode |-> world'.mode, ctx |-> world'.ctx]
  BY <1>5
<1>7. y \in Worlds /\ \E f \in Fields : \A g \in Fields \ {f} : y[g] = world.ctx[g]  BY DEF Beside
<1>8. ASSUME Kept(asked, plant), world.mode = "on" PROVE ~Forbidden(ItemsOf(asked), y)
  <2>1. ~Forbidden(ItemsOf(asked), world.ctx)  BY <1>1, <1>8 DEF WorldInv
  <2> QED  BY <1>3, <1>7, <1>8, <2>1, DriftIsLegal
<1>9. asked # NoQuestion  BY <1>1 DEF WorldInv
<1> QED  BY <1>1, <1>3, <1>6, <1>7, <1>8, <1>9 DEF WorldInv

LEMMA StepKeepsWorld == ASSUME WorldInv, [EnforceNext]_<<vars, asked, world>> PROVE WorldInv'
<1>1. CASE UNCHANGED <<vars, asked, world>>
  <2>1. UNCHANGED <<plant, pc, asked, world>>  BY <1>1 DEF vars
  <2> QED  BY <2>1 DEF WorldInv
<1> QED
  BY <1>1, SynthesisKeepsWorld, GoLiveKeepsWorld, CommandKeepsWorld, ChangeKeepsWorld DEF EnforceNext

\* In the world the plant is the one that was built of what was asked, and what the
\* finding promises is so as long as the premises of it are.  (enforceability)
THEOREM WorldFollowsPlant == EnforceSpec => []WorldInv
<1>1. EnforceInit => WorldInv  BY AskBuilds
<1>2. WorldInv /\ [EnforceNext]_<<vars, asked, world>> => WorldInv'  BY StepKeepsWorld
<1> QED  BY <1>1, <1>2, PTL DEF EnforceSpec

\* What is found out about cells is true of the world: the cells of the plant are exact,
\* and a device whose rules are called enforceable by the guard is never on in the world
\* where one of them blocks it.  (build_plant, enforceability, _message)
THEOREM FindingHoldsInWorld == EnforceSpec => []ClassHoldsInWorld
<1>1. WorldInv => CellsExact
  <2>1. WorldInv => PlantOK  BY DEF WorldInv, PlantOK
  <2> QED  BY <2>1, CellsAreExact
<1>2. IInv /\ WorldInv => GuardClassHolds
  <2> SUFFICES ASSUME IInv, WorldInv, pc = "live", Class(plant) = "GUARD_ENFORCEABLE",
                      WithoutLabels(ItemsOf(asked)), Covered(asked), world.mode = "on"
               PROVE  ~Refuses(asked, world.ctx)
    BY DEF GuardClassHolds
  <2>1. Enforces(plant, "guard")  BY DEF Class
  <2>2. Controllable(plant, Legal(plant))  BY <2>1, EnforcesIff DEF Keeps, Mechanisms
  <2>3. Kept(asked, plant)  BY <2>2 DEF Kept
  <2>4. ~Forbidden(ItemsOf(asked), world.ctx)  BY <2>3 DEF WorldInv
  <2> QED  BY <2>4, LiveIs, RefusedIsForbidden
<1> QED  BY <1>1, <1>2, Invariant, WorldFollowsPlant, PTL DEF ClassHoldsInWorld
=============================================================================
