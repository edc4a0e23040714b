---------------------------- MODULE RuleSetProofs ----------------------------
(***************************************************************************)
(* RuleSet for every set of rules, invariants, fields and domains: the     *)
(* boxes hold exactly the contexts the evaluator says, a rule is stored    *)
(* only into a table that keeps every invariant, and the verdict depends   *)
(* neither on the order of the table nor on a sensor that is gone.         *)
(*                                                                         *)
(* The folds are recursive functions over sets of places or of boxes: that *)
(* there is such a function, and what it holds, is shown by induction over *)
(* finite sets (SubsetInduction).                                          *)
(***************************************************************************)
EXTENDS RuleSet, FiniteSetTheorems, WellFoundedInduction, TLAPS

-----------------------------------------------------------------------------
(* Numbers and finite sets *)

LEMMA NatLess == IsWellFoundedOn({r \in Nat \X Nat : r[1] < r[2]}, Nat)
BY NatLessThanWellFounded DEF OpToRel

\* A set of numbers that is not empty has a least one.
LEMMA LeastNumber ==
    ASSUME NEW T \in SUBSET Nat, T # {}
    PROVE  \E n \in T : \A k \in T : n <= k
<1> DEFINE R == {r \in Nat \X Nat : r[1] < r[2]}
<1>1. IsWellFoundedOn(R, Nat)  BY NatLess
<1>2. PICK n \in T : \A k \in T : <<k, n>> \notin R
  <2> HIDE DEF R
  <2> QED  BY <1>1, WFMin
<1>3. \A k \in T : ~(k < n)  BY <1>2
<1> QED  BY <1>3

\* A set of numbers with 0 and each successor holds them all.
LEMMA SetInduction ==
    ASSUME NEW S \in SUBSET Nat, 0 \in S, \A n \in S : n + 1 \in S
    PROVE  S = Nat
<1> DEFINE T == Nat \ S
<1> SUFFICES ASSUME T # {} PROVE FALSE
    OBVIOUS
<1>1. PICK n \in T : \A k \in T : n <= k
  <2> HIDE DEF T
  <2>1. T \in SUBSET Nat  BY DEF T
  <2> QED  BY <2>1, LeastNumber
<1>2. n \in Nat /\ n # 0  OBVIOUS
<1>3. n - 1 \in Nat /\ n - 1 + 1 = n  BY <1>2
<1>4. n - 1 \notin T  BY <1>1, <1>2, <1>3
<1> QED  BY <1>3, <1>4

\* A set of subsets that has the empty one, and each that it has without one element,
\* has them all.
LEMMA SubsetInduction ==
    ASSUME NEW S, IsFiniteSet(S), NEW G \in SUBSET SUBSET S, {} \in G,
           \A s \in SUBSET S : s # {} /\ (\A x \in s : s \ {x} \in G) => s \in G
    PROVE  G = SUBSET S
<1> DEFINE sizes == { Cardinality(s) : s \in (SUBSET S) \ G }
<1> SUFFICES ASSUME (SUBSET S) \ G # {} PROVE FALSE
    OBVIOUS
<1>1. ASSUME NEW s \in SUBSET S PROVE IsFiniteSet(s) /\ Cardinality(s) \in Nat
  BY FS_Subset, FS_CardinalityType
<1>2. sizes \in SUBSET Nat /\ sizes # {}  BY <1>1
<1>3. PICK n \in sizes : \A k \in sizes : n <= k
  <2> HIDE DEF sizes
  <2> QED  BY <1>2, LeastNumber
<1>4. PICK s \in (SUBSET S) \ G : Cardinality(s) = n  BY <1>3
<1>5. s # {}  OBVIOUS
<1>6. PICK x \in s : s \ {x} \notin G  BY <1>5
<1>7. Cardinality(s \ {x}) = Cardinality(s) - 1  BY <1>1, FS_RemoveElement
<1>8. Cardinality(s \ {x}) \in sizes  BY <1>6
<1> HIDE DEF sizes
<1> QED  BY <1>1, <1>3, <1>4, <1>7, <1>8

LEMMA ImageFinite ==
    ASSUME NEW S, IsFiniteSet(S), NEW f
    PROVE  IsFiniteSet({ f[x] : x \in S })
<1> DEFINE G == { s \in SUBSET S : IsFiniteSet({ f[x] : x \in s }) }
<1>1. {} \in G
  <2>1. { f[x] : x \in {} } = {}  OBVIOUS
  <2> QED  BY <2>1, FS_EmptySet
<1>2. ASSUME NEW s \in SUBSET S, s # {}, \A x \in s : s \ {x} \in G
      PROVE  s \in G
  <2>1. PICK y \in s : s \ {y} \in G  BY <1>2
  <2>2. { f[x] : x \in s } = { f[x] : x \in s \ {y} } \cup {f[y]}  OBVIOUS
  <2> DEFINE A == { f[x] : x \in s \ {y} }
  <2>3. IsFiniteSet(A)  BY <2>1
  <2>4. IsFiniteSet({ f[x] : x \in s })
    <3> HIDE DEF A
    <3>1. IsFiniteSet(A \cup {f[y]})  BY <2>3, FS_AddElement
    <3> QED  BY <2>2, <3>1 DEF A
  <2> QED  BY <2>4
<1>3. G = SUBSET S
  <2> HIDE DEF G
  <2>1. G \in SUBSET SUBSET S  BY DEF G
  <2> QED  BY <1>1, <1>2, <2>1, SubsetInduction
<1> QED  BY <1>3

\* The subsets of s smaller than n + 1.
UpTo(S, n) == { s \in SUBSET S : Cardinality(s) <= n }

LEMMA Smaller ==
    ASSUME NEW S, IsFiniteSet(S), NEW n \in Nat, NEW s \in UpTo(S, n + 1), NEW x \in s
    PROVE  s \ {x} \in UpTo(S, n)
<1>1. IsFiniteSet(s) /\ Cardinality(s) \in Nat  BY FS_Subset, FS_CardinalityType DEF UpTo
<1>2. Cardinality(s \ {x}) = Cardinality(s) - 1  BY <1>1, FS_RemoveElement
<1> QED  BY <1>1, <1>2 DEF UpTo

LEMMA AllUpTo ==
    ASSUME NEW S, IsFiniteSet(S)
    PROVE  /\ UpTo(S, 0) = {{}}
           /\ Cardinality(S) \in Nat /\ UpTo(S, Cardinality(S)) = SUBSET S
<1>1. \A s \in SUBSET S : IsFiniteSet(s) /\ Cardinality(s) \in Nat /\ Cardinality(s) <= Cardinality(S)
  BY FS_Subset, FS_CardinalityType
<1>2. \A s \in SUBSET S : Cardinality(s) = 0 <=> s = {}  BY <1>1, FS_EmptySet
<1>3. Cardinality(S) \in Nat  BY FS_CardinalityType
<1>4. UpTo(S, 0) = {{}}  BY <1>1, <1>2 DEF UpTo
<1> QED  BY <1>1, <1>3, <1>4 DEF UpTo

LEMMA MaxOfPlaces ==
    ASSUME NEW n \in Nat, NEW s \in SUBSET (1..n), s # {}
    PROVE  Max(s) \in s /\ \A k \in s : k <= Max(s)
<1> DEFINE T == { n - k : k \in s }
<1>1. T \in SUBSET Nat /\ T # {}
  <2>1. \A k \in s : n - k \in Nat  OBVIOUS
  <2> QED  BY <2>1
<1>2. PICK m \in T : \A k \in T : m <= k
  <2> HIDE DEF T
  <2> QED  BY <1>1, LeastNumber
<1>3. PICK x \in s : m = n - x  BY <1>2
<1>4. \A k \in s : x >= k
  <2> SUFFICES ASSUME NEW k \in s PROVE x >= k
    OBVIOUS
  <2>1. n - x <= n - k  BY <1>2, <1>3
  <2> QED  BY <2>1
<1>5. Max(s) \in s /\ \A k \in s : Max(s) >= k  BY <1>4 DEF Max
<1> QED  BY <1>5

LEMMA MaxOfPrefix == ASSUME NEW n \in Nat PROVE Max(1..(n + 1)) = n + 1
<1>1. 1..(n + 1) # {} /\ n + 1 \in Nat /\ n + 1 \in 1..(n + 1)  OBVIOUS
<1>2. Max(1..(n + 1)) \in 1..(n + 1) /\ \A k \in 1..(n + 1) : k <= Max(1..(n + 1))
  <2> DEFINE m == n + 1
  <2>1. m \in Nat /\ 1..m # {}  BY <1>1
  <2> HIDE DEF m
  <2>2. Max(1..m) \in 1..m /\ \A k \in 1..m : k <= Max(1..m)  BY <2>1, MaxOfPlaces
  <2> QED  BY <2>2 DEF m
<1> QED  BY <1>1, <1>2

LEMMA Prefix ==
    ASSUME NEW n \in Nat, NEW k \in Nat, k + 1 <= n
    PROVE  /\ 1..(k + 1) \in SUBSET (1..n) /\ 1..(k + 1) # {}
           /\ Max(1..(k + 1)) = k + 1 /\ (1..(k + 1)) \ {k + 1} = 1..k
<1>1. 1..(k + 1) \in SUBSET (1..n) /\ 1..(k + 1) # {}  OBVIOUS
<1>2. (1..(k + 1)) \ {k + 1} = 1..k  OBVIOUS
<1> QED  BY <1>1, <1>2, MaxOfPrefix

-----------------------------------------------------------------------------
(* The folds, as functions of the places or boxes that are done.  Each step takes the   *)
(* value for what is left without one element.                                          *)

\* rule_region: the boxes narrowed by the conditions at the places s.
Narrow(boxes, c) ==
    { nb \in { [f \in Fields |-> IF f = c.field THEN CommonDim(f, b[f], d) ELSE b[f]]
               : b \in boxes, d \in ConditionDims(c) } :
      ~EmptyDim(c.field, nb[c.field]) }

NarrowStep(h, conds, s) ==
    IF s = {} THEN {FullBox} ELSE Narrow(h[s \ {Max(s)}], conds[Max(s)])

IsNarrowing(h, conds) == h = [s \in SUBSET DOMAIN conds |-> NarrowStep(h, conds, s)]

\* region_minus: what is left of the region without the boxes s.
AnyOf(s) == CHOOSE x \in s : TRUE

Cut(region, b) == UNION { BoxMinus(r, b) : r \in region }

CutStep(h, region, s) == IF s = {} THEN region ELSE Cut(h[s \ {AnyOf(s)}], AnyOf(s))

IsCutting(h, region, boxes) == h = [s \in SUBSET boxes |-> CutStep(h, region, s)]

\* The rules of S among those at the places s.
KeptStep(h, rules, S, s) ==
    IF s = {} THEN << >>
    ELSE IF rules[Max(s)] \in S THEN Append(h[s \ {Max(s)}], rules[Max(s)]) ELSE h[s \ {Max(s)}]

IsKeeping(h, rules, S) == h = [s \in SUBSET DOMAIN rules |-> KeptStep(h, rules, S, s)]

LEMMA NarrowingExists ==
    ASSUME NEW n \in Nat, NEW conds, DOMAIN conds = 1..n
    PROVE  \E h : IsNarrowing(h, conds)
<1> DEFINE D == 1..n
           G == { k \in Nat : \E h : h = [s \in UpTo(D, k) |-> NarrowStep(h, conds, s)] }
<1>0. IsFiniteSet(D)  BY FS_Interval
<1>1. 0 \in G
  <2> DEFINE h == [s \in UpTo(D, 0) |-> {FullBox}]
  <2>1. \A s \in UpTo(D, 0) : NarrowStep(h, conds, s) = {FullBox}
    BY <1>0, AllUpTo DEF NarrowStep
  <2> QED  BY <2>1
<1>2. ASSUME NEW k \in G PROVE k + 1 \in G
  <2>1. PICK h : h = [s \in UpTo(D, k) |-> NarrowStep(h, conds, s)]  OBVIOUS
  <2> DEFINE g == [s \in UpTo(D, k + 1) |-> NarrowStep(h, conds, s)]
  <2> HIDE DEF D
  <2>2. ASSUME NEW s \in UpTo(D, k + 1) PROVE NarrowStep(h, conds, s) = NarrowStep(g, conds, s)
    <3>1. CASE s = {}  BY <3>1 DEF NarrowStep
    <3>2. CASE s # {}
      <4>1. Max(s) \in s  BY <3>2, MaxOfPlaces DEF D, UpTo
      <4> DEFINE t == s \ {Max(s)}
      <4>2. t \in UpTo(D, k)  BY <1>0, <4>1, Smaller
      <4>3. t \in UpTo(D, k + 1)  BY <4>2, <1>0, FS_Subset, FS_CardinalityType DEF UpTo
      <4>4. g[t] = NarrowStep(h, conds, t)  BY <4>3
      <4>5. h[t] = NarrowStep(h, conds, t)  BY <2>1, <4>2
      <4> QED  BY <3>2, <4>4, <4>5 DEF NarrowStep
    <3> QED  BY <3>1, <3>2
  <2>3. g = [s \in UpTo(D, k + 1) |-> NarrowStep(g, conds, s)]  BY <2>2
  <2> HIDE DEF g
  <2> QED  BY <2>3
<1>3. G = Nat
  <2> HIDE DEF G
  <2>1. G \in SUBSET Nat  BY DEF G
  <2> QED  BY <1>1, <1>2, <2>1, SetInduction
<1>4. Cardinality(D) \in G /\ UpTo(D, Cardinality(D)) = SUBSET D  BY <1>0, <1>3, AllUpTo
<1> QED  BY <1>4 DEF IsNarrowing

LEMMA CuttingExists ==
    ASSUME NEW region, NEW boxes, IsFiniteSet(boxes)
    PROVE  \E h : IsCutting(h, region, boxes)
<1> DEFINE G == { k \in Nat : \E h : h = [s \in UpTo(boxes, k) |-> CutStep(h, region, s)] }
<1>1. 0 \in G
  <2> DEFINE h == [s \in UpTo(boxes, 0) |-> region]
  <2>1. \A s \in UpTo(boxes, 0) : CutStep(h, region, s) = region
    BY AllUpTo DEF CutStep
  <2> QED  BY <2>1
<1>2. ASSUME NEW k \in G PROVE k + 1 \in G
  <2>1. PICK h : h = [s \in UpTo(boxes, k) |-> CutStep(h, region, s)]  OBVIOUS
  <2> DEFINE g == [s \in UpTo(boxes, k + 1) |-> CutStep(h, region, s)]
  <2>2. ASSUME NEW s \in UpTo(boxes, k + 1) PROVE CutStep(h, region, s) = CutStep(g, region, s)
    <3>1. CASE s = {}  BY <3>1 DEF CutStep
    <3>2. CASE s # {}
      <4>1. AnyOf(s) \in s  BY <3>2 DEF AnyOf
      <4> DEFINE t == s \ {AnyOf(s)}
      <4>2. t \in UpTo(boxes, k)  BY <4>1, Smaller
      <4>3. t \in UpTo(boxes, k + 1)  BY <4>2, FS_Subset, FS_CardinalityType DEF UpTo
      <4>4. g[t] = CutStep(h, region, t)  BY <4>3
      <4>5. h[t] = CutStep(h, region, t)  BY <2>1, <4>2
      <4> QED  BY <3>2, <4>4, <4>5 DEF CutStep
    <3> QED  BY <3>1, <3>2
  <2>3. g = [s \in UpTo(boxes, k + 1) |-> CutStep(g, region, s)]  BY <2>2
  <2> HIDE DEF g
  <2> QED  BY <2>3
<1>3. G = Nat
  <2> HIDE DEF G
  <2>1. G \in SUBSET Nat  BY DEF G
  <2> QED  BY <1>1, <1>2, <2>1, SetInduction
<1>4. Cardinality(boxes) \in G /\ UpTo(boxes, Cardinality(boxes)) = SUBSET boxes
  BY <1>3, AllUpTo
<1> QED  BY <1>4 DEF IsCutting

LEMMA KeepingExists ==
    ASSUME NEW n \in Nat, NEW rules, DOMAIN rules = 1..n, NEW S
    PROVE  \E h : IsKeeping(h, rules, S)
<1> DEFINE D == 1..n
           G == { k \in Nat : \E h : h = [s \in UpTo(D, k) |-> KeptStep(h, rules, S, s)] }
<1>0. IsFiniteSet(D)  BY FS_Interval
<1>1. 0 \in G
  <2> DEFINE h == [s \in UpTo(D, 0) |-> << >>]
  <2>1. \A s \in UpTo(D, 0) : KeptStep(h, rules, S, s) = << >>
    BY <1>0, AllUpTo DEF KeptStep
  <2> QED  BY <2>1
<1>2. ASSUME NEW k \in G PROVE k + 1 \in G
  <2>1. PICK h : h = [s \in UpTo(D, k) |-> KeptStep(h, rules, S, s)]  OBVIOUS
  <2> DEFINE g == [s \in UpTo(D, k + 1) |-> KeptStep(h, rules, S, s)]
  <2> HIDE DEF D
  <2>2. ASSUME NEW s \in UpTo(D, k + 1) PROVE KeptStep(h, rules, S, s) = KeptStep(g, rules, S, s)
    <3>1. CASE s = {}  BY <3>1 DEF KeptStep
    <3>2. CASE s # {}
      <4>1. Max(s) \in s  BY <3>2, MaxOfPlaces DEF D, UpTo
      <4> DEFINE t == s \ {Max(s)}
      <4>2. t \in UpTo(D, k)  BY <1>0, <4>1, Smaller
      <4>3. t \in UpTo(D, k + 1)  BY <4>2, <1>0, FS_Subset, FS_CardinalityType DEF UpTo
      <4>4. g[t] = KeptStep(h, rules, S, t)  BY <4>3
      <4>5. h[t] = KeptStep(h, rules, S, t)  BY <2>1, <4>2
      <4> QED  BY <3>2, <4>4, <4>5 DEF KeptStep
    <3> QED  BY <3>1, <3>2
  <2>3. g = [s \in UpTo(D, k + 1) |-> KeptStep(g, rules, S, s)]  BY <2>2
  <2> HIDE DEF g
  <2> QED  BY <2>3
<1>3. G = Nat
  <2> HIDE DEF G
  <2>1. G \in SUBSET Nat  BY DEF G
  <2> QED  BY <1>1, <1>2, <2>1, SetInduction
<1>4. Cardinality(D) \in G /\ UpTo(D, Cardinality(D)) = SUBSET D  BY <1>0, <1>3, AllUpTo
<1> QED  BY <1>4 DEF IsKeeping

LEMMA RegionNarrows ==
    ASSUME NEW n \in Nat, NEW conds, DOMAIN conds = 1..n
    PROVE  \E h : IsNarrowing(h, conds) /\ RuleRegion(conds) = h[DOMAIN conds]
<1>1. IsNarrowing(CHOOSE h : IsNarrowing(h, conds), conds)  BY NarrowingExists, Zenon
<1>2. RuleRegion(conds) = (CHOOSE h : IsNarrowing(h, conds))[DOMAIN conds]
  BY SMT DEF RuleRegion, FoldLeft, MapThenFoldSet, IsNarrowing, NarrowStep, Narrow
<1> QED  BY <1>1, <1>2

LEMMA MinusCuts ==
    ASSUME NEW region, NEW boxes, IsFiniteSet(boxes)
    PROVE  \E h : IsCutting(h, region, boxes) /\ RegionMinus(region, boxes) = h[boxes]
<1>1. IsCutting(CHOOSE h : IsCutting(h, region, boxes), region, boxes)
  BY CuttingExists, Zenon
<1>2. RegionMinus(region, boxes) = (CHOOSE h : IsCutting(h, region, boxes))[boxes]
  BY Zenon DEF RegionMinus, FoldSet, MapThenFoldSet, IsCutting, CutStep, Cut, AnyOf
<1> QED  BY <1>1, <1>2

LEMMA KeptKeeps ==
    ASSUME NEW n \in Nat, NEW rules, DOMAIN rules = 1..n, NEW S
    PROVE  \E h : IsKeeping(h, rules, S) /\ Kept(rules, S) = h[DOMAIN rules]
<1>1. IsKeeping(CHOOSE h : IsKeeping(h, rules, S), rules, S)  BY KeepingExists, Zenon
<1>2. Kept(rules, S) = (CHOOSE h : IsKeeping(h, rules, S))[DOMAIN rules]
  BY Zenon DEF Kept, FoldLeft, MapThenFoldSet, IsKeeping, KeptStep
<1> QED  BY <1>1, <1>2

-----------------------------------------------------------------------------
(* One field *)

\* The values of a field that a context may have.
Values(f) ==
    { ctx[f] : ctx \in Contexts }

InDim(f, v, d) ==
    IF f \in StringFields THEN (d.all \/ v \in d.inc) /\ v \notin d.exc
    ELSE IF f \in BooleanFields THEN v \in d
    ELSE /\ v > d.lo \/ (v = d.lo /\ d.loc)
         /\ v < d.hi \/ (v = d.hi /\ d.hic)

Intervals == [lo : Int, hi : Int, loc : BOOLEAN, hic : BOOLEAN]

IsDim(f, d) ==
    IF f \in StringFields THEN d.all \in BOOLEAN
    ELSE f \in BooleanFields \/ d \in Intervals

LEMMA FieldKinds ==
    ASSUME NEW f \in Fields, f \notin StringFields, f \notin BooleanFields
    PROVE  f \in NumericFields /\ \A v \in Values(f) : v \in Int
BY RegionsAssumption, RuleSetAssumption DEF Values, HasType

LEMMA CommonDimIs ==
    ASSUME NEW f \in Fields, NEW a, NEW b, IsDim(f, a), IsDim(f, b)
    PROVE  /\ IsDim(f, CommonDim(f, a, b))
           /\ \A v \in Values(f) : InDim(f, v, CommonDim(f, a, b)) <=> InDim(f, v, a) /\ InDim(f, v, b)
<1>1. CASE f \in StringFields
  BY <1>1 DEF CommonDim, CommonLabels, IsDim, InDim
<1>2. CASE f \notin StringFields /\ f \in BooleanFields
  BY <1>2 DEF CommonDim, IsDim, InDim
<1>3. CASE f \notin StringFields /\ f \notin BooleanFields
  <2>1. a \in Intervals /\ b \in Intervals  BY <1>3 DEF IsDim
  <2>2. CommonInterval(a, b) \in Intervals  BY <2>1 DEF CommonInterval, I, Intervals
  <2> SUFFICES ASSUME NEW v \in Values(f)
               PROVE  InDim(f, v, CommonInterval(a, b)) <=> InDim(f, v, a) /\ InDim(f, v, b)
    BY <1>3, <2>2 DEF CommonDim, IsDim
  <2>3. v \in Int  BY <1>3, FieldKinds
  <2> QED  BY <1>3, <2>1, <2>3 DEF CommonInterval, I, InDim, Intervals
<1> QED  BY <1>1, <1>2, <1>3

LEMMA NotEmptyDim ==
    ASSUME NEW f \in Fields, NEW d, IsDim(f, d), NEW v \in Values(f), InDim(f, v, d)
    PROVE  ~EmptyDim(f, d)
<1>1. CASE f \in StringFields  BY <1>1 DEF EmptyDim, InDim
<1>2. CASE f \notin StringFields /\ f \in BooleanFields  BY <1>2 DEF EmptyDim, InDim
<1>3. CASE f \notin StringFields /\ f \notin BooleanFields
  <2>1. d \in Intervals /\ v \in Int  BY <1>3, FieldKinds DEF IsDim
  <2>2. CASE f \notin IntegerFields
    BY <1>3, <2>1, <2>2 DEF EmptyDim, EmptyInterval, InDim, Intervals
  <2>3. CASE f \in IntegerFields
    <3>1. v % 2 = 0  BY <2>3, RuleSetAssumption DEF Values, HasType
    <3>2. IntLo(d) <= v
      BY <1>3, <2>1, <3>1 DEF IntLo, InDim, Intervals
    <3>3. v <= IntHi(d)
      BY <1>3, <2>1, <3>1 DEF IntHi, InDim, Intervals
    <3>4. IntLo(d) \in Int /\ IntHi(d) \in Int  BY <2>1 DEF IntLo, IntHi, Intervals
    <3> QED  BY <1>3, <2>1, <2>3, <3>2, <3>3, <3>4 DEF EmptyDim, EmptyInterval
  <2> QED  BY <2>2, <2>3
<1> QED  BY <1>1, <1>2, <1>3

\* The parts of a without b hold each value once.
LEMMA DimMinusIs ==
    ASSUME NEW f \in Fields, NEW a, NEW b, IsDim(f, a), IsDim(f, b)
    PROVE  /\ \A d \in DimMinus(f, a, b) : IsDim(f, d)
           /\ \A v \in Values(f) :
                 (\E d \in DimMinus(f, a, b) : InDim(f, v, d)) <=> InDim(f, v, a) /\ ~InDim(f, v, b)
           /\ ~EmptyDim(f, CommonDim(f, a, b)) =>
                 \A v \in Values(f) : \A d, e \in DimMinus(f, a, b) :
                     InDim(f, v, d) /\ InDim(f, v, e) => d = e
<1>1. CASE f \in StringFields
  <2> DEFINE d == CommonLabels(a, OtherLabels(b))
  <2>1. IsDim(f, d)
    BY <1>1 DEF CommonLabels, OtherLabels, Only, AllBut, Every, IsDim
  <2>2. \A v : InDim(f, v, d) <=> InDim(f, v, a) /\ ~InDim(f, v, b)
    BY <1>1 DEF CommonLabels, OtherLabels, Only, AllBut, Every, InDim, IsDim
  <2>3. DimMinus(f, a, b) = IF EmptyDim(f, d) THEN {} ELSE {d}
    BY <1>1 DEF DimMinus
  <2> HIDE DEF d
  <2> QED  BY <2>1, <2>2, <2>3, NotEmptyDim
<1>2. CASE f \notin StringFields /\ f \in BooleanFields
  <2>1. DimMinus(f, a, b) = IF a \ b = {} THEN {} ELSE {a \ b}
    BY <1>2 DEF DimMinus, EmptyDim
  <2>2. \A d : IsDim(f, d) /\ \A v : InDim(f, v, d) <=> v \in d
    BY <1>2 DEF IsDim, InDim
  <2> QED  BY <2>1, <2>2
<1>3. CASE f \notin StringFields /\ f \notin BooleanFields
  <2> DEFINE left  == CommonInterval(I(a.lo, b.lo, a.loc, ~b.loc), a)
             right == CommonInterval(I(b.hi, a.hi, ~b.hic, a.hic), a)
  <2>1. a \in Intervals /\ b \in Intervals  BY <1>3 DEF IsDim
  <2>2. left \in Intervals /\ right \in Intervals
    BY <2>1 DEF CommonInterval, I, Intervals
  <2>3. DimMinus(f, a, b) = { d \in {left, right} : ~EmptyDim(f, d) }
    BY <1>3 DEF DimMinus, IntervalMinus
  <2>4. ASSUME NEW v \in Values(f)
        PROVE  /\ InDim(f, v, left) <=> InDim(f, v, a) /\ (v < b.lo \/ (v = b.lo /\ ~b.loc))
               /\ InDim(f, v, right) <=> InDim(f, v, a) /\ (v > b.hi \/ (v = b.hi /\ ~b.hic))
    <3> DEFINE below == I(a.lo, b.lo, a.loc, ~b.loc)
               above == I(b.hi, a.hi, ~b.hic, a.hic)
    <3>1. v \in Int  BY <1>3, FieldKinds
    <3>2. IsDim(f, a) /\ IsDim(f, below) /\ IsDim(f, above)
      BY <1>3, <2>1 DEF IsDim, I, Intervals
    <3>3. CommonDim(f, below, a) = left /\ CommonDim(f, above, a) = right
      BY <1>3 DEF CommonDim
    <3>4. /\ InDim(f, v, left) <=> InDim(f, v, below) /\ InDim(f, v, a)
          /\ InDim(f, v, right) <=> InDim(f, v, above) /\ InDim(f, v, a)
      <4> HIDE DEF below, above, left, right
      <4> QED  BY <3>2, <3>3, CommonDimIs
    <3>5. InDim(f, v, a) => (InDim(f, v, below) <=> (v < b.lo \/ (v = b.lo /\ ~b.loc)))
      BY <1>3, <2>1, <3>1 DEF I, InDim, Intervals
    <3>6. InDim(f, v, a) => (InDim(f, v, above) <=> (v > b.hi \/ (v = b.hi /\ ~b.hic)))
      BY <1>3, <2>1, <3>1 DEF I, InDim, Intervals
    <3> HIDE DEF below, above, left, right
    <3> QED  BY <3>4, <3>5, <3>6
  <2> HIDE DEF left, right
  <2>5. \A d \in {left, right} : IsDim(f, d)  BY <1>3, <2>2 DEF IsDim
  <2>6. ASSUME NEW v \in Values(f)
        PROVE  (\E d \in DimMinus(f, a, b) : InDim(f, v, d)) <=> InDim(f, v, a) /\ ~InDim(f, v, b)
    <3>1. v \in Int  BY <1>3, FieldKinds
    <3>2. b.lo \in Int /\ b.hi \in Int /\ b.loc \in BOOLEAN /\ b.hic \in BOOLEAN
      BY <2>1 DEF Intervals
    <3>3. ~InDim(f, v, b) <=> \/ v < b.lo \/ (v = b.lo /\ ~b.loc)
                              \/ v > b.hi \/ (v = b.hi /\ ~b.hic)
      BY <1>3, <3>1, <3>2 DEF InDim
    <3>4. (\E d \in DimMinus(f, a, b) : InDim(f, v, d)) <=> InDim(f, v, left) \/ InDim(f, v, right)
      BY <2>3, <2>5, NotEmptyDim
    <3> QED  BY <2>4, <3>3, <3>4
  <2>7. ASSUME ~EmptyDim(f, CommonDim(f, a, b)), NEW v \in Values(f), InDim(f, v, left), InDim(f, v, right)
        PROVE  FALSE
    <3>1. v \in Int  BY <1>3, FieldKinds
    <3> DEFINE c == CommonInterval(a, b)
    <3>2. ~EmptyInterval(c, f \in IntegerFields)  BY <1>3, <2>7 DEF EmptyDim, CommonDim
    <3>3. c \in Intervals  BY <2>1 DEF CommonInterval, I, Intervals
    <3>4. b.lo <= c.lo /\ c.hi <= b.hi
          /\ (c.lo = b.lo => (c.loc => b.loc)) /\ (c.hi = b.hi => (c.hic => b.hic))
      BY <2>1 DEF CommonInterval, I, Intervals
    <3> HIDE DEF c
    <3>5. c.lo < c.hi \/ (c.lo = c.hi /\ c.loc /\ c.hic)
      BY <3>2, <3>3 DEF EmptyInterval, IntLo, IntHi, Intervals
    <3> QED  BY <2>1, <2>4, <2>7, <3>1, <3>3, <3>4, <3>5 DEF Intervals
  <2> QED  BY <2>3, <2>5, <2>6, <2>7
<1> QED  BY <1>1, <1>2, <1>3

-----------------------------------------------------------------------------
(* One condition *)

\* A condition whose region is found: of a truth value, equality only.
Proper(c) ==
    /\ c.field \in Fields
    /\ c.op \in {"<", "<=", ">", ">=", "==", "!="}
    /\ c.field \in NumericFields => c.value \in Int
    /\ c.field \in BooleanFields => c.value \in BOOLEAN /\ c.op \in {"==", "!="}
    /\ c.field \in StringFields => c.op \in {"==", "!="}

LEMMA InfIs == INF \in Int /\ -INF \in Int
BY SMT DEF INF

InInterval(v, d) ==
    /\ v > d.lo \/ (v = d.lo /\ d.loc)
    /\ v < d.hi \/ (v = d.hi /\ d.hic)

LEMMA NumericDimsIs ==
    ASSUME NEW op \in {"<", "<=", ">", ">=", "==", "!="}, NEW x \in Int
    PROVE  /\ NumericDims(op, x) \in SUBSET Intervals
           /\ IsFiniteSet(NumericDims(op, x))
           /\ \A v \in Int : -INF < v /\ v < INF =>
                 /\ Compare(op, v, x) <=> \E d \in NumericDims(op, x) : InInterval(v, d)
                 /\ \A d, e \in NumericDims(op, x) : InInterval(v, d) /\ InInterval(v, e) => d = e
<1> DEFINE Above(closed) == I(x, INF, closed, FALSE)
           Below(closed) == I(-INF, x, FALSE, closed)
           At == I(x, x, TRUE, TRUE)
<1>0. INF \in Int /\ -INF \in Int  BY InfIs
<1>a. \A closed \in BOOLEAN : Above(closed) \in Intervals /\ Below(closed) \in Intervals
  BY <1>0 DEF I, InInterval, Intervals
<1>b. At \in Intervals /\ \A v \in Int : InInterval(v, At) <=> v = x
  BY DEF I, InInterval, Intervals
<1>c. ASSUME NEW v \in Int, -INF < v, v < INF
      PROVE  /\ InInterval(v, Above(FALSE)) <=> v > x
             /\ InInterval(v, Above(TRUE)) <=> v >= x
             /\ InInterval(v, Below(FALSE)) <=> v < x
             /\ InInterval(v, Below(TRUE)) <=> v <= x
  BY <1>0, <1>c DEF I, InInterval
<1>1. CASE op = ">"
  <2>1. NumericDims(op, x) = {Above(FALSE)}  BY <1>1 DEF NumericDims
  <2>2. \A v : Compare(op, v, x) <=> v > x  BY <1>1 DEF Compare
  <2> HIDE DEF Above, Below, At
  <2>3. Above(FALSE) \in Intervals /\ \A v \in Int : -INF < v /\ v < INF => (InInterval(v, Above(FALSE)) <=> v > x)
    BY <1>a, <1>b, <1>c
  <2>4. IsFiniteSet(NumericDims(op, x))  BY <2>1, FS_Singleton
  <2> QED  BY <2>1, <2>2, <2>3, <2>4
<1>2. CASE op = ">="
  <2>1. NumericDims(op, x) = {Above(TRUE)}  BY <1>2 DEF NumericDims
  <2>2. \A v : Compare(op, v, x) <=> v >= x  BY <1>2 DEF Compare
  <2> HIDE DEF Above, Below, At
  <2>3. Above(TRUE) \in Intervals /\ \A v \in Int : -INF < v /\ v < INF => (InInterval(v, Above(TRUE)) <=> v >= x)
    BY <1>a, <1>b, <1>c
  <2>4. IsFiniteSet(NumericDims(op, x))  BY <2>1, FS_Singleton
  <2> QED  BY <2>1, <2>2, <2>3, <2>4
<1>3. CASE op = "<"
  <2>1. NumericDims(op, x) = {Below(FALSE)}  BY <1>3 DEF NumericDims
  <2>2. \A v : Compare(op, v, x) <=> v < x  BY <1>3 DEF Compare
  <2> HIDE DEF Above, Below, At
  <2>3. Below(FALSE) \in Intervals /\ \A v \in Int : -INF < v /\ v < INF => (InInterval(v, Below(FALSE)) <=> v < x)
    BY <1>a, <1>b, <1>c
  <2>4. IsFiniteSet(NumericDims(op, x))  BY <2>1, FS_Singleton
  <2> QED  BY <2>1, <2>2, <2>3, <2>4
<1>4. CASE op = "<="
  <2>1. NumericDims(op, x) = {Below(TRUE)}  BY <1>4 DEF NumericDims
  <2>2. \A v : Compare(op, v, x) <=> v <= x  BY <1>4 DEF Compare
  <2> HIDE DEF Above, Below, At
  <2>3. Below(TRUE) \in Intervals /\ \A v \in Int : -INF < v /\ v < INF => (InInterval(v, Below(TRUE)) <=> v <= x)
    BY <1>a, <1>b, <1>c
  <2>4. IsFiniteSet(NumericDims(op, x))  BY <2>1, FS_Singleton
  <2> QED  BY <2>1, <2>2, <2>3, <2>4
<1>5. CASE op = "=="
  <2>1. NumericDims(op, x) = {At}  BY <1>5 DEF NumericDims
  <2>2. \A v : Compare(op, v, x) <=> v = x  BY <1>5 DEF Compare
  <2> HIDE DEF Above, Below, At
  <2>3. At \in Intervals /\ \A v \in Int : -INF < v /\ v < INF => (InInterval(v, At) <=> v = x)
    BY <1>a, <1>b, <1>c
  <2>4. IsFiniteSet(NumericDims(op, x))  BY <2>1, FS_Singleton
  <2> QED  BY <2>1, <2>2, <2>3, <2>4
<1>6. CASE op = "!="
  <2>1. NumericDims(op, x) = {Below(FALSE), Above(FALSE)}  BY <1>6 DEF NumericDims
  <2>2. \A v : Compare(op, v, x) <=> v # x  BY <1>6 DEF Compare
  <2>3. /\ Below(FALSE) \in Intervals /\ Above(FALSE) \in Intervals
        /\ \A v \in Int : -INF < v /\ v < INF =>
              /\ InInterval(v, Below(FALSE)) <=> v < x
              /\ InInterval(v, Above(FALSE)) <=> v > x
    BY <1>a, <1>c
  <2>4. \A v \in Int : (v # x <=> v < x \/ v > x) /\ ~(v < x /\ v > x)  OBVIOUS
  <2>5. NumericDims(op, x) = {Below(FALSE)} \cup {Above(FALSE)}  BY <2>1
  <2> HIDE DEF Below, Above
  <2>6. IsFiniteSet(NumericDims(op, x))
    <3>1. IsFiniteSet({Below(FALSE)}) /\ IsFiniteSet({Above(FALSE)})  BY FS_Singleton
    <3> QED  BY <2>5, <3>1, FS_Union
  <2> QED  BY <2>1, <2>2, <2>3, <2>4, <2>6
<1> QED  BY <1>1, <1>2, <1>3, <1>4, <1>5, <1>6

LEMMA ConditionDimsIs ==
    ASSUME NEW c, Proper(c)
    PROVE  /\ IsFiniteSet(ConditionDims(c))
           /\ \A d \in ConditionDims(c) : IsDim(c.field, d)
           /\ \A ctx \in Contexts :
                 /\ ConditionHolds(c, ctx) <=>
                        \E d \in ConditionDims(c) : InDim(c.field, ctx[c.field], d)
                 /\ \A d, e \in ConditionDims(c) :
                        InDim(c.field, ctx[c.field], d) /\ InDim(c.field, ctx[c.field], e) => d = e
<1> DEFINE f == c.field
<1>0. f \in Fields /\ \A ctx \in Contexts : ctx[f] \in Values(f) /\ ctx[f] # Missing
  BY RuleSetAssumption DEF Proper, HasType, Values
<1>1. CASE f \in StringFields
  <2> DEFINE d == IF c.op = "==" THEN Only({c.value}) ELSE AllBut({c.value})
  <2>1. ConditionDims(c) = {d}  BY <1>1 DEF ConditionDims
  <2>2. IsDim(f, d)  BY <1>1 DEF IsDim, Only, AllBut, Every
  <2>3. \A v : InDim(f, v, d) <=> Compare(c.op, v, c.value)
    BY <1>1 DEF InDim, Only, AllBut, Every, Compare, Proper
  <2> HIDE DEF d
  <2> QED  BY <1>0, <2>1, <2>2, <2>3, FS_Singleton DEF ConditionHolds
<1>2. CASE f \notin StringFields /\ f \in BooleanFields
  <2> DEFINE d == IF c.op = "==" THEN {c.value} ELSE {~c.value}
  <2>1. ConditionDims(c) = {d}  BY <1>2 DEF ConditionDims, Proper
  <2>2. IsDim(f, d)  BY <1>2 DEF IsDim
  <2>3. ASSUME NEW v \in BOOLEAN PROVE InDim(f, v, d) <=> Compare(c.op, v, c.value)
    <3>1. c.value \in BOOLEAN /\ c.op \in {"==", "!="}  BY <1>2 DEF Proper
    <3>2. InDim(f, v, d) <=> v \in d  BY <1>2 DEF InDim
    <3>3. Compare(c.op, v, c.value) <=> IF c.op = "==" THEN v = c.value ELSE v # c.value
      BY <3>1 DEF Compare
    <3>4. (v = ~c.value) <=> (v # c.value)  BY <3>1
    <3> QED  BY <3>2, <3>3, <3>4
  <2>4. \A ctx \in Contexts : ctx[f] \in BOOLEAN  BY <1>0, <1>2, RuleSetAssumption DEF HasType
  <2> HIDE DEF d
  <2> QED  BY <1>0, <2>1, <2>2, <2>3, <2>4, FS_Singleton DEF ConditionHolds
<1>3. CASE f \notin StringFields /\ f \notin BooleanFields
  <2>1. f \in NumericFields /\ c.value \in Int /\ c.op \in {"<", "<=", ">", ">=", "==", "!="}
    BY <1>0, <1>3, FieldKinds DEF Proper
  <2>2. ConditionDims(c) = NumericDims(c.op, c.value)  BY <1>3 DEF ConditionDims
  <2>3. ASSUME NEW ctx \in Contexts PROVE ctx[f] \in Int /\ -INF < ctx[f] /\ ctx[f] < INF
    <3>1. ctx[f] \in Int /\ Domains[f].lo <= ctx[f] /\ ctx[f] <= Domains[f].hi
      BY <1>0, <2>1, RuleSetAssumption DEF HasType
    <3>2. /\ Domains[f].lo \in Int /\ Domains[f].hi \in Int
          /\ -INF < Domains[f].lo /\ Domains[f].hi < INF
      BY <2>1, RegionsAssumption
    <3> QED  BY <3>1, <3>2, InfIs
  <2>4. \A d : IsDim(f, d) <=> d \in Intervals  BY <1>3 DEF IsDim
  <2>5. \A v, d : InDim(f, v, d) <=> InInterval(v, d)  BY <1>3 DEF InDim, InInterval
  <2>6. /\ NumericDims(c.op, c.value) \in SUBSET Intervals
        /\ IsFiniteSet(NumericDims(c.op, c.value))
        /\ \A ctx \in Contexts :
              /\ Compare(c.op, ctx[f], c.value) <=> \E d \in NumericDims(c.op, c.value) : InInterval(ctx[f], d)
              /\ \A d, e \in NumericDims(c.op, c.value) :
                    InInterval(ctx[f], d) /\ InInterval(ctx[f], e) => d = e
    BY <2>1, <2>3, NumericDimsIs
  <2>7. \A ctx \in Contexts : ConditionHolds(c, ctx) <=> Compare(c.op, ctx[f], c.value)
    BY <1>0 DEF ConditionHolds
  <2> QED  BY <2>2, <2>4, <2>5, <2>6, <2>7
<1> QED  BY <1>1, <1>2, <1>3

-----------------------------------------------------------------------------
(* One box *)

IsBox(b) == DOMAIN b = Fields /\ \A f \in Fields : IsDim(f, b[f])

LEMMA InIs == \A ctx, b : In(ctx, b) <=> \A f \in Fields : InDim(f, ctx[f], b[f])
BY DEF In, InDim

LEMMA ValuesOf == \A ctx \in Contexts, f \in Fields : ctx[f] \in Values(f)
BY DEF Values

LEMMA FullBoxIs == IsBox(FullBox) /\ \A ctx \in Contexts : In(ctx, FullBox)
<1>1. ASSUME NEW f \in Fields PROVE IsDim(f, FullDim(f)) /\ \A ctx \in Contexts : InDim(f, ctx[f], FullDim(f))
  <2>1. CASE f \in StringFields  BY <2>1 DEF FullDim, Every, IsDim, InDim
  <2>2. CASE f \notin StringFields /\ f \in BooleanFields
    BY <2>2, RuleSetAssumption DEF FullDim, IsDim, InDim, HasType
  <2>3. CASE f \notin StringFields /\ f \notin BooleanFields
    <3>1. f \in NumericFields  BY <2>3, FieldKinds
    <3>2. Domains[f].lo \in Int /\ Domains[f].hi \in Int  BY <3>1, RegionsAssumption
    <3>3. FullDim(f) = I(Domains[f].lo, Domains[f].hi, TRUE, TRUE)  BY <2>3 DEF FullDim
    <3>4. \A ctx \in Contexts :
              ctx[f] \in Int /\ Domains[f].lo <= ctx[f] /\ ctx[f] <= Domains[f].hi
      BY <3>1, RuleSetAssumption DEF HasType
    <3> QED  BY <2>3, <3>2, <3>3, <3>4 DEF IsDim, InDim, I, Intervals
  <2> QED  BY <2>1, <2>2, <2>3
<1> QED  BY <1>1, InIs DEF FullBox, IsBox

LEMMA CommonBoxIs ==
    ASSUME NEW a, NEW b, IsBox(a), IsBox(b)
    PROVE  /\ IsBox(CommonBox(a, b))
           /\ \A ctx \in Contexts : In(ctx, CommonBox(a, b)) <=> In(ctx, a) /\ In(ctx, b)
BY CommonDimIs, InIs, ValuesOf DEF CommonBox, IsBox

LEMMA NotEmptyBox ==
    ASSUME NEW b, IsBox(b), NEW ctx \in Contexts, In(ctx, b)
    PROVE  ~EmptyBox(b)
BY NotEmptyDim, InIs, ValuesOf DEF EmptyBox, IsBox

\* The order of the fields is one.
LEMMA BeforeIs ==
    /\ \A f \in Fields : ~Before(f, f)
    /\ \A f, g \in Fields : f # g => Before(f, g) \/ Before(g, f)
    /\ \A S \in SUBSET Fields : S # {} => \E g \in S : \A f \in S : ~Before(f, g)
<1>0. PICK n \in Nat : DOMAIN FieldOrder = 1..n  BY RegionsAssumption
<1>1. \A i, j \in 1..n : FieldOrder[i] = FieldOrder[j] => i = j  BY <1>0, RegionsAssumption
<1>2. Fields = { FieldOrder[i] : i \in 1..n }  BY <1>0 DEF Fields, ToSet
<1>3. \A i, j \in 1..n : Before(FieldOrder[i], FieldOrder[j]) <=> i < j
  BY <1>0, <1>1 DEF Before
<1>4. \A i, j \in 1..n : i # j => i < j \/ j < i  OBVIOUS
<1>5. ASSUME NEW S \in SUBSET Fields, S # {} PROVE \E g \in S : \A f \in S : ~Before(f, g)
  <2> DEFINE T == { i \in 1..n : FieldOrder[i] \in S }
  <2>1. T \in SUBSET Nat /\ T # {}  BY <1>2, <1>5
  <2>2. PICK i \in T : \A k \in T : i <= k
    <3> HIDE DEF T
    <3> QED  BY <2>1, LeastNumber
  <2> QED  BY <1>2, <1>3, <2>2
<1> QED  BY <1>2, <1>3, <1>4, <1>5

\* What a keeps where field g is the first of b that a context is outside of.
Split(a, b, g, part) ==
    [f \in Fields |-> IF Before(f, g) THEN CommonDim(f, a[f], b[f])
                      ELSE IF f = g THEN part ELSE a[f]]

LEMMA SplitIs ==
    ASSUME NEW a, NEW b, IsBox(a), IsBox(b), NEW g \in Fields, NEW part \in DimMinus(g, a[g], b[g])
    PROVE  /\ IsBox(Split(a, b, g, part))
           /\ \A ctx \in Contexts : In(ctx, Split(a, b, g, part)) <=>
                 /\ In(ctx, a) /\ InDim(g, ctx[g], part)
                 /\ \A f \in Fields : Before(f, g) => InDim(f, ctx[f], b[f])
<1> DEFINE s == Split(a, b, g, part)
<1>1. DOMAIN s = Fields  BY DEF Split
<1>2. IsDim(g, part) /\ \A ctx \in Contexts : InDim(g, ctx[g], part) => InDim(g, ctx[g], a[g])
  BY DimMinusIs, ValuesOf DEF IsBox
<1>3. ASSUME NEW f \in Fields
      PROVE  /\ IsDim(f, s[f])
             /\ \A ctx \in Contexts : InDim(f, ctx[f], s[f]) <=>
                   IF Before(f, g) THEN InDim(f, ctx[f], a[f]) /\ InDim(f, ctx[f], b[f])
                   ELSE IF f = g THEN InDim(f, ctx[f], part) ELSE InDim(f, ctx[f], a[f])
  <2>1. CASE Before(f, g)
    <3>1. s[f] = CommonDim(f, a[f], b[f])  BY <2>1 DEF Split
    <3>2. IsDim(f, a[f]) /\ IsDim(f, b[f])  BY DEF IsBox
    <3> HIDE DEF s
    <3> QED  BY <2>1, <3>1, <3>2, CommonDimIs, ValuesOf
  <2>2. CASE ~Before(f, g) /\ f = g
    <3>1. s[f] = part  BY <2>2 DEF Split
    <3> HIDE DEF s
    <3> QED  BY <1>2, <2>2, <3>1
  <2>3. CASE ~Before(f, g) /\ f # g
    <3>1. s[f] = a[f]  BY <2>3 DEF Split
    <3> HIDE DEF s
    <3> QED  BY <2>3, <3>1 DEF IsBox
  <2> QED  BY <2>1, <2>2, <2>3
<1>4. IsBox(s)
  <2> HIDE DEF s
  <2> QED  BY <1>1, <1>3 DEF IsBox
<1>5. ASSUME NEW ctx \in Contexts
      PROVE  In(ctx, s) <=> /\ In(ctx, a) /\ InDim(g, ctx[g], part)
                            /\ \A f \in Fields : Before(f, g) => InDim(f, ctx[f], b[f])
  <2> HIDE DEF s
  <2>1. In(ctx, s) => /\ In(ctx, a) /\ InDim(g, ctx[g], part)
                      /\ \A f \in Fields : Before(f, g) => InDim(f, ctx[f], b[f])
    BY <1>2, <1>3, BeforeIs, InIs
  <2>2. /\ In(ctx, a) /\ InDim(g, ctx[g], part)
        /\ \A f \in Fields : Before(f, g) => InDim(f, ctx[f], b[f])
        => In(ctx, s)
    BY <1>3, InIs
  <2> QED  BY <2>1, <2>2
<1> QED  BY <1>4, <1>5

\* In how many boxes of R the context is: in one at most, and whether in one.
Once(R, ctx) == \A b, c \in R : In(ctx, b) /\ In(ctx, c) => b = c
Covered(R, ctx) == \E b \in R : In(ctx, b)

LEMMA BoxMinusIs ==
    ASSUME NEW a, NEW b, IsBox(a), IsBox(b)
    PROVE  /\ \A r \in BoxMinus(a, b) : IsBox(r)
           /\ \A ctx \in Contexts :
                 /\ Covered(BoxMinus(a, b), ctx) <=> In(ctx, a) /\ ~In(ctx, b)
                 /\ Once(BoxMinus(a, b), ctx)
<1>1. CASE EmptyBox(CommonBox(a, b))
  <2>1. BoxMinus(a, b) = {a}  BY <1>1 DEF BoxMinus
  <2>2. \A ctx \in Contexts : ~(In(ctx, a) /\ In(ctx, b))
    BY <1>1, CommonBoxIs, NotEmptyBox
  <2> QED  BY <2>1, <2>2 DEF Covered, Once
<1>2. CASE ~EmptyBox(CommonBox(a, b))
  <2>1. BoxMinus(a, b) = UNION { { Split(a, b, g, part) : part \in DimMinus(g, a[g], b[g]) } : g \in Fields }
    BY <1>2 DEF BoxMinus, Split
  <2>2. \A g \in Fields : ~EmptyDim(g, CommonDim(g, a[g], b[g]))
    BY <1>2 DEF EmptyBox, CommonBox
  <2>3. \A g \in Fields : IsDim(g, a[g]) /\ IsDim(g, b[g])  BY DEF IsBox
  <2>4. \A r \in BoxMinus(a, b) : IsBox(r)  BY <2>1, SplitIs
  <2> SUFFICES ASSUME NEW ctx \in Contexts
               PROVE  /\ Covered(BoxMinus(a, b), ctx) <=> In(ctx, a) /\ ~In(ctx, b)
                      /\ Once(BoxMinus(a, b), ctx)
    BY <2>4
  <2>5. ASSUME NEW g \in Fields, NEW part \in DimMinus(g, a[g], b[g]), In(ctx, Split(a, b, g, part))
        PROVE  /\ In(ctx, a) /\ InDim(g, ctx[g], part) /\ ~InDim(g, ctx[g], b[g])
               /\ \A f \in Fields : Before(f, g) => InDim(f, ctx[f], b[f])
    <3>1. /\ In(ctx, a) /\ InDim(g, ctx[g], part)
          /\ \A f \in Fields : Before(f, g) => InDim(f, ctx[f], b[f])
      BY <2>5, SplitIs
    <3>2. ~InDim(g, ctx[g], b[g])  BY <2>3, <3>1, DimMinusIs, ValuesOf
    <3> QED  BY <3>1, <3>2
  <2>6. ASSUME In(ctx, a), ~In(ctx, b) PROVE Covered(BoxMinus(a, b), ctx)
    <3> DEFINE S == { f \in Fields : ~InDim(f, ctx[f], b[f]) }
    <3>1. S # {}  BY <2>6, InIs
    <3>2. PICK g \in S : \A f \in S : ~Before(f, g)
      <4>1. S \in SUBSET Fields  OBVIOUS
      <4> HIDE DEF S
      <4> QED  BY <3>1, <4>1, BeforeIs
    <3>3. InDim(g, ctx[g], a[g])  BY <2>6, InIs
    <3>4. PICK part \in DimMinus(g, a[g], b[g]) : InDim(g, ctx[g], part)
      BY <2>3, <3>3, DimMinusIs, ValuesOf
    <3>5. In(ctx, Split(a, b, g, part))
      BY <2>6, <3>2, <3>4, SplitIs
    <3> QED  BY <2>1, <3>5 DEF Covered
  <2>7. Covered(BoxMinus(a, b), ctx) => In(ctx, a) /\ ~In(ctx, b)
    BY <2>1, <2>5, InIs DEF Covered
  <2>8. Once(BoxMinus(a, b), ctx)
    <3> SUFFICES ASSUME NEW g \in Fields, NEW part \in DimMinus(g, a[g], b[g]),
                        NEW h \in Fields, NEW other \in DimMinus(h, a[h], b[h]),
                        In(ctx, Split(a, b, g, part)), In(ctx, Split(a, b, h, other))
                 PROVE  g = h /\ part = other
      BY <2>1 DEF Once
    <3>1. g = h
      <4>1. ~Before(g, h) /\ ~Before(h, g)  BY <2>5
      <4> QED  BY <4>1, BeforeIs
    <3>2. InDim(g, ctx[g], part) /\ InDim(g, ctx[g], other)  BY <2>5, <3>1
    <3> QED  BY <2>2, <2>3, <3>1, <3>2, DimMinusIs, ValuesOf
  <2> QED  BY <2>6, <2>7, <2>8
<1> QED  BY <1>1, <1>2

-----------------------------------------------------------------------------
(* Regions *)

\* Taking away one box.
LEMMA CutIs ==
    ASSUME NEW R, NEW b, IsBox(b), \A r \in R : IsBox(r)
    PROVE  /\ \A r \in Cut(R, b) : IsBox(r)
           /\ \A ctx \in Contexts :
                 /\ Covered(Cut(R, b), ctx) <=> Covered(R, ctx) /\ ~In(ctx, b)
                 /\ Once(R, ctx) => Once(Cut(R, b), ctx)
<1>1. \A r \in Cut(R, b) : IsBox(r)  BY BoxMinusIs DEF Cut
<1> SUFFICES ASSUME NEW ctx \in Contexts
             PROVE  /\ Covered(Cut(R, b), ctx) <=> Covered(R, ctx) /\ ~In(ctx, b)
                    /\ Once(R, ctx) => Once(Cut(R, b), ctx)
  BY <1>1
<1>2. \A r \in R : (\E s \in BoxMinus(r, b) : In(ctx, s)) <=> In(ctx, r) /\ ~In(ctx, b)
  BY BoxMinusIs DEF Covered
<1>3. Covered(Cut(R, b), ctx) <=> Covered(R, ctx) /\ ~In(ctx, b)
  BY <1>2 DEF Covered, Cut
<1>4. ASSUME Once(R, ctx), NEW r \in R, NEW s \in BoxMinus(r, b), NEW q \in R, NEW t \in BoxMinus(q, b),
             In(ctx, s), In(ctx, t)
      PROVE  s = t
  <2>1. In(ctx, r) /\ In(ctx, q)  BY <1>2, <1>4
  <2>2. r = q  BY <1>4, <2>1 DEF Once
  <2> QED  BY <1>4, <2>2, BoxMinusIs DEF Once
<1>5. Once(R, ctx) => Once(Cut(R, b), ctx)  BY <1>4 DEF Once, Cut
<1> QED  BY <1>3, <1>5

LEMMA RegionMinusIs ==
    ASSUME NEW R, NEW boxes, IsFiniteSet(boxes),
           \A r \in R : IsBox(r), \A b \in boxes : IsBox(b)
    PROVE  /\ \A r \in RegionMinus(R, boxes) : IsBox(r)
           /\ \A ctx \in Contexts :
                 /\ Covered(RegionMinus(R, boxes), ctx) <=> Covered(R, ctx) /\ ~Covered(boxes, ctx)
                 /\ Once(R, ctx) => Once(RegionMinus(R, boxes), ctx)
<1>1. PICK h : IsCutting(h, R, boxes) /\ RegionMinus(R, boxes) = h[boxes]  BY MinusCuts
<1> DEFINE Left(T, s) ==
              /\ \A r \in T : IsBox(r)
              /\ \A ctx \in Contexts :
                    /\ Covered(T, ctx) <=> Covered(R, ctx) /\ ~Covered(s, ctx)
                    /\ Once(R, ctx) => Once(T, ctx)
           G == { s \in SUBSET boxes : Left(h[s], s) }
<1>2. {} \in G
  <2>1. h[{}] = R  BY <1>1 DEF IsCutting, CutStep
  <2> QED  BY <2>1 DEF Covered
<1>3. ASSUME NEW s \in SUBSET boxes, s # {}, \A x \in s : s \ {x} \in G
      PROVE  s \in G
  <2> DEFINE b == AnyOf(s)
             T == h[s \ {b}]
  <2>1. b \in s  BY <1>3 DEF AnyOf
  <2>2. h[s] = Cut(T, b)  BY <1>1, <1>3 DEF IsCutting, CutStep
  <2>3. Left(T, s \ {b})  BY <1>3, <2>1
  <2>4. IsBox(b)  BY <2>1
  <2> HIDE DEF b, T
  <2>5. /\ \A r \in h[s] : IsBox(r)
        /\ \A ctx \in Contexts :
              /\ Covered(h[s], ctx) <=> Covered(T, ctx) /\ ~In(ctx, b)
              /\ Once(T, ctx) => Once(h[s], ctx)
    BY <2>2, <2>3, <2>4, CutIs
  <2>6. \A ctx : Covered(s, ctx) <=> Covered(s \ {b}, ctx) \/ In(ctx, b)
    BY <2>1 DEF Covered
  <2> QED  BY <2>3, <2>5, <2>6
<1>4. G = SUBSET boxes
  <2> HIDE DEF G
  <2>1. G \in SUBSET SUBSET boxes  BY DEF G
  <2> QED  BY <1>2, <1>3, <2>1, SubsetInduction
<1>5. Left(h[boxes], boxes)  BY <1>4
<1> QED  BY <1>1, <1>5


\* One condition narrows a region to the contexts it holds in.
LEMMA NarrowIs ==
    ASSUME NEW R, IsFiniteSet(R), \A r \in R : IsBox(r), NEW c, Proper(c)
    PROVE  /\ IsFiniteSet(Narrow(R, c))
           /\ \A r \in Narrow(R, c) : IsBox(r)
           /\ \A ctx \in Contexts :
                 /\ Covered(Narrow(R, c), ctx) <=> Covered(R, ctx) /\ ConditionHolds(c, ctx)
                 /\ Once(R, ctx) => Once(Narrow(R, c), ctx)
<1> DEFINE g == c.field
           D == ConditionDims(c)
           To(b, d) == [f \in Fields |-> IF f = g THEN CommonDim(f, b[f], d) ELSE b[f]]
<1>0. g \in Fields  BY DEF Proper
<1>1. IsFiniteSet(D) /\ \A d \in D : IsDim(g, d)  BY ConditionDimsIs
<1>2. Narrow(R, c) = { nb \in { To(b, d) : b \in R, d \in D } : ~EmptyDim(g, nb[g]) }
  BY DEF Narrow
<1>3. ASSUME NEW b \in R, NEW d \in D
      PROVE  /\ IsBox(To(b, d))
             /\ \A ctx \in Contexts : In(ctx, To(b, d)) <=> In(ctx, b) /\ InDim(g, ctx[g], d)
  <2>1. IsBox(b) /\ IsDim(g, d)  BY <1>1
  <2>2. IsDim(g, CommonDim(g, b[g], d))  BY <1>0, <2>1, CommonDimIs DEF IsBox
  <2>3. IsBox(To(b, d))  BY <2>1, <2>2 DEF IsBox
  <2>4. \A ctx \in Contexts :
           InDim(g, ctx[g], CommonDim(g, b[g], d)) <=> InDim(g, ctx[g], b[g]) /\ InDim(g, ctx[g], d)
    BY <1>0, <2>1, CommonDimIs, ValuesOf DEF IsBox
  <2>5. \A f \in Fields : To(b, d)[f] = IF f = g THEN CommonDim(g, b[g], d) ELSE b[f]
    OBVIOUS
  <2> HIDE DEF To
  <2>6. \A ctx \in Contexts : In(ctx, To(b, d)) <=> In(ctx, b) /\ InDim(g, ctx[g], d)
    BY <1>0, <2>4, <2>5, InIs
  <2> QED  BY <2>3, <2>6
<1>4. IsFiniteSet(Narrow(R, c))
  <2>1. IsFiniteSet(R \X D)  BY <1>1, FS_Product
  <2> DEFINE to == [p \in R \X D |-> To(p[1], p[2])]
  <2>2. IsFiniteSet({ to[p] : p \in R \X D })
    <3> HIDE DEF to, D
    <3> QED  BY <2>1, ImageFinite
  <2>3. ASSUME NEW nb \in Narrow(R, c) PROVE nb \in { to[p] : p \in R \X D }
    <3>1. PICK b \in R, d \in D : nb = To(b, d)
      <4> HIDE DEF To, D
      <4> QED  BY <1>2
    <3>2. <<b, d>> \in R \X D  OBVIOUS
    <3>3. nb = to[<<b, d>>]
      <4> HIDE DEF To, D
      <4> QED  BY <3>1, <3>2
    <3> HIDE DEF to, D
    <3> QED  BY <3>2, <3>3
  <2> QED  BY <2>2, <2>3, FS_Subset
<1> HIDE DEF To, D
<1>5. \A r \in Narrow(R, c) : IsBox(r)  BY <1>2, <1>3
<1> SUFFICES ASSUME NEW ctx \in Contexts
             PROVE  /\ Covered(Narrow(R, c), ctx) <=> Covered(R, ctx) /\ ConditionHolds(c, ctx)
                    /\ Once(R, ctx) => Once(Narrow(R, c), ctx)
  BY <1>4, <1>5
<1>6. /\ ConditionHolds(c, ctx) <=> \E d \in D : InDim(g, ctx[g], d)
      /\ \A d, e \in D : InDim(g, ctx[g], d) /\ InDim(g, ctx[g], e) => d = e
  BY ConditionDimsIs DEF D
<1>7. Covered(Narrow(R, c), ctx) => Covered(R, ctx) /\ ConditionHolds(c, ctx)
  BY <1>2, <1>3, <1>6 DEF Covered
<1>8. ASSUME NEW b \in R, NEW d \in D, In(ctx, b), InDim(g, ctx[g], d)
      PROVE  Covered(Narrow(R, c), ctx)
  <2>1. IsBox(To(b, d)) /\ In(ctx, To(b, d))  BY <1>3, <1>8
  <2>2. ~EmptyDim(g, To(b, d)[g])
    BY <1>0, <2>1, InIs, ValuesOf, NotEmptyDim DEF IsBox
  <2> QED  BY <1>2, <2>1, <2>2 DEF Covered
<1>9. Once(R, ctx) => Once(Narrow(R, c), ctx)
  BY <1>2, <1>3, <1>6 DEF Once
<1> QED  BY <1>6, <1>7, <1>8, <1>9 DEF Covered

LEMMA RuleRegionIs ==
    ASSUME NEW n \in Nat, NEW conds, DOMAIN conds = 1..n, \A i \in 1..n : Proper(conds[i])
    PROVE  /\ IsFiniteSet(RuleRegion(conds))
           /\ \A r \in RuleRegion(conds) : IsBox(r)
           /\ \A ctx \in Contexts :
                 /\ Covered(RuleRegion(conds), ctx) <=> \A i \in 1..n : ConditionHolds(conds[i], ctx)
                 /\ Once(RuleRegion(conds), ctx)
<1>1. PICK h : IsNarrowing(h, conds) /\ RuleRegion(conds) = h[1..n]  BY RegionNarrows
<1> DEFINE Narrowed(R, k) ==
              /\ IsFiniteSet(R)
              /\ \A r \in R : IsBox(r)
              /\ \A ctx \in Contexts :
                    /\ Covered(R, ctx) <=> \A i \in 1..k : ConditionHolds(conds[i], ctx)
                    /\ Once(R, ctx)
           G == { k \in Nat : k <= n => Narrowed(h[1..k], k) }
<1>2. 0 \in G
  <2>1. h[1..0] = {FullBox}
    <3>1. 1..0 = {} /\ {} \in SUBSET DOMAIN conds  OBVIOUS
    <3> QED  BY <1>1, <3>1 DEF IsNarrowing, NarrowStep
  <2>2. IsFiniteSet({FullBox})  BY FS_Singleton
  <2>3. Narrowed({FullBox}, 0)  BY <2>2, FullBoxIs DEF Covered, Once
  <2> HIDE DEF Narrowed
  <2> QED  BY <2>1, <2>3
<1>3. ASSUME NEW k \in G PROVE k + 1 \in G
  <2> SUFFICES ASSUME k + 1 <= n PROVE Narrowed(h[1..(k + 1)], k + 1)
    OBVIOUS
  <2>1. k \in Nat /\ Narrowed(h[1..k], k)  BY <1>3
  <2>2. h[1..(k + 1)] = Narrow(h[1..k], conds[k + 1])
    <3>1. k \in Nat  BY <2>1
    <3>2. /\ 1..(k + 1) \in SUBSET (1..n) /\ 1..(k + 1) # {}
          /\ Max(1..(k + 1)) = k + 1 /\ (1..(k + 1)) \ {k + 1} = 1..k
      BY <3>1, Prefix
    <3> QED  BY <1>1, <3>2 DEF IsNarrowing, NarrowStep
  <2>3. Proper(conds[k + 1])  BY <2>1
  <2>4. /\ IsFiniteSet(h[1..(k + 1)])
        /\ \A r \in h[1..(k + 1)] : IsBox(r)
        /\ \A ctx \in Contexts :
              /\ Covered(h[1..(k + 1)], ctx) <=> Covered(h[1..k], ctx) /\ ConditionHolds(conds[k + 1], ctx)
              /\ Once(h[1..(k + 1)], ctx)
    <3> HIDE DEF G
    <3> QED  BY <2>1, <2>2, <2>3, NarrowIs
  <2>5. \A ctx : (\A i \in 1..(k + 1) : ConditionHolds(conds[i], ctx))
                  <=> (\A i \in 1..k : ConditionHolds(conds[i], ctx)) /\ ConditionHolds(conds[k + 1], ctx)
    <3>1. 1..(k + 1) = (1..k) \cup {k + 1}  BY <2>1
    <3> QED  BY <3>1
  <2> QED  BY <2>1, <2>4, <2>5
<1>4. G = Nat
  <2> HIDE DEF G
  <2>1. G \in SUBSET Nat  BY DEF G
  <2> QED  BY <1>2, <1>3, <2>1, SetInduction
<1>5. Narrowed(h[1..n], n)
  <2>1. n \in G
    <3> HIDE DEF G
    <3> QED  BY <1>4
  <2> HIDE DEF Narrowed
  <2> QED  BY <2>1
<1> QED  BY <1>1, <1>5


\* An order between truth values matches nothing: such a rule has no region.
LEMMA NoDimsNoRegion ==
    ASSUME NEW n \in Nat, NEW conds, DOMAIN conds = 1..n,
           NEW i \in 1..n, ConditionDims(conds[i]) = {}
    PROVE  RuleRegion(conds) = {}
<1>1. PICK h : IsNarrowing(h, conds) /\ RuleRegion(conds) = h[1..n]  BY RegionNarrows
<1> DEFINE G == { k \in Nat : i <= k /\ k <= n => h[1..k] = {} }
<1>2. 0 \in G
  <2>1. i <= 0 /\ 0 <= n => h[1..0] = {}  OBVIOUS
  <2> QED  BY <2>1
<1>3. ASSUME NEW k \in G PROVE k + 1 \in G
  <2> SUFFICES ASSUME i <= k + 1, k + 1 <= n PROVE h[1..(k + 1)] = {}
    OBVIOUS
  <2>1. k \in Nat /\ (i <= k => h[1..k] = {})  BY <1>3
  <2>2. h[1..(k + 1)] = Narrow(h[1..k], conds[k + 1])
    <3>1. k \in Nat  BY <2>1
    <3>2. /\ 1..(k + 1) \in SUBSET (1..n) /\ 1..(k + 1) # {}
          /\ Max(1..(k + 1)) = k + 1 /\ (1..(k + 1)) \ {k + 1} = 1..k
      BY <3>1, Prefix
    <3> QED  BY <1>1, <3>2 DEF IsNarrowing, NarrowStep
  <2>3. \A R, c : R = {} \/ ConditionDims(c) = {} => Narrow(R, c) = {}  BY DEF Narrow
  <2>4. i <= k \/ i = k + 1  BY <2>1
  <2> QED  BY <2>1, <2>2, <2>3, <2>4
<1>4. G = Nat
  <2> HIDE DEF G
  <2>1. G \in SUBSET Nat  BY DEF G
  <2> QED  BY <1>2, <1>3, <2>1, SetInduction
<1>5. h[1..n] = {}  BY <1>4
<1> QED  BY <1>1, <1>5

\* A rule matches where its region lies.
LEMMA ProperRegionIs ==
    ASSUME NEW rule, rule.conds \in Seq(ToSet(rule.conds)),
           \A i \in DOMAIN rule.conds : Proper(rule.conds[i])
    PROVE  /\ IsFiniteSet(RuleRegion(rule.conds))
           /\ \A r \in RuleRegion(rule.conds) : IsBox(r)
           /\ \A ctx \in Contexts :
                 /\ Covered(RuleRegion(rule.conds), ctx) <=> Matches(rule, ctx)
                 /\ Once(RuleRegion(rule.conds), ctx)
<1> DEFINE conds == rule.conds
<1>1. PICK n \in Nat : DOMAIN conds = 1..n  OBVIOUS
<1>2. \A ctx : Matches(rule, ctx) <=> \A i \in 1..n : ConditionHolds(conds[i], ctx)
  BY <1>1 DEF Matches
<1>3. \A i \in 1..n : Proper(conds[i])  BY <1>1
<1> HIDE DEF conds
<1>4. /\ IsFiniteSet(RuleRegion(conds))
      /\ \A r \in RuleRegion(conds) : IsBox(r)
      /\ \A ctx \in Contexts :
            /\ Covered(RuleRegion(conds), ctx) <=> \A i \in 1..n : ConditionHolds(conds[i], ctx)
            /\ Once(RuleRegion(conds), ctx)
  BY <1>1, <1>3, RuleRegionIs
<1> QED  BY <1>2, <1>4 DEF conds

\* A typed rule that has a region compares no truth values.
LEMMA TypedIsProper ==
    ASSUME NEW conds, conds \in Seq(ToSet(conds)), Typed(conds), RuleRegion(conds) # {},
           NEW i \in DOMAIN conds
    PROVE  Proper(conds[i])
<1>1. PICK n \in Nat : DOMAIN conds = 1..n  OBVIOUS
<1>2. ConditionDims(conds[i]) # {}  BY <1>1, NoDimsNoRegion
<1>3. conds[i].field \in BooleanFields => conds[i].field \notin StringFields  BY RegionsAssumption
<1> QED  BY <1>2, <1>3 DEF Typed, Proper, ConditionDims

-----------------------------------------------------------------------------
(* Lists of rules *)

UniqueIds(rules) == \A i, j \in DOMAIN rules : rules[i].id = rules[j].id => i = j

LEMMA KeptIs ==
    ASSUME NEW n \in Nat, NEW rules, DOMAIN rules = 1..n, NEW S
    PROVE  /\ Kept(rules, S) \in Seq(S)
           /\ ToSet(Kept(rules, S)) = ToSet(rules) \cap S
           /\ UniqueIds(rules) => UniqueIds(Kept(rules, S))
<1>1. PICK h : IsKeeping(h, rules, S) /\ Kept(rules, S) = h[1..n]  BY KeptKeeps
<1> DEFINE First(k) == { rules[i] : i \in 1..k }
           Holds(kept, k) ==
              /\ kept \in Seq(S)
              /\ { kept[i] : i \in DOMAIN kept } = First(k) \cap S
              /\ UniqueIds(rules) => UniqueIds(kept)
           G == { k \in Nat : k <= n => Holds(h[1..k], k) }
<1>2. 0 \in G
  <2>1. h[1..0] = << >>
    <3>1. 1..0 = {} /\ {} \in SUBSET DOMAIN rules  OBVIOUS
    <3> QED  BY <1>1, <3>1 DEF IsKeeping, KeptStep
  <2>2. << >> \in Seq(S) /\ First(0) = {}  OBVIOUS
  <2>3. { << >>[i] : i \in DOMAIN << >> } = {} /\ UniqueIds(<< >>)  BY DEF UniqueIds
  <2> HIDE DEF First
  <2> QED  BY <2>1, <2>2, <2>3
<1>3. ASSUME NEW k \in G PROVE k + 1 \in G
  <2> SUFFICES ASSUME k + 1 <= n PROVE Holds(h[1..(k + 1)], k + 1)
    OBVIOUS
  <2> DEFINE kept == h[1..k]
             rule == rules[k + 1]
  <2>1. k \in Nat /\ Holds(kept, k)  BY <1>3
  <2>2. h[1..(k + 1)] = IF rule \in S THEN Append(kept, rule) ELSE kept
    <3>1. k \in Nat  BY <2>1
    <3>2. /\ 1..(k + 1) \in SUBSET (1..n) /\ 1..(k + 1) # {}
          /\ Max(1..(k + 1)) = k + 1 /\ (1..(k + 1)) \ {k + 1} = 1..k
      BY <3>1, Prefix
    <3> QED  BY <1>1, <3>2 DEF IsKeeping, KeptStep
  <2>3. First(k + 1) = First(k) \cup {rule}
    <3>1. 1..(k + 1) = (1..k) \cup {k + 1}  BY <2>1
    <3> QED  BY <3>1
  <2>4. UniqueIds(rules) => \A r \in First(k) : r.id # rule.id
    BY <2>1 DEF UniqueIds
  <2> HIDE DEF kept, rule
  <2>5. CASE rule \notin S  BY <2>1, <2>2, <2>3, <2>5
  <2>6. CASE rule \in S
    <3> DEFINE more == Append(kept, rule)
               m == Len(kept)
    <3>1. /\ more \in Seq(S) /\ m \in Nat
          /\ DOMAIN kept = 1..m /\ DOMAIN more = 1..(m + 1)
          /\ \A i \in 1..m : more[i] = kept[i]
          /\ more[m + 1] = rule
      BY <2>1, <2>6
    <3>2. 1..(m + 1) = (1..m) \cup {m + 1}  BY <3>1
    <3> HIDE DEF more, m
    <3>3. { more[i] : i \in DOMAIN more } = { kept[i] : i \in DOMAIN kept } \cup {rule}
      BY <3>1, <3>2
    <3>4. ASSUME UniqueIds(rules) PROVE UniqueIds(more)
      <4>1. \A i \in 1..m : kept[i] \in First(k)  BY <2>1, <3>1
      <4>2. \A i \in 1..m : kept[i].id # rule.id  BY <2>4, <3>4, <4>1
      <4> QED  BY <2>1, <3>1, <3>2, <3>4, <4>2 DEF UniqueIds
    <3>5. First(k + 1) \cap S = (First(k) \cap S) \cup {rule}  BY <2>3, <2>6
    <3>6. h[1..(k + 1)] = more  BY <2>2, <2>6 DEF more
    <3> HIDE DEF First
    <3>7. { more[i] : i \in DOMAIN more } = First(k + 1) \cap S
      <4>1. { kept[i] : i \in DOMAIN kept } = First(k) \cap S  BY <2>1
      <4> QED  BY <3>3, <3>5, <4>1
    <3>8. Holds(more, k + 1)  BY <3>1, <3>4, <3>7
    <3> HIDE DEF Holds
    <3> QED  BY <3>6, <3>8
  <2> QED  BY <2>5, <2>6
<1>4. G = Nat
  <2> HIDE DEF G
  <2>1. G \in SUBSET Nat  BY DEF G
  <2> QED  BY <1>2, <1>3, <2>1, SetInduction
<1>5. Holds(h[1..n], n)
  <2>1. n \in G
    <3> HIDE DEF G
    <3> QED  BY <1>4
  <2> HIDE DEF Holds
  <2> QED  BY <2>1
<1> QED  BY <1>1, <1>5 DEF ToSet


\* What the table may hold.
Rules == { Validated(raw) : raw \in { r \in Pool : Valid(r) } }

LEMMA RuleIs ==
    ASSUME NEW rule \in Rules
    PROVE  /\ rule.conds \in Seq(ToSet(rule.conds)) /\ Typed(rule.conds)
           /\ rule.key \in Nat
           /\ rule.device \in DeviceTypes
           /\ \A other \in Rules : other.key = rule.key =>
                 other.id = rule.id /\ other.params = rule.params
<1> DEFINE From(r, raw) == /\ Valid(raw)
                           /\ r.conds = raw.conds /\ r.key = raw.key /\ r.params = raw.params
                           /\ r.id = raw.id /\ r.device = Canonical[raw.device]
<1>1. ASSUME NEW r \in Rules PROVE \E raw \in Pool : From(r, raw)
  <2>1. PICK raw \in Pool : Valid(raw) /\ r = Validated(raw)  BY DEF Rules
  <2>2. {"id", "key", "device", "params", "conds"} \subseteq DOMAIN raw  BY <2>1, RuleSetAssumption
  <2>3. From(r, raw)  BY <2>1, <2>2 DEF Validated
  <2> QED  BY <2>3
<1>2. PICK raw \in Pool : From(rule, raw)  BY <1>1
<1>3. raw.conds \in Seq(ToSet(raw.conds)) /\ Typed(raw.conds) /\ raw.key \in Nat
  BY <1>2, RuleSetAssumption
<1>4. Canonical[raw.device] \in DeviceTypes  BY <1>2 DEF Valid
<1>5. ASSUME NEW other \in Rules, other.key = rule.key
      PROVE  other.id = rule.id /\ other.params = rule.params
  <2>1. PICK o \in Pool : From(other, o)  BY <1>1
  <2> QED  BY <1>2, <1>5, <2>1, RuleSetAssumption
<1> QED  BY <1>2, <1>3, <1>4, <1>5

LEMMA OnlyIs ==
    ASSUME NEW rules \in Seq(Rules), NEW S
    PROVE  /\ Kept(rules, S) \in Seq(Rules)
           /\ ToSet(Kept(rules, S)) = ToSet(rules) \cap S
           /\ UniqueIds(rules) => UniqueIds(Kept(rules, S))
<1>1. PICK n \in Nat : DOMAIN rules = 1..n  OBVIOUS
<1>2. /\ Kept(rules, S) \in Seq(S)
      /\ ToSet(Kept(rules, S)) = ToSet(rules) \cap S
      /\ UniqueIds(rules) => UniqueIds(Kept(rules, S))
  BY <1>1, KeptIs
<1>3. \A i \in DOMAIN Kept(rules, S) : Kept(rules, S)[i] \in Rules
  BY <1>2 DEF ToSet
<1> QED  BY <1>2, <1>3

LEMMA WithoutIs ==
    ASSUME NEW rules \in Seq(Rules), NEW rule
    PROVE  /\ Without(rules, rule) \in Seq(Rules)
           /\ ToSet(Without(rules, rule)) = { r \in ToSet(rules) : r.id # rule.id }
           /\ UniqueIds(rules) => UniqueIds(Without(rules, rule))
<1> DEFINE S == { r \in ToSet(rules) : r.id # rule.id }
<1>1. Without(rules, rule) = Kept(rules, S)  BY DEF Without
<1>2. ToSet(rules) \cap S = S  OBVIOUS
<1> HIDE DEF S
<1>3. /\ Without(rules, rule) \in Seq(Rules)
      /\ ToSet(Without(rules, rule)) = S
      /\ UniqueIds(rules) => UniqueIds(Without(rules, rule))
  BY <1>1, <1>2, OnlyIs
<1> QED  BY <1>3 DEF S

LEMMA OfDeviceIs ==
    ASSUME NEW rules \in Seq(Rules), NEW device
    PROVE  /\ OfDevice(rules, device) \in Seq(Rules)
           /\ ToSet(OfDevice(rules, device)) \subseteq ToSet(rules)
<1> DEFINE S == { r \in ToSet(rules) : r.device = device }
<1>1. OfDevice(rules, device) = Kept(rules, S)  BY DEF OfDevice
<1> HIDE DEF S
<1> QED  BY <1>1, OnlyIs

\* The new rule is judged first, beside rules that stay.
LEMMA CheckedIs ==
    ASSUME NEW existing \in Seq(Rules), NEW rule \in Rules
    PROVE  /\ Checked(rule, existing) \in Seq(Rules)
           /\ 1 \in DOMAIN Checked(rule, existing) /\ Checked(rule, existing)[1] = rule
           /\ \A i \in DOMAIN Checked(rule, existing) :
                 \/ Checked(rule, existing)[i] = rule
                 \/ /\ Checked(rule, existing)[i] \in ToSet(existing)
                    /\ Checked(rule, existing)[i].id # rule.id
<1> DEFINE others == Without(OfDevice(existing, rule.device), rule)
<1>1. /\ others \in Seq(Rules)
      /\ \A i \in DOMAIN others : others[i] \in ToSet(existing) /\ others[i].id # rule.id
  <2>1. /\ OfDevice(existing, rule.device) \in Seq(Rules)
        /\ ToSet(OfDevice(existing, rule.device)) \subseteq ToSet(existing)
    BY OfDeviceIs
  <2>2. others \in Seq(Rules) /\ ToSet(others) = { r \in ToSet(OfDevice(existing, rule.device)) : r.id # rule.id }
    BY <2>1, WithoutIs
  <2>3. \A i \in DOMAIN others : others[i] \in ToSet(others)  BY DEF ToSet
  <2> QED  BY <2>1, <2>2, <2>3
<1>2. Checked(rule, existing) = <<rule>> \o others  BY DEF Checked
<1> HIDE DEF others
<1>3. <<rule>> \in Seq(Rules) /\ Len(<<rule>>) = 1 /\ <<rule>>[1] = rule  OBVIOUS
<1>4. /\ <<rule>> \o others \in Seq(Rules)
      /\ DOMAIN (<<rule>> \o others) = 1..(1 + Len(others))
      /\ (<<rule>> \o others)[1] = rule
      /\ \A i \in 2..(1 + Len(others)) : (<<rule>> \o others)[i] = others[i - 1]
  BY <1>1, <1>3
<1>5. \A i \in 2..(1 + Len(others)) : i - 1 \in DOMAIN others  BY <1>1
<1>6. Len(others) \in Nat  BY <1>1
<1> QED  BY <1>1, <1>2, <1>4, <1>5, <1>6


-----------------------------------------------------------------------------
(* The inductive invariant *)

\* A rule is stored when it can fire (handler._route_author refuses the others), and
\* what is stored is never edited.
EachCanFire(rules) == \A r \in ToSet(rules) : RuleRegion(r.conds) # {}

IInv == TypeOK /\ EachCanFire(table)

LEMMA TypeOKIs ==
    TypeOK <=> /\ table \in Seq(Rules) /\ UniqueIds(table)
               /\ invariants \in InvariantSets
               /\ answer.status \in {"none", "invalid", "created", "refused", "failed", "deleted"}
BY DEF TypeOK, Rules, UniqueIds

\* What is listed is part of the table, and what is acceptable can fire.
LEMMA ListedIs ==
    ASSUME TypeOK, NEW rule, NEW existing \in Listed(rule)
    PROVE  existing \in Seq(Rules) /\ ToSet(existing) \subseteq ToSet(table)
<1>1. table \in Seq(Rules)  BY TypeOKIs
<1>2. CASE existing = OfDevice(table, rule.device)  BY <1>1, <1>2, OfDeviceIs
<1>3. CASE existing = << >>  BY <1>3 DEF ToSet
<1> QED  BY <1>2, <1>3 DEF Listed

LEMMA AcceptableFires ==
    ASSUME TypeOK, NEW rule \in Rules, NEW existing \in Listed(rule), Acceptable(rule, existing)
    PROVE  RuleRegion(rule.conds) # {}
<1>1. existing \in Seq(Rules)  BY ListedIs
<1>2. 1 \in DOMAIN Checked(rule, existing) /\ Checked(rule, existing)[1] = rule  BY <1>1, CheckedIs
<1> QED  BY <1>2 DEF Acceptable, Unsatisfiable, Region

LEMMA RulesKept ==
    ASSUME IInv, NEW rule, table' = Without(table, rule)
    PROVE  table' \in Seq(Rules) /\ UniqueIds(table') /\ EachCanFire(table')
<1>1. table \in Seq(Rules) /\ UniqueIds(table)  BY TypeOKIs DEF IInv
<1>2. /\ Without(table, rule) \in Seq(Rules) /\ UniqueIds(Without(table, rule))
      /\ ToSet(Without(table, rule)) \subseteq ToSet(table)
  BY <1>1, WithoutIs
<1> QED  BY <1>2 DEF IInv, EachCanFire

LEMMA RuleAdded ==
    ASSUME IInv, NEW rule \in Rules, RuleRegion(rule.conds) # {},
           table' = Append(Without(table, rule), rule)
    PROVE  /\ table' \in Seq(Rules) /\ UniqueIds(table') /\ EachCanFire(table')
           /\ ToSet(table') = { r \in ToSet(table) : r.id # rule.id } \cup {rule}
<1> DEFINE kept == Without(table, rule)
           m == Len(kept)
<1>1. /\ kept \in Seq(Rules) /\ UniqueIds(kept)
      /\ ToSet(kept) = { r \in ToSet(table) : r.id # rule.id }
  <2>1. table \in Seq(Rules) /\ UniqueIds(table)  BY TypeOKIs DEF IInv
  <2> QED  BY <2>1, WithoutIs
<1>2. table' = Append(kept, rule)  OBVIOUS
<1> HIDE DEF kept
<1>3. /\ table' \in Seq(Rules) /\ m \in Nat
      /\ DOMAIN kept = 1..m /\ DOMAIN table' = 1..(m + 1)
      /\ \A i \in 1..m : table'[i] = kept[i]
      /\ table'[m + 1] = rule
  BY <1>1, <1>2
<1>4. 1..(m + 1) = (1..m) \cup {m + 1}  BY <1>3
<1> HIDE DEF m
<1>5. ToSet(table') = ToSet(kept) \cup {rule}  BY <1>3, <1>4 DEF ToSet
<1>6. UniqueIds(table')
  <2>1. \A i \in 1..m : kept[i].id # rule.id  BY <1>1, <1>3 DEF ToSet
  <2> QED  BY <1>1, <1>3, <1>4, <2>1 DEF UniqueIds
<1> QED  BY <1>1, <1>3, <1>5, <1>6 DEF IInv, EachCanFire

LEMMA InitHolds == Init => IInv
<1> SUFFICES ASSUME Init PROVE IInv
  OBVIOUS
<1>1. table = << >> /\ invariants \in InvariantSets /\ answer.status = "none"  BY DEF Init
<1>2. table \in Seq(Rules) /\ UniqueIds(table)  BY <1>1 DEF UniqueIds
<1>3. EachCanFire(table)  BY <1>1 DEF EachCanFire, ToSet
<1> QED  BY <1>1, <1>2, <1>3, TypeOKIs DEF IInv

LEMMA TypeOKNext ==
    TypeOK' <=> /\ table' \in Seq(Rules) /\ UniqueIds(table')
                /\ invariants' \in InvariantSets
                /\ answer'.status \in {"none", "invalid", "created", "refused", "failed", "deleted"}
BY DEF TypeOK, Rules, UniqueIds

LEMMA StepHolds == IInv /\ [Next]_vars => IInv'
<1> SUFFICES ASSUME IInv, [Next]_vars PROVE IInv'
  OBVIOUS
<1>0. /\ table \in Seq(Rules) /\ UniqueIds(table) /\ EachCanFire(table)
      /\ invariants \in InvariantSets
      /\ answer.status \in {"none", "invalid", "created", "refused", "failed", "deleted"}
      /\ TypeOK
  BY TypeOKIs DEF IInv
<1>1. CASE Redeploy  BY <1>0, <1>1, TypeOKNext DEF Redeploy, IInv, EachCanFire
<1>2. CASE Invalid  BY <1>0, <1>2, TypeOKNext DEF Invalid, IInv, EachCanFire
<1>3. ASSUME NEW rule \in Rules, Author(rule) PROVE IInv'
  <2>1. RuleRegion(rule.conds) # {}  BY <1>0, <1>3, AcceptableFires DEF Author
  <2>2. table' \in Seq(Rules) /\ UniqueIds(table') /\ EachCanFire(table')
    BY <1>3, <2>1, RuleAdded DEF Author
  <2>3. invariants' = invariants /\ answer'.status = "created"  BY <1>3 DEF Author
  <2> QED  BY <1>0, <2>2, <2>3, TypeOKNext DEF IInv, EachCanFire
<1>4. ASSUME NEW rule \in Rules, Refuse(rule) PROVE IInv'
  BY <1>0, <1>4, TypeOKNext DEF Refuse, IInv, EachCanFire
<1>5. ASSUME NEW rule \in Rules, SaveFails(rule) PROVE IInv'
  <2>1. table' \in Seq(Rules) /\ UniqueIds(table') /\ EachCanFire(table')
    BY <1>5, RulesKept DEF SaveFails
  <2>2. invariants' = invariants /\ answer'.status = "failed"  BY <1>5 DEF SaveFails
  <2> QED  BY <1>0, <2>1, <2>2, TypeOKNext DEF IInv, EachCanFire
<1>6. ASSUME NEW i \in DOMAIN table, Delete(i) PROVE IInv'
  <2>1. table' \in Seq(Rules) /\ UniqueIds(table') /\ EachCanFire(table')
    BY <1>6, RulesKept DEF Delete
  <2>2. invariants' = invariants /\ answer'.status = "deleted"  BY <1>6 DEF Delete
  <2> QED  BY <1>0, <2>1, <2>2, TypeOKNext DEF IInv, EachCanFire
<1>7. CASE UNCHANGED vars  BY <1>0, <1>7, TypeOKNext DEF vars, IInv, EachCanFire
<1> QED  BY <1>1, <1>2, <1>3, <1>4, <1>5, <1>6, <1>7 DEF Next, Rules

\* Throughout: the table holds well-formed rules, one version of each, that can fire.
\* (handler._route_author, policy_store.save_policy)
THEOREM Invariant == Spec => []IInv
BY InitHolds, StepHolds, PTL DEF Spec

\* The table is a list of validated rules without two versions of one.  (policy_store)
THEOREM TypeCorrect == Spec => []TypeOK
<1>1. IInv => TypeOK  BY DEF IInv
<1> QED  BY <1>1, Invariant, PTL


-----------------------------------------------------------------------------
(* The boxes and the evaluator *)

LEMMA TableRule ==
    ASSUME IInv, NEW i \in DOMAIN table
    PROVE  /\ table[i] \in Rules
           /\ \A j \in DOMAIN table[i].conds : Proper(table[i].conds[j])
<1>1. table \in Seq(Rules) /\ table[i] \in ToSet(table)  BY TypeOKIs DEF IInv, ToSet
<1>2. table[i] \in Rules /\ RuleRegion(table[i].conds) # {}  BY <1>1 DEF IInv, EachCanFire
<1>3. /\ table[i].conds \in Seq(ToSet(table[i].conds)) /\ Typed(table[i].conds)
  BY <1>2, RuleIs
<1> QED  BY <1>2, <1>3, TypedIsProper

\* One context lies in one box at most.
LEMMA HowMany ==
    ASSUME NEW R, NEW ctx, Once(R, ctx)
    PROVE  Cardinality({ b \in R : In(ctx, b) }) = IF Covered(R, ctx) THEN 1 ELSE 0
<1>1. CASE Covered(R, ctx)
  <2>1. PICK b \in R : In(ctx, b)  BY <1>1 DEF Covered
  <2>2. { c \in R : In(ctx, c) } = {b}  BY <2>1 DEF Once
  <2> QED  BY <1>1, <2>2, FS_Singleton
<1>2. CASE ~Covered(R, ctx)
  <2>1. { c \in R : In(ctx, c) } = {}  BY <1>2 DEF Covered
  <2> QED  BY <1>2, <2>1, FS_EmptySet
<1> QED  BY <1>1, <1>2

LEMMA RegionsAreExact == IInv => RegionExact
<1> SUFFICES ASSUME IInv, NEW i \in DOMAIN table, NEW j \in DOMAIN table, NEW ctx \in Contexts
             PROVE  LET rest == RegionMinus(Region(table, i), IF i = j THEN {} ELSE Region(table, j))
                    IN  Cardinality({b \in rest : In(ctx, b)}) =
                          IF Matches(table[i], ctx) /\ (i # j => ~Matches(table[j], ctx)) THEN 1 ELSE 0
  BY DEF RegionExact
<1> DEFINE a == Region(table, i)
           b == IF i = j THEN {} ELSE Region(table, j)
<1>1. ASSUME NEW k \in DOMAIN table
      PROVE  /\ IsFiniteSet(Region(table, k))
             /\ \A r \in Region(table, k) : IsBox(r)
             /\ Covered(Region(table, k), ctx) <=> Matches(table[k], ctx)
             /\ Once(Region(table, k), ctx)
  <2>1. table[k].conds \in Seq(ToSet(table[k].conds))  BY TableRule, RuleIs
  <2> QED  BY <2>1, TableRule, ProperRegionIs DEF Region
<1>2. IsFiniteSet(b) /\ \A r \in b : IsBox(r)  BY <1>1, FS_EmptySet
<1>3. Covered(b, ctx) <=> i # j /\ Matches(table[j], ctx)  BY <1>1 DEF Covered
<1>4. (\A r \in a : IsBox(r)) /\ (Covered(a, ctx) <=> Matches(table[i], ctx)) /\ Once(a, ctx)  BY <1>1
<1> HIDE DEF a, b
<1>5. /\ Covered(RegionMinus(a, b), ctx) <=> Covered(a, ctx) /\ ~Covered(b, ctx)
      /\ Once(RegionMinus(a, b), ctx)
  BY <1>2, <1>4, RegionMinusIs
<1>6. Cardinality({c \in RegionMinus(a, b) : In(ctx, c)}) = IF Covered(RegionMinus(a, b), ctx) THEN 1 ELSE 0
  BY <1>5, HowMany
<1>7. Cardinality({c \in RegionMinus(a, b) : In(ctx, c)}) =
         IF Matches(table[i], ctx) /\ (i # j => ~Matches(table[j], ctx)) THEN 1 ELSE 0
  BY <1>3, <1>4, <1>5, <1>6
<1> QED  BY <1>7 DEF a, b

\* The boxes of what one rule matches and another does not are disjoint, and hold the
\* contexts the evaluator says.  (rule_set_checker.rule_region, box_minus)
THEOREM BoxesExact == Spec => []RegionExact
BY Invariant, RegionsAreExact, PTL

-----------------------------------------------------------------------------
(* Authoring keeps the invariants *)

LEMMA BoxesIs ==
    ASSUME NEW rules \in Seq(Rules), NEW S \in SUBSET (DOMAIN rules \ Unsatisfiable(rules))
    PROVE  /\ IsFiniteSet(Boxes(rules, S))
           /\ \A r \in Boxes(rules, S) : IsBox(r)
           /\ \A ctx \in Contexts :
                 Covered(Boxes(rules, S), ctx) <=>
                     \E i \in S : Matches(rules[i], ctx)
<1> DEFINE boxes == [i \in S |-> Region(rules, i)]
           all == { boxes[i] : i \in S }
<1>1. ASSUME NEW i \in S
      PROVE  /\ IsFiniteSet(Region(rules, i))
             /\ \A r \in Region(rules, i) : IsBox(r)
             /\ \A ctx \in Contexts : Covered(Region(rules, i), ctx) <=> Matches(rules[i], ctx)
  <2>1. i \in DOMAIN rules /\ RuleRegion(rules[i].conds) # {}
    BY DEF Unsatisfiable, Region
  <2>2. rules[i] \in Rules  BY <2>1
  <2>3. rules[i].conds \in Seq(ToSet(rules[i].conds)) /\ Typed(rules[i].conds)  BY <2>2, RuleIs
  <2>4. \A j \in DOMAIN rules[i].conds : Proper(rules[i].conds[j])  BY <2>1, <2>3, TypedIsProper
  <2> QED  BY <2>3, <2>4, ProperRegionIs DEF Region
<1>2. IsFiniteSet(S)
  <2>1. PICK n \in Nat : DOMAIN rules = 1..n  OBVIOUS
  <2>2. S \subseteq 1..n  BY <2>1
  <2>3. IsFiniteSet(1..n)  BY FS_Interval
  <2> QED  BY <2>2, <2>3, FS_Subset
<1>3. Boxes(rules, S) = UNION all  BY DEF Boxes
<1>4. IsFiniteSet(all)
  <2> HIDE DEF boxes
  <2> QED  BY <1>2, ImageFinite
<1>5. \A T \in all : IsFiniteSet(T)  BY <1>1
<1>6. IsFiniteSet(Boxes(rules, S))
  <2> HIDE DEF all
  <2> QED  BY <1>3, <1>4, <1>5, FS_UNION
<1>7. \A r : r \in Boxes(rules, S) <=> \E i \in S : r \in Region(rules, i)  BY DEF Boxes
<1> QED  BY <1>1, <1>6, <1>7 DEF Covered

LEMMA BlocksIs ==
    ASSUME NEW rules \in Seq(Rules), NEW device
    PROVE  /\ IsFiniteSet(Boxes(rules, Blocks(rules, device)))
           /\ \A r \in Boxes(rules, Blocks(rules, device)) : IsBox(r)
           /\ \A ctx \in Contexts :
                 Covered(Boxes(rules, Blocks(rules, device)), ctx) <=>
                     \E i \in Blocks(rules, device) : Matches(rules[i], ctx)
<1>1. Blocks(rules, device) \in SUBSET (DOMAIN rules \ Unsatisfiable(rules))
  BY DEF Blocks, Judged
<1> QED  BY <1>1, BoxesIs

\* Where a block matches the rules block.
LEMMA BlockWins ==
    ASSUME NEW rules, NEW device, NEW ctx, NEW i \in DOMAIN rules,
           rules[i].device = device, rules[i].type = "block", Matches(rules[i], ctx)
    PROVE  TurnOn(rules, device, ctx).verdict = "block"
<1>1. i \in Matching(rules, device, ctx, "block")  BY DEF Matching
<1>2. "turn_on" \notin SAFE_ACTIONS  BY DEF SAFE_ACTIONS
<1> QED  BY <1>1, <1>2 DEF TurnOn, ComputeVerdict

LEMMA AuthorKeepsInvariants ==
    ASSUME IInv, NEW rule \in Rules, Author(rule), NEW inv \in invariants, NEW ctx \in Contexts,
           Matches(inv, ctx)
    PROVE  TurnOn(table', inv.device, ctx).verdict = "block"
<1>1. PICK existing \in Listed(rule) : Acceptable(rule, existing)  BY DEF Author
<1> DEFINE new == Checked(rule, existing)
           blocks == Boxes(new, Blocks(new, inv.device))
<1>2. existing \in Seq(Rules) /\ ToSet(existing) \subseteq ToSet(table)  BY ListedIs DEF IInv
<1>3. /\ new \in Seq(Rules)
      /\ \A i \in DOMAIN new : new[i] = rule \/ (new[i] \in ToSet(existing) /\ new[i].id # rule.id)
  BY <1>2, CheckedIs
<1>4. ToSet(table') = { r \in ToSet(table) : r.id # rule.id } \cup {rule}
  <2>1. RuleRegion(rule.conds) # {}  BY <1>1, AcceptableFires DEF IInv
  <2> QED  BY <2>1, RuleAdded DEF Author
<1>5. Gaps(new, inv) = {}  BY <1>1 DEF Acceptable
<1>6. /\ \A r \in RuleRegion(inv.conds) : IsBox(r)
      /\ Covered(RuleRegion(inv.conds), ctx)
  <2>1. invariants \in InvariantSets  BY TypeOKIs DEF IInv
  <2>2. /\ inv.conds \in Seq(ToSet(inv.conds)) /\ Typed(inv.conds)
        /\ \A i \in DOMAIN inv.conds :
              inv.conds[i].field \in BooleanFields => inv.conds[i].op \in {"==", "!="}
    BY <2>1, RuleSetAssumption
  <2>3. \A i \in DOMAIN inv.conds : Proper(inv.conds[i])  BY <2>2 DEF Typed, Proper
  <2> QED  BY <2>2, <2>3, ProperRegionIs
<1>7. Covered(blocks, ctx)
  <2> HIDE DEF new
  <2>1. IsFiniteSet(blocks) /\ \A r \in blocks : IsBox(r)  BY <1>3, BlocksIs
  <2>2. RegionMinus(RuleRegion(inv.conds), blocks) = {}  BY <1>5 DEF Gaps
  <2> HIDE DEF blocks
  <2>3. ~Covered(RegionMinus(RuleRegion(inv.conds), blocks), ctx)  BY <2>2 DEF Covered
  <2> QED  BY <1>6, <2>1, <2>3, RegionMinusIs
<1>8. PICK i \in Blocks(new, inv.device) : Matches(new[i], ctx)
  <2> HIDE DEF new
  <2> QED  BY <1>3, <1>7, BlocksIs
<1>9. i \in DOMAIN new /\ new[i].device = inv.device /\ new[i].type = "block"
  BY <1>8 DEF Blocks, Judged
<1>10. new[i] \in ToSet(table')
  <2> HIDE DEF new
  <2> QED  BY <1>2, <1>3, <1>4, <1>9
<1>11. PICK j \in DOMAIN table' : table'[j] = new[i]
  <2> HIDE DEF new
  <2> QED  BY <1>10 DEF ToSet
<1> HIDE DEF new
<1> QED  BY <1>8, <1>9, <1>11, BlockWins

\* A rule is stored only into a table that keeps every invariant, also when the rules
\* it was judged beside could not be listed.  (handler._route_author)
THEOREM CreatedKeeps == Spec => CreatedKeepsInvariants
<1> DEFINE Keeps == answer'.status = "created" /\ answer' # answer =>
                      \A inv \in invariants, ctx \in Contexts :
                          Matches(inv, ctx) => TurnOn(table', inv.device, ctx).verdict = "block"
<1>1. IInv /\ [Next]_vars => [Keeps]_vars
  <2> SUFFICES ASSUME IInv, Next, answer'.status = "created", answer' # answer,
                      NEW inv \in invariants, NEW ctx \in Contexts, Matches(inv, ctx)
               PROVE  TurnOn(table', inv.device, ctx).verdict = "block"
    OBVIOUS
  <2>1. PICK rule \in Rules : Author(rule)
    BY DEF Next, Redeploy, Invalid, Refuse, SaveFails, Delete, Rules
  <2> QED  BY <2>1, AuthorKeepsInvariants
<1> HIDE DEF Keeps
<1>2. Spec => [][Keeps]_vars  BY <1>1, Invariant, PTL DEF Spec
<1> QED  BY <1>2 DEF Keeps, CreatedKeepsInvariants


-----------------------------------------------------------------------------
(* The verdict depends neither on the order nor on a sensor that is gone *)

LEMMA BlockNeedsOne ==
    ASSUME NEW rules, NEW device, NEW ctx
    PROVE  TurnOn(rules, device, ctx).verdict = "block" <=> Matching(rules, device, ctx, "block") # {}
BY DEF TurnOn, ComputeVerdict, SAFE_ACTIONS, Allow, Decision

LEMMA MissingIsStable == IInv => MissingNeverBlocks
<1> SUFFICES ASSUME IInv, NEW i \in DOMAIN table, NEW ctx \in Contexts, NEW f \in Fields,
                    TurnOn(table, table[i].device, [ctx EXCEPT ![f] = Missing]).verdict = "block"
             PROVE  TurnOn(table, table[i].device, ctx).verdict = "block"
  BY DEF MissingNeverBlocks
<1> DEFINE gone == [ctx EXCEPT ![f] = Missing]
<1>0. DOMAIN ctx = Fields  BY RuleSetAssumption
<1>1. ASSUME NEW c, c.field \in Fields, ConditionHolds(c, gone) PROVE ConditionHolds(c, ctx)
  <2>1. c.field # f  BY <1>0, <1>1 DEF ConditionHolds
  <2>2. gone[c.field] = ctx[c.field]  BY <1>0, <1>1, <2>1
  <2> QED  BY <1>1, <2>2 DEF ConditionHolds
<1>2. ASSUME NEW j \in DOMAIN table, Matches(table[j], gone) PROVE Matches(table[j], ctx)
  <2>1. \A k \in DOMAIN table[j].conds : table[j].conds[k].field \in Fields
    BY TableRule DEF Proper
  <2> HIDE DEF gone
  <2> QED  BY <1>1, <1>2, <2>1 DEF Matches
<1>3. Matching(table, table[i].device, gone, "block") # {}  BY BlockNeedsOne
<1> HIDE DEF gone
<1>4. Matching(table, table[i].device, ctx, "block") # {}  BY <1>2, <1>3 DEF Matching
<1> QED  BY <1>4, BlockNeedsOne

\* The winner has the least key.
LEMMA WinnerIs ==
    ASSUME NEW rules, NEW S, S # {}, \A i \in S : rules[i].key \in Nat
    PROVE  Winner(rules, S) \in S /\ \A j \in S : rules[Winner(rules, S)].key <= rules[j].key
<1> DEFINE T == { rules[i].key : i \in S }
<1>1. T \in SUBSET Nat /\ T # {}  OBVIOUS
<1>2. PICK n \in T : \A k \in T : n <= k
  <2> HIDE DEF T
  <2> QED  BY <1>1, LeastNumber
<1>3. \E i \in S : \A j \in S : rules[i].key <= rules[j].key  BY <1>2
<1> QED  BY <1>3 DEF Winner

LEMMA ReverseIs ==
    ASSUME NEW n \in Nat, NEW rules, rules \in Seq(Rules), DOMAIN rules = 1..n
    PROVE  /\ DOMAIN Reverse(rules) = 1..n
           /\ \A i \in 1..n : n + 1 - i \in 1..n /\ Reverse(rules)[i] = rules[n + 1 - i]
           /\ \A i \in 1..n : Reverse(rules)[n + 1 - i] = rules[i]
<1>1. Len(rules) = n  OBVIOUS
<1>2. Reverse(rules) = [i \in 1..n |-> rules[(n - i) + 1]]  BY <1>1 DEF Reverse
<1>3. \A i \in 1..n : n + 1 - i \in 1..n /\ (n - i) + 1 = n + 1 - i /\ (n - (n + 1 - i)) + 1 = i
  OBVIOUS
<1> QED  BY <1>2, <1>3

LEMMA OrderIsFree == IInv => OrderFree
<1> SUFFICES ASSUME IInv, NEW i \in DOMAIN table, NEW ctx \in Contexts
             PROVE  TurnOn(table, table[i].device, ctx) = TurnOn(Reverse(table), table[i].device, ctx)
  BY DEF OrderFree
<1> DEFINE device == table[i].device
           back == Reverse(table)
           Here(type) == Matching(table, device, ctx, type)
           There(type) == Matching(back, device, ctx, type)
<1>0. table \in Seq(Rules)  BY TypeOKIs DEF IInv
<1>1. PICK n \in Nat : DOMAIN table = 1..n  BY <1>0
<1>2. /\ DOMAIN back = 1..n
      /\ \A j \in 1..n : n + 1 - j \in 1..n /\ back[j] = table[n + 1 - j]
      /\ \A j \in 1..n : back[n + 1 - j] = table[j]
  BY <1>0, <1>1, ReverseIs
<1>3. ASSUME NEW j \in 1..n
      PROVE  /\ table[j] \in Rules /\ back[j] \in Rules
             /\ table[j].key \in Nat /\ back[j].key \in Nat
  BY <1>0, <1>1, <1>2, RuleIs
<1> HIDE DEF back, device
<1>4. ASSUME NEW type
      PROVE  /\ \A j \in Here(type) : j \in 1..n /\ \E k \in There(type) : back[k] = table[j]
             /\ \A k \in There(type) : k \in 1..n /\ \E j \in Here(type) : table[j] = back[k]
  BY <1>1, <1>2 DEF Matching
<1>5. ASSUME NEW type, Here(type) # {}
      PROVE  LET w == Winner(table, Here(type))
                 v == Winner(back, There(type))
             IN  table[w].key = back[v].key /\ table[w].params = back[v].params
  <2> DEFINE w == Winner(table, Here(type))
             v == Winner(back, There(type))
  <2>1. There(type) # {}  BY <1>4, <1>5
  <2>2. \A j \in Here(type) : table[j].key \in Nat  BY <1>3, <1>4
  <2>3. \A k \in There(type) : back[k].key \in Nat  BY <1>3, <1>4
  <2> HIDE DEF Here, There
  <2>4. w \in Here(type) /\ \A j \in Here(type) : table[w].key <= table[j].key
    BY <1>5, <2>2, WinnerIs
  <2>5. v \in There(type) /\ \A k \in There(type) : back[v].key <= back[k].key
    BY <2>1, <2>3, WinnerIs
  <2> HIDE DEF w, v
  <2>6. table[w].key <= back[v].key /\ back[v].key <= table[w].key  BY <1>4, <2>4, <2>5
  <2>7. table[w].key = back[v].key  BY <1>3, <1>4, <2>4, <2>5, <2>6
  <2>8. table[w].params = back[v].params  BY <1>3, <1>4, <2>4, <2>5, <2>7, RuleIs
  <2> QED  BY <2>7, <2>8 DEF w, v
<1>6. \A type : Here(type) = {} <=> There(type) = {}  BY <1>4
<1> HIDE DEF Here, There
<1>7. /\ TurnOn(table, device, ctx) =
            IF Here("block") # {} THEN [verdict |-> "block", key |-> table[Winner(table, Here("block"))].key]
            ELSE IF Here("modify") # {} THEN Decision("modify", table[Winner(table, Here("modify"))])
            ELSE Allow
      /\ TurnOn(back, device, ctx) =
            IF There("block") # {} THEN [verdict |-> "block", key |-> back[Winner(back, There("block"))].key]
            ELSE IF There("modify") # {} THEN Decision("modify", back[Winner(back, There("modify"))])
            ELSE Allow
  BY DEF TurnOn, ComputeVerdict, SAFE_ACTIONS, Here, There
<1>8. TurnOn(table, device, ctx) = TurnOn(back, device, ctx)
  BY <1>5, <1>6, <1>7 DEF Decision
<1> QED  BY <1>8 DEF back, device

\* What is decided depends neither on the order in which the table lists the rules nor
\* on a sensor that is gone, but for a block that stops.  (evaluator.compute_verdict)
THEOREM VerdictIsStable == Spec => []VerdictStable
<1>1. IInv => VerdictStable  BY MissingIsStable, OrderIsFree DEF VerdictStable
<1> QED  BY <1>1, Invariant, PTL


-----------------------------------------------------------------------------
(* Witnesses: a box of a region is not empty and shows a context in it *)

Named == Labels \ {"other"}

\* What the conditions of a rule bring to a field.
IsPlain(f, d) ==
    IF f \in StringFields
        THEN d.all \in BOOLEAN /\ d.inc \subseteq Named /\ d.exc \subseteq Named
    ELSE IF f \in BooleanFields THEN d \subseteq BOOLEAN
    ELSE d \in Intervals /\ (f \notin IntegerFields => d.lo % 2 = 0 /\ d.hi % 2 = 0)

\* What a box of a region holds in a field.
IsFine(f, d) ==
    /\ IsPlain(f, d) /\ ~EmptyDim(f, d)
    /\ f \in NumericFields => Domains[f].lo <= d.lo /\ d.hi <= Domains[f].hi

LEMMA PlainIsDim == \A f, d : IsPlain(f, d) => IsDim(f, d)
BY DEF IsPlain, IsDim

LEMMA FieldIs ==
    ASSUME NEW f \in Fields
    PROVE  /\ f \in StringFields \/ f \in BooleanFields => f \notin NumericFields
           /\ f \notin StringFields /\ f \notin BooleanFields =>
                 /\ f \in NumericFields
                 /\ Domains[f].lo \in Int /\ Domains[f].hi \in Int /\ Domains[f].lo <= Domains[f].hi
                 /\ Domains[f].lo % 2 = 0 /\ Domains[f].hi % 2 = 0
<1>1. f \in StringFields \/ f \in BooleanFields => f \notin NumericFields  BY RegionsAssumption
<1>2. f \notin StringFields /\ f \notin BooleanFields => f \in NumericFields  BY FieldKinds
<1> QED  BY <1>1, <1>2, RegionsAssumption

LEMMA FullDimFine == \A f \in Fields : IsFine(f, FullDim(f))
<1> SUFFICES ASSUME NEW f \in Fields PROVE IsFine(f, FullDim(f))
  OBVIOUS
<1>1. CASE f \in StringFields
  BY <1>1, FieldIs DEF FullDim, Every, IsFine, IsPlain, EmptyDim
<1>2. CASE f \notin StringFields /\ f \in BooleanFields
  BY <1>2, FieldIs DEF FullDim, IsFine, IsPlain, EmptyDim
<1>3. CASE f \notin StringFields /\ f \notin BooleanFields
  <2> DEFINE lo == Domains[f].lo
             hi == Domains[f].hi
             d == I(lo, hi, TRUE, TRUE)
  <2>1. lo \in Int /\ hi \in Int /\ lo <= hi /\ lo % 2 = 0 /\ hi % 2 = 0  BY <1>3, FieldIs
  <2>2. FullDim(f) = d  BY <1>3 DEF FullDim
  <2> HIDE DEF lo, hi
  <2>3. d \in Intervals /\ d.lo = lo /\ d.hi = hi /\ d.loc = TRUE /\ d.hic = TRUE
    BY <2>1 DEF I, Intervals
  <2> HIDE DEF d
  <2>4. IsPlain(f, d)  BY <1>3, <2>1, <2>3 DEF IsPlain
  <2>5. ~EmptyDim(f, d)  BY <1>3, <2>1, <2>3 DEF EmptyDim, EmptyInterval, IntLo, IntHi
  <2> QED  BY <2>1, <2>2, <2>3, <2>4, <2>5 DEF IsFine, lo, hi
<1> QED  BY <1>1, <1>2, <1>3

LEMMA CommonIntervalIs ==
    ASSUME NEW a \in Intervals, NEW b \in Intervals
    PROVE  /\ CommonInterval(a, b) \in Intervals
           /\ CommonInterval(a, b).lo \in {a.lo, b.lo} /\ CommonInterval(a, b).hi \in {a.hi, b.hi}
           /\ a.lo <= CommonInterval(a, b).lo /\ b.lo <= CommonInterval(a, b).lo
           /\ CommonInterval(a, b).hi <= a.hi /\ CommonInterval(a, b).hi <= b.hi
BY DEF CommonInterval, I, Intervals

LEMMA CommonFine ==
    ASSUME NEW f \in Fields, NEW a, NEW b, IsFine(f, a), IsPlain(f, b),
           ~EmptyDim(f, CommonDim(f, a, b))
    PROVE  IsFine(f, CommonDim(f, a, b))
<1>1. CASE f \in StringFields
  BY <1>1, FieldIs DEF CommonDim, CommonLabels, IsFine, IsPlain
<1>2. CASE f \notin StringFields /\ f \in BooleanFields
  BY <1>2, FieldIs DEF CommonDim, IsFine, IsPlain
<1>3. CASE f \notin StringFields /\ f \notin BooleanFields
  <2> DEFINE c == CommonInterval(a, b)
  <2>1. /\ a \in Intervals /\ b \in Intervals
        /\ f \notin IntegerFields => a.lo % 2 = 0 /\ a.hi % 2 = 0 /\ b.lo % 2 = 0 /\ b.hi % 2 = 0
        /\ Domains[f].lo <= a.lo /\ a.hi <= Domains[f].hi
        /\ Domains[f].lo \in Int /\ Domains[f].hi \in Int
    BY <1>3, FieldIs DEF IsFine, IsPlain
  <2>2. /\ c \in Intervals
        /\ c.lo \in {a.lo, b.lo} /\ a.lo <= c.lo
        /\ c.hi \in {a.hi, b.hi} /\ c.hi <= a.hi
    BY <2>1, CommonIntervalIs
  <2>3. CommonDim(f, a, b) = c  BY <1>3 DEF CommonDim
  <2> HIDE DEF c
  <2>4. f \notin IntegerFields => c.lo % 2 = 0 /\ c.hi % 2 = 0  BY <2>1, <2>2
  <2>5. Domains[f].lo <= c.lo /\ c.hi <= Domains[f].hi  BY <2>1, <2>2 DEF Intervals
  <2> QED  BY <1>3, <2>2, <2>3, <2>4, <2>5 DEF IsFine, IsPlain
<1> QED  BY <1>1, <1>2, <1>3

LEMMA MinusFine ==
    ASSUME NEW f \in Fields, NEW a, NEW b, IsFine(f, a), IsPlain(f, b), NEW part \in DimMinus(f, a, b)
    PROVE  IsFine(f, part)
<1>0. ~EmptyDim(f, part)  BY DEF DimMinus
<1>1. CASE f \in StringFields
  <2>1. part = CommonLabels(a, OtherLabels(b))  BY <1>1 DEF DimMinus
  <2> QED  BY <1>0, <1>1, <2>1, FieldIs DEF OtherLabels, Only, AllBut, Every, CommonLabels, IsFine, IsPlain
<1>2. CASE f \notin StringFields /\ f \in BooleanFields
  <2>1. part = a \ b  BY <1>2 DEF DimMinus
  <2> QED  BY <1>0, <1>2, <2>1, FieldIs DEF IsFine, IsPlain
<1>3. CASE f \notin StringFields /\ f \notin BooleanFields
  <2>1. /\ a \in Intervals /\ b \in Intervals
        /\ f \notin IntegerFields => a.lo % 2 = 0 /\ a.hi % 2 = 0 /\ b.lo % 2 = 0 /\ b.hi % 2 = 0
        /\ Domains[f].lo <= a.lo /\ a.hi <= Domains[f].hi
        /\ Domains[f].lo \in Int /\ Domains[f].hi \in Int
    BY <1>3, FieldIs DEF IsFine, IsPlain
  <2>2. part \in IntervalMinus(a, b)  BY <1>3 DEF DimMinus
  <2>3. \/ part = CommonInterval(I(a.lo, b.lo, a.loc, ~b.loc), a)
        \/ part = CommonInterval(I(b.hi, a.hi, ~b.hic, a.hic), a)
    BY <2>2 DEF IntervalMinus
  <2>4. /\ part \in Intervals
        /\ part.lo \in {a.lo, b.hi} /\ a.lo <= part.lo
        /\ part.hi \in {a.hi, b.lo} /\ part.hi <= a.hi
    <3> DEFINE below == I(a.lo, b.lo, a.loc, ~b.loc)
               above == I(b.hi, a.hi, ~b.hic, a.hic)
    <3>1. /\ below \in Intervals /\ below.lo = a.lo /\ below.hi = b.lo
          /\ above \in Intervals /\ above.lo = b.hi /\ above.hi = a.hi
      BY <2>1 DEF I, Intervals
    <3>2. part = CommonInterval(below, a) \/ part = CommonInterval(above, a)  BY <2>3
    <3> HIDE DEF below, above
    <3>3. CASE part = CommonInterval(below, a)  BY <2>1, <3>1, <3>3, CommonIntervalIs
    <3>4. CASE part = CommonInterval(above, a)  BY <2>1, <3>1, <3>4, CommonIntervalIs
    <3> QED  BY <3>2, <3>3, <3>4
  <2>5. f \notin IntegerFields => part.lo % 2 = 0 /\ part.hi % 2 = 0  BY <2>1, <2>4
  <2>6. Domains[f].lo <= part.lo /\ part.hi <= Domains[f].hi  BY <2>1, <2>4 DEF Intervals
  <2> QED  BY <1>0, <1>3, <2>4, <2>5, <2>6 DEF IsFine, IsPlain
<1> QED  BY <1>1, <1>2, <1>3


\* A condition of a typed rule: thresholds on real-valued fields are even, labels named.
Sharp(c) ==
    /\ Proper(c)
    /\ c.field \in NumericFields \ IntegerFields => c.value % 2 = 0
    /\ c.field \in StringFields => c.value \in Named

LEMMA InfEven == INF % 2 = 0 /\ (-INF) % 2 = 0
BY SMT DEF INF

LEMMA ConditionPlain ==
    ASSUME NEW c, Sharp(c), NEW d \in ConditionDims(c)
    PROVE  IsPlain(c.field, d)
<1> DEFINE f == c.field
<1>0. f \in Fields /\ Proper(c)  BY DEF Sharp, Proper
<1>1. CASE f \in StringFields
  <2>1. c.value \in Named  BY <1>1 DEF Sharp
  <2>2. d = Only({c.value}) \/ d = AllBut({c.value})  BY <1>1 DEF ConditionDims
  <2>3. CASE d = Only({c.value})
    <3>1. d.all = FALSE /\ d.inc = {c.value} /\ d.exc = {}  BY <2>3 DEF Only
    <3> QED  BY <1>1, <2>1, <3>1 DEF IsPlain
  <2>4. CASE d = AllBut({c.value})
    <3>1. d.all = TRUE /\ d.inc = {} /\ d.exc = {c.value}  BY <2>4 DEF AllBut, Every
    <3> QED  BY <1>1, <2>1, <3>1 DEF IsPlain
  <2> QED  BY <2>2, <2>3, <2>4
<1>2. CASE f \notin StringFields /\ f \in BooleanFields
  <2>1. c.value \in BOOLEAN  BY <1>0, <1>2 DEF Proper
  <2>2. d = {c.value} \/ d = {~c.value}  BY <1>2 DEF ConditionDims
  <2>3. d \subseteq BOOLEAN
    <3> DEFINE other == ~c.value
    <3>1. other \in BOOLEAN  OBVIOUS
    <3>2. d = {c.value} \/ d = {other}  BY <2>2
    <3> HIDE DEF other
    <3> QED  BY <2>1, <3>1, <3>2, Zenon
  <2> QED  BY <1>2, <2>3 DEF IsPlain
<1>3. CASE f \notin StringFields /\ f \notin BooleanFields
  <2> DEFINE x == c.value
  <2>1. f \in NumericFields /\ x \in Int /\ c.op \in {"<", "<=", ">", ">=", "==", "!="}
    BY <1>0, <1>3, FieldIs DEF Proper
  <2>2. d \in NumericDims(c.op, x)  BY <1>3 DEF ConditionDims
  <2>3. d.lo \in {x, INF, -INF} /\ d.hi \in {x, INF, -INF}
    <3> HIDE DEF x
    <3>1. CASE c.op = ">"  BY <2>2, <3>1 DEF NumericDims, I
    <3>2. CASE c.op = ">="  BY <2>2, <3>2 DEF NumericDims, I
    <3>3. CASE c.op = "<"  BY <2>2, <3>3 DEF NumericDims, I
    <3>4. CASE c.op = "<="  BY <2>2, <3>4 DEF NumericDims, I
    <3>5. CASE c.op = "=="  BY <2>2, <3>5 DEF NumericDims, I
    <3>6. CASE c.op = "!="  BY <2>2, <3>6 DEF NumericDims, I
    <3> QED  BY <2>1, <3>1, <3>2, <3>3, <3>4, <3>5, <3>6
  <2>4. d \in Intervals  BY <2>1, <2>2, NumericDimsIs
  <2>5. f \notin IntegerFields => x % 2 = 0  BY <2>1 DEF Sharp
  <2> HIDE DEF x
  <2>6. f \notin IntegerFields => d.lo % 2 = 0 /\ d.hi % 2 = 0  BY <2>3, <2>5, InfEven
  <2> QED  BY <1>3, <2>4, <2>6 DEF IsPlain
<1> QED  BY <1>1, <1>2, <1>3

LEMMA IntegerSample ==
    ASSUME NEW d \in Intervals, NEW prefer \in Int, prefer % 2 = 0, ~EmptyInterval(d, TRUE)
    PROVE  /\ SampleInterval(d, TRUE, prefer) \in Int
           /\ SampleInterval(d, TRUE, prefer) % 2 = 0
           /\ InInterval(SampleInterval(d, TRUE, prefer), d)
           /\ d.lo <= SampleInterval(d, TRUE, prefer) /\ SampleInterval(d, TRUE, prefer) <= d.hi
<1> DEFINE v == SampleInterval(d, TRUE, prefer)
           lo == IntLo(d)
           hi == IntHi(d)
<1>1. /\ lo \in Int /\ lo % 2 = 0 /\ lo >= d.lo /\ (lo = d.lo => d.loc)
      /\ hi \in Int /\ hi % 2 = 0 /\ hi <= d.hi /\ (hi = d.hi => d.hic)
  BY DEF IntLo, IntHi, Intervals
<1>2. lo <= hi  BY <1>1 DEF EmptyInterval
<1>3. v = IF prefer < lo THEN lo ELSE IF prefer > hi THEN hi ELSE prefer
  BY DEF SampleInterval
<1> HIDE DEF lo, hi
<1>4. \A w \in Int : lo <= w /\ w <= hi => InInterval(w, d) /\ d.lo <= w /\ w <= d.hi
  BY <1>1 DEF InInterval, Intervals
<1> HIDE DEF v
<1>5. v \in Int /\ v % 2 = 0 /\ lo <= v /\ v <= hi  BY <1>1, <1>2, <1>3
<1> QED  BY <1>4, <1>5 DEF v

LEMMA RealSample ==
    ASSUME NEW d \in Intervals, d.lo % 2 = 0, d.hi % 2 = 0, NEW prefer \in Int,
           ~EmptyInterval(d, FALSE)
    PROVE  /\ SampleInterval(d, FALSE, prefer) \in Int
           /\ InInterval(SampleInterval(d, FALSE, prefer), d)
           /\ d.lo <= SampleInterval(d, FALSE, prefer) /\ SampleInterval(d, FALSE, prefer) <= d.hi
<1> DEFINE v == SampleInterval(d, FALSE, prefer)
           mid == (d.lo + d.hi) \div 2
           Good == v \in Int /\ InInterval(v, d) /\ d.lo <= v /\ v <= d.hi
<1> SUFFICES Good
  OBVIOUS
<1>1. d.lo \in Int /\ d.hi \in Int /\ d.loc \in BOOLEAN /\ d.hic \in BOOLEAN  BY DEF Intervals
<1>2. d.lo <= d.hi /\ (d.lo = d.hi => d.loc /\ d.hic)  BY <1>1 DEF EmptyInterval
<1>3. d.lo < d.hi => d.lo + 2 <= d.hi  BY <1>1
<1>4. d.lo < d.hi => mid \in Int /\ d.lo + 1 <= mid /\ mid <= d.hi - 1  BY <1>1, <1>3
<1>5. CASE \/ d.lo < prefer /\ prefer < d.hi
           \/ prefer = d.lo /\ d.loc
           \/ prefer = d.hi /\ d.hic
  <2>1. v = prefer  BY <1>5 DEF SampleInterval
  <2> HIDE DEF v
  <2> QED  BY <1>1, <1>2, <1>5, <2>1 DEF InInterval
<1>6. CASE ~(\/ d.lo < prefer /\ prefer < d.hi
             \/ prefer = d.lo /\ d.loc
             \/ prefer = d.hi /\ d.hic)
  <2>1. v = IF prefer <= d.lo THEN IF d.loc THEN d.lo ELSE Min({d.lo + 1, mid})
            ELSE IF d.hic THEN d.hi ELSE Max({d.hi - 1, mid})
    BY <1>6 DEF SampleInterval
  <2> HIDE DEF v
  <2>2. CASE prefer <= d.lo /\ d.loc
    <3>1. v = d.lo  BY <2>1, <2>2
    <3> QED  BY <1>1, <1>2, <2>2, <3>1 DEF InInterval
  <2>3. CASE prefer <= d.lo /\ ~d.loc
    <3>1. d.lo < d.hi  BY <1>1, <1>2, <2>3
    <3>2. v = Min({d.lo + 1, mid})  BY <2>1, <2>3
    <3> HIDE DEF mid
    <3>3. v = d.lo + 1  BY <1>1, <1>4, <3>1, <3>2 DEF Min
    <3> QED  BY <1>1, <1>3, <3>1, <3>3 DEF InInterval
  <2>4. CASE ~(prefer <= d.lo) /\ d.hic
    <3>1. v = d.hi  BY <2>1, <2>4
    <3> QED  BY <1>1, <1>2, <2>4, <3>1 DEF InInterval
  <2>5. CASE ~(prefer <= d.lo) /\ ~d.hic
    <3>1. d.lo < d.hi  BY <1>1, <1>2, <2>5
    <3>2. v = Max({d.hi - 1, mid})  BY <2>1, <2>5
    <3> HIDE DEF mid
    <3>3. v = d.hi - 1  BY <1>1, <1>4, <3>1, <3>2 DEF Max
    <3> QED  BY <1>1, <1>3, <3>1, <3>3 DEF InInterval
  <2> QED  BY <1>1, <2>2, <2>3, <2>4, <2>5
<1> QED  BY <1>5, <1>6


LEMMA TrueOrFalse == \A p \in BOOLEAN : p = TRUE \/ p = FALSE
OBVIOUS

\* A sample lies in the field's range and in its dimension.
LEMMA SampleIs ==
    ASSUME NEW f \in Fields, NEW d, IsFine(f, d)
    PROVE  SampleDim(f, d) \in FieldValues(f) /\ InDim(f, SampleDim(f, d), d)
<1>1. CASE f \in StringFields
  <2>1. /\ d.all \in BOOLEAN /\ d.inc \subseteq Named /\ d.exc \subseteq Named
        /\ ~(~d.all /\ d.inc \subseteq d.exc)
    BY <1>1 DEF IsFine, IsPlain, EmptyDim
  <2>2. {"unknown", "other"} \subseteq Labels /\ Named \subseteq Labels  BY RuleSetAssumption DEF Named
  <2>3. CASE ~d.all
    <3> DEFINE l == CHOOSE x \in d.inc \ d.exc : TRUE
    <3>1. l \in d.inc \ d.exc  BY <2>1, <2>3
    <3>2. SampleDim(f, d) = l  BY <1>1, <2>1, <2>3 DEF SampleDim
    <3> HIDE DEF l
    <3>3. l \in Labels  BY <2>1, <2>2, <3>1
    <3> QED  BY <1>1, <3>1, <3>2, <3>3 DEF FieldValues, InDim
  <2>4. CASE d.all
    <3> DEFINE l == IF "unknown" \notin d.exc THEN "unknown" ELSE "other"
    <3>1. SampleDim(f, d) = l  BY <1>1, <2>4 DEF SampleDim
    <3>2. l \in Labels /\ l \notin d.exc  BY <2>1, <2>2 DEF Named
    <3> HIDE DEF l
    <3> QED  BY <1>1, <2>4, <3>1, <3>2 DEF FieldValues, InDim
  <2> QED  BY <2>3, <2>4
<1>2. CASE f \notin StringFields /\ f \in BooleanFields
  <2>1. d \subseteq BOOLEAN /\ d # {}  BY <1>2 DEF IsFine, IsPlain, EmptyDim
  <2>2. SampleDim(f, d) = (TRUE \in d)  BY <1>2 DEF SampleDim
  <2>3. (TRUE \in d) \in d /\ (TRUE \in d) \in BOOLEAN
    <3> DEFINE x == TRUE \in d
    <3>1. x \in BOOLEAN /\ (x <=> TRUE \in d)  OBVIOUS
    <3> HIDE DEF x
    <3>2. x = TRUE => x \in d  BY <3>1
    <3>3. x = FALSE => x \in d  BY <2>1, <3>1
    <3>4. x \in d  BY <3>1, <3>2, <3>3, TrueOrFalse
    <3> QED  BY <3>1, <3>4 DEF x
  <2> QED  BY <1>2, <2>2, <2>3 DEF FieldValues, InDim
<1>3. CASE f \notin StringFields /\ f \notin BooleanFields
  <2>1. /\ f \in NumericFields /\ Domains[f].lo \in Int /\ Domains[f].hi \in Int
        /\ d \in Intervals /\ (f \notin IntegerFields => d.lo % 2 = 0 /\ d.hi % 2 = 0)
        /\ ~EmptyInterval(d, f \in IntegerFields)
        /\ Domains[f].lo <= d.lo /\ d.hi <= Domains[f].hi
    BY <1>3, FieldIs DEF IsFine, IsPlain, EmptyDim
  <2> DEFINE v == SampleDim(f, d)
             Good == /\ v \in Int /\ (f \in IntegerFields => v % 2 = 0) /\ InInterval(v, d)
                     /\ d.lo <= v /\ v <= d.hi
  <2>2. ASSUME f \in IntegerFields PROVE Good
    <3>1. (f \in IntegerFields) = TRUE  BY <2>2
    <3>2. v = SampleInterval(d, TRUE, 2)  BY <1>3, <2>2, <3>1 DEF SampleDim, Typical
    <3>3. ~EmptyInterval(d, TRUE)  BY <2>1, <3>1
    <3>4. 2 \in Int /\ 2 % 2 = 0  OBVIOUS
    <3> HIDE DEF v
    <3> QED  BY <2>1, <3>2, <3>3, <3>4, IntegerSample
  <2>3. ASSUME f \notin IntegerFields PROVE Good
    <3>1. (f \in IntegerFields) = FALSE  BY <2>3
    <3>2. v = SampleInterval(d, FALSE, 3)  BY <1>3, <2>3, <3>1 DEF SampleDim, Typical
    <3>3. ~EmptyInterval(d, FALSE)  BY <2>1, <3>1
    <3>4. d.lo % 2 = 0 /\ d.hi % 2 = 0 /\ 3 \in Int  BY <2>1, <2>3
    <3> HIDE DEF v
    <3>5. /\ v \in Int /\ InInterval(v, d)
          /\ d.lo <= v /\ v <= d.hi
      BY <2>1, <3>2, <3>3, <3>4, RealSample
    <3> QED  BY <2>3, <3>5
  <2>4. Good  BY <2>2, <2>3
  <2> HIDE DEF v
  <2>5. v \in FieldValues(f)
    <3>1. v \in Domains[f].lo..Domains[f].hi  BY <2>1, <2>4 DEF Intervals
    <3> QED  BY <1>3, <2>4, <3>1 DEF FieldValues
  <2>6. InDim(f, v, d)  BY <1>3, <2>4 DEF InDim, InInterval
  <2> QED  BY <2>5, <2>6 DEF v
<1> QED  BY <1>1, <1>2, <1>3

IsFineBox(b) == DOMAIN b = Fields /\ \A f \in Fields : IsFine(f, b[f])

LEMMA FineIsBox == \A b : IsFineBox(b) => IsBox(b)
BY PlainIsDim DEF IsFineBox, IsFine, IsBox

LEMMA FieldsFinite == IsFiniteSet(Fields)
<1>1. PICK n \in Nat : DOMAIN FieldOrder = 1..n  BY RegionsAssumption
<1>2. Fields = { FieldOrder[i] : i \in 1..n }  BY <1>1 DEF Fields, ToSet
<1>3. IsFiniteSet(1..n)  BY FS_Interval
<1>4. IsFiniteSet({ FieldOrder[i] : i \in 1..n })  BY <1>3, ImageFinite
<1> QED  BY <1>2, <1>4

\* The witness is a context, reached by setting one field after another, and in the box.
LEMMA WitnessIs ==
    ASSUME NEW b, IsFineBox(b)
    PROVE  Witness(b) \in Contexts /\ In(Witness(b), b)
<1> DEFINE w == Witness(b)
<1>1. \A f \in Fields : w[f] \in FieldValues(f) /\ InDim(f, w[f], b[f])
  <2>1. \A f \in Fields : w[f] = SampleDim(f, b[f])  BY DEF Witness
  <2> HIDE DEF w
  <2> QED  BY <2>1, SampleIs DEF IsFineBox
<1>2. w = [f \in Fields |-> w[f]]  BY DEF Witness
<1> HIDE DEF w
<1>3. PICK some \in Contexts : some = [f \in Fields |-> some[f]]  BY RuleSetAssumption
<1> DEFINE Mixed(S) == [f \in Fields |-> IF f \in S THEN w[f] ELSE some[f]]
           G == { S \in SUBSET Fields : Mixed(S) \in Contexts }
<1>4. {} \in G
  <2>1. Mixed({}) = some  BY <1>3
  <2> QED  BY <2>1
<1>5. ASSUME NEW S \in SUBSET Fields, S # {}, \A x \in S : S \ {x} \in G
      PROVE  S \in G
  <2>1. PICK x \in S : S \ {x} \in G  BY <1>5
  <2>2. Mixed(S \ {x}) \in Contexts /\ x \in Fields  BY <2>1
  <2>3. Mixed(S) = [Mixed(S \ {x}) EXCEPT ![x] = w[x]]  BY <2>1
  <2> HIDE DEF Mixed
  <2>4. \A c \in Contexts : \A v \in FieldValues(x) : [c EXCEPT ![x] = v] \in Contexts
    BY <2>2, RuleSetAssumption
  <2>5. w[x] \in FieldValues(x)  BY <1>1, <2>2
  <2>6. [Mixed(S \ {x}) EXCEPT ![x] = w[x]] \in Contexts  BY <2>2, <2>4, <2>5
  <2>7. Mixed(S) \in Contexts  BY <2>3, <2>6
  <2> QED  BY <2>7
<1>6. G = SUBSET Fields
  <2> HIDE DEF G
  <2>1. G \in SUBSET SUBSET Fields  BY DEF G
  <2> QED  BY <1>4, <1>5, <2>1, FieldsFinite, SubsetInduction
<1>7. Mixed(Fields) \in Contexts  BY <1>6
<1>8. Mixed(Fields) = w  BY <1>2
<1>9. In(w, b)  BY <1>1, InIs
<1> QED  BY <1>7, <1>8, <1>9 DEF w


\* Every step of the region arithmetic keeps boxes fine.
LEMMA CommonBoxFine ==
    ASSUME NEW a, NEW b, IsFineBox(a), IsFineBox(b), ~EmptyBox(CommonBox(a, b))
    PROVE  IsFineBox(CommonBox(a, b))
<1> SUFFICES ASSUME NEW f \in Fields PROVE IsFine(f, CommonBox(a, b)[f])
  BY DEF IsFineBox, CommonBox
<1>1. CommonBox(a, b)[f] = CommonDim(f, a[f], b[f])  BY DEF CommonBox
<1>2. ~EmptyDim(f, CommonDim(f, a[f], b[f]))  BY <1>1 DEF EmptyBox
<1>3. IsFine(f, a[f]) /\ IsPlain(f, b[f])  BY DEF IsFineBox, IsFine
<1> QED  BY <1>1, <1>2, <1>3, CommonFine

LEMMA BoxMinusFine ==
    ASSUME NEW a, NEW b, IsFineBox(a), IsFineBox(b), NEW r \in BoxMinus(a, b)
    PROVE  IsFineBox(r)
<1>1. CASE EmptyBox(CommonBox(a, b))
  BY <1>1 DEF BoxMinus
<1>2. CASE ~EmptyBox(CommonBox(a, b))
  <2>1. BoxMinus(a, b) = UNION { { Split(a, b, g, part) : part \in DimMinus(g, a[g], b[g]) } : g \in Fields }
    BY <1>2 DEF BoxMinus, Split
  <2>2. PICK g \in Fields : r \in { Split(a, b, g, part) : part \in DimMinus(g, a[g], b[g]) }
    BY <2>1
  <2>3. PICK part \in DimMinus(g, a[g], b[g]) : r = Split(a, b, g, part)  BY <2>2
  <2>4. DOMAIN r = Fields  BY <2>3 DEF Split
  <2>5. ASSUME NEW f \in Fields PROVE IsFine(f, r[f])
    <3>1. IsFine(f, a[f]) /\ IsPlain(f, b[f])  BY DEF IsFineBox, IsFine
    <3>2. CASE Before(f, g)
      <4>1. r[f] = CommonDim(f, a[f], b[f])  BY <2>3, <3>2 DEF Split
      <4>2. CommonBox(a, b)[f] = CommonDim(f, a[f], b[f])  BY DEF CommonBox
      <4>3. ~EmptyDim(f, CommonDim(f, a[f], b[f]))  BY <1>2, <4>2 DEF EmptyBox
      <4> QED  BY <3>1, <4>1, <4>3, CommonFine
    <3>3. CASE ~Before(f, g) /\ f = g
      <4>1. r[f] = part  BY <2>3, <3>3 DEF Split
      <4> QED  BY <3>1, <3>3, <4>1, MinusFine
    <3>4. CASE ~Before(f, g) /\ f # g
      <4>1. r[f] = a[f]  BY <2>3, <3>4 DEF Split
      <4> QED  BY <3>1, <4>1
    <3> QED  BY <3>2, <3>3, <3>4
  <2> QED  BY <2>4, <2>5 DEF IsFineBox
<1> QED  BY <1>1, <1>2

LEMMA RegionMinusFine ==
    ASSUME NEW R, NEW boxes, IsFiniteSet(boxes),
           \A r \in R : IsFineBox(r), \A b \in boxes : IsFineBox(b)
    PROVE  \A r \in RegionMinus(R, boxes) : IsFineBox(r)
<1>1. PICK h : IsCutting(h, R, boxes) /\ RegionMinus(R, boxes) = h[boxes]  BY MinusCuts
<1> DEFINE G == { s \in SUBSET boxes : \A r \in h[s] : IsFineBox(r) }
<1>2. {} \in G
  <2>1. h[{}] = R  BY <1>1 DEF IsCutting, CutStep
  <2> QED  BY <2>1
<1>3. ASSUME NEW s \in SUBSET boxes, s # {}, \A x \in s : s \ {x} \in G
      PROVE  s \in G
  <2> DEFINE b == AnyOf(s)
             T == h[s \ {b}]
  <2>1. b \in s  BY <1>3 DEF AnyOf
  <2>2. h[s] = Cut(T, b)  BY <1>1, <1>3 DEF IsCutting, CutStep
  <2>3. \A r \in T : IsFineBox(r)  BY <1>3, <2>1
  <2>4. IsFineBox(b)  BY <2>1
  <2> HIDE DEF b, T
  <2>5. \A r \in h[s] : IsFineBox(r)  BY <2>2, <2>3, <2>4, BoxMinusFine DEF Cut
  <2> QED  BY <2>5
<1>4. G = SUBSET boxes
  <2> HIDE DEF G
  <2>1. G \in SUBSET SUBSET boxes  BY DEF G
  <2> QED  BY <1>2, <1>3, <2>1, SubsetInduction
<1> QED  BY <1>1, <1>4

LEMMA NarrowFine ==
    ASSUME NEW R, \A r \in R : IsFineBox(r), NEW c, Sharp(c), NEW nb \in Narrow(R, c)
    PROVE  IsFineBox(nb)
<1> DEFINE g == c.field
<1>1. g \in Fields  BY DEF Sharp, Proper
<1>2. PICK b \in R, d \in ConditionDims(c) :
          /\ nb = [f \in Fields |-> IF f = g THEN CommonDim(f, b[f], d) ELSE b[f]]
          /\ ~EmptyDim(g, nb[g])
  BY DEF Narrow
<1>3. DOMAIN nb = Fields /\ nb[g] = CommonDim(g, b[g], d)  BY <1>1, <1>2
<1>4. \A f \in Fields : f # g => nb[f] = b[f]  BY <1>2
<1>5. IsPlain(g, d)  BY ConditionPlain
<1> HIDE DEF g
<1>6. IsFine(g, nb[g])  BY <1>1, <1>2, <1>3, <1>5, CommonFine DEF IsFineBox
<1> QED  BY <1>3, <1>4, <1>6 DEF IsFineBox

LEMMA RuleRegionFine ==
    ASSUME NEW n \in Nat, NEW conds, DOMAIN conds = 1..n, \A i \in 1..n : Sharp(conds[i])
    PROVE  \A r \in RuleRegion(conds) : IsFineBox(r)
<1>1. PICK h : IsNarrowing(h, conds) /\ RuleRegion(conds) = h[1..n]  BY RegionNarrows
<1> DEFINE G == { k \in Nat : k <= n => \A r \in h[1..k] : IsFineBox(r) }
<1>2. 0 \in G
  <2>1. h[1..0] = {FullBox}
    <3>1. 1..0 = {} /\ {} \in SUBSET DOMAIN conds  OBVIOUS
    <3> QED  BY <1>1, <3>1 DEF IsNarrowing, NarrowStep
  <2>2. IsFineBox(FullBox)  BY FullDimFine DEF FullBox, IsFineBox
  <2>3. \A r \in h[1..0] : IsFineBox(r)  BY <2>1, <2>2
  <2> QED  BY <2>3
<1>3. ASSUME NEW k \in G PROVE k + 1 \in G
  <2> SUFFICES ASSUME k + 1 <= n PROVE \A r \in h[1..(k + 1)] : IsFineBox(r)
    OBVIOUS
  <2>1. k \in Nat /\ \A r \in h[1..k] : IsFineBox(r)  BY <1>3
  <2>2. h[1..(k + 1)] = Narrow(h[1..k], conds[k + 1])
    <3>1. k \in Nat  BY <2>1
    <3>2. /\ 1..(k + 1) \in SUBSET (1..n) /\ 1..(k + 1) # {}
          /\ Max(1..(k + 1)) = k + 1 /\ (1..(k + 1)) \ {k + 1} = 1..k
      BY <3>1, Prefix
    <3> QED  BY <1>1, <3>2 DEF IsNarrowing, NarrowStep
  <2>3. Sharp(conds[k + 1])  BY <2>1
  <2> HIDE DEF G
  <2> QED  BY <2>1, <2>2, <2>3, NarrowFine
<1>4. G = Nat
  <2> HIDE DEF G
  <2>1. G \in SUBSET Nat  BY DEF G
  <2> QED  BY <1>2, <1>3, <2>1, SetInduction
<1> QED  BY <1>1, <1>4

\* Where two regions meet outside of a third.
LEMMA OverlapIs ==
    ASSUME NEW A, NEW B, NEW exclude, IsFiniteSet(exclude), \A a \in A : IsFineBox(a),
           \A b \in B : IsFineBox(b), \A e \in exclude : IsFineBox(e)
    PROVE  /\ \A r \in Overlap(A, B, exclude) : IsFineBox(r)
           /\ \A ctx \in Contexts :
                 Covered(Overlap(A, B, exclude), ctx) <=>
                     Covered(A, ctx) /\ Covered(B, ctx) /\ ~Covered(exclude, ctx)
<1> DEFINE Meet(a, b) == RegionMinus({CommonBox(a, b)}, exclude)
<1>1. \A r : r \in Overlap(A, B, exclude) <=>
          \E a \in A, b \in B : ~EmptyBox(CommonBox(a, b)) /\ r \in Meet(a, b)
  <2> DEFINE Q == { q \in A \X B : ~EmptyBox(CommonBox(q[1], q[2])) }
  <2>1. Overlap(A, B, exclude) = UNION { Meet(p[1], p[2]) : p \in Q }  BY DEF Overlap
  <2>2. \A p \in Q : /\ p[1] \in A /\ p[2] \in B
                     /\ ~EmptyBox(CommonBox(p[1], p[2]))
    OBVIOUS
  <2>3. ASSUME NEW a \in A, NEW b \in B, ~EmptyBox(CommonBox(a, b))
        PROVE  <<a, b>> \in Q /\ <<a, b>>[1] = a /\ <<a, b>>[2] = b
    BY <2>3
  <2> HIDE DEF Meet, Q
  <2>4. ASSUME NEW r, r \in Overlap(A, B, exclude)
        PROVE  \E a \in A, b \in B : ~EmptyBox(CommonBox(a, b)) /\ r \in Meet(a, b)
    <3>1. PICK p \in Q : r \in Meet(p[1], p[2])  BY <2>1, <2>4
    <3> QED  BY <2>2, <3>1
  <2>5. ASSUME NEW r, NEW a \in A, NEW b \in B, ~EmptyBox(CommonBox(a, b)), r \in Meet(a, b)
        PROVE  r \in Overlap(A, B, exclude)
    <3>1. <<a, b>> \in Q /\ <<a, b>>[1] = a /\ <<a, b>>[2] = b  BY <2>3, <2>5
    <3>2. r \in Meet(<<a, b>>[1], <<a, b>>[2])  BY <2>5, <3>1
    <3> QED  BY <2>1, <3>1, <3>2
  <2> QED  BY <2>4, <2>5
<1>2. ASSUME NEW a \in A, NEW b \in B, ~EmptyBox(CommonBox(a, b))
      PROVE  /\ \A r \in Meet(a, b) : IsFineBox(r)
             /\ \A ctx \in Contexts : Covered(Meet(a, b), ctx) <=>
                   In(ctx, a) /\ In(ctx, b) /\ ~Covered(exclude, ctx)
  <2> DEFINE one == {CommonBox(a, b)}
  <2>1. \A r \in one : IsFineBox(r)  BY <1>2, CommonBoxFine
  <2>2. \A r \in one : IsBox(r)  BY <2>1, FineIsBox
  <2>3. \A e \in exclude : IsBox(e)  BY FineIsBox
  <2>4. IsBox(a) /\ IsBox(b)  BY FineIsBox
  <2>5. \A ctx \in Contexts : Covered(one, ctx) <=> In(ctx, a) /\ In(ctx, b)
    BY <2>4, CommonBoxIs DEF Covered
  <2> HIDE DEF one
  <2>6. \A r \in RegionMinus(one, exclude) : IsFineBox(r)  BY <2>1, RegionMinusFine
  <2>7. \A ctx \in Contexts :
           Covered(RegionMinus(one, exclude), ctx) <=> Covered(one, ctx) /\ ~Covered(exclude, ctx)
    BY <2>2, <2>3, RegionMinusIs
  <2> QED  BY <2>5, <2>6, <2>7 DEF one
<1> HIDE DEF Meet
<1>3. ASSUME NEW a \in A, NEW b \in B, NEW ctx \in Contexts, In(ctx, a), In(ctx, b)
      PROVE  ~EmptyBox(CommonBox(a, b))
  <2>1. IsBox(a) /\ IsBox(b)  BY FineIsBox
  <2>2. IsBox(CommonBox(a, b)) /\ In(ctx, CommonBox(a, b))  BY <1>3, <2>1, CommonBoxIs
  <2> QED  BY <2>2, NotEmptyBox
<1>4. \A r \in Overlap(A, B, exclude) : IsFineBox(r)  BY <1>1, <1>2
<1>5. ASSUME NEW ctx \in Contexts
      PROVE  Covered(Overlap(A, B, exclude), ctx) <=>
                 Covered(A, ctx) /\ Covered(B, ctx) /\ ~Covered(exclude, ctx)
  <2>1. Covered(Overlap(A, B, exclude), ctx) <=>
           \E a \in A, b \in B : ~EmptyBox(CommonBox(a, b)) /\ Covered(Meet(a, b), ctx)
    BY <1>1 DEF Covered
  <2>2. (\E a \in A, b \in B : ~EmptyBox(CommonBox(a, b)) /\ Covered(Meet(a, b), ctx)) <=>
           \E a \in A, b \in B : In(ctx, a) /\ In(ctx, b) /\ ~Covered(exclude, ctx)
    BY <1>2, <1>3
  <2> QED  BY <2>1, <2>2 DEF Covered
<1> QED  BY <1>4, <1>5


-----------------------------------------------------------------------------
(* What the analysis reports and what the evaluator answers *)

\* A region of the table or of an invariant: its boxes are fine, and hold what is matched.
HoldsRule(boxes, rule) ==
    /\ IsFiniteSet(boxes) /\ \A r \in boxes : IsFineBox(r)
    /\ \A ctx \in Contexts : Covered(boxes, ctx) <=> Matches(rule, ctx)

LEMMA SharpRegionIs ==
    ASSUME NEW rule, rule.conds \in Seq(ToSet(rule.conds)), Typed(rule.conds),
           \A i \in DOMAIN rule.conds : Proper(rule.conds[i])
    PROVE  HoldsRule(RuleRegion(rule.conds), rule)
<1>1. PICK n \in Nat : DOMAIN rule.conds = 1..n  OBVIOUS
<1>2. \A i \in 1..n : Sharp(rule.conds[i])  BY <1>1 DEF Typed, Sharp, Named
<1>3. \A r \in RuleRegion(rule.conds) : IsFineBox(r)  BY <1>1, <1>2, RuleRegionFine
<1>4. /\ IsFiniteSet(RuleRegion(rule.conds))
      /\ \A ctx \in Contexts : Covered(RuleRegion(rule.conds), ctx) <=> Matches(rule, ctx)
  BY ProperRegionIs
<1> QED  BY <1>3, <1>4 DEF HoldsRule

LEMMA InvariantIs ==
    ASSUME IInv, NEW inv \in invariants
    PROVE  HoldsRule(RuleRegion(inv.conds), inv) /\ inv.device \in DeviceTypes
<1>1. invariants \in InvariantSets  BY TypeOKIs DEF IInv
<1>2. /\ inv.conds \in Seq(ToSet(inv.conds)) /\ Typed(inv.conds)
      /\ \A i \in DOMAIN inv.conds :
            inv.conds[i].field \in BooleanFields => inv.conds[i].op \in {"==", "!="}
      /\ inv.device \in DeviceTypes
  BY <1>1, RuleSetAssumption
<1>3. \A i \in DOMAIN inv.conds : Proper(inv.conds[i])  BY <1>2 DEF Typed, Proper
<1> QED  BY <1>2, <1>3, SharpRegionIs

\* Every rule of the table can fire, and no two have one key.
LEMMA TableIs ==
    ASSUME IInv
    PROVE  /\ table \in Seq(Rules) /\ Unsatisfiable(table) = {}
           /\ \A i \in DOMAIN table :
                 HoldsRule(Region(table, i), table[i]) /\ table[i].device \in DeviceTypes
                 /\ table[i].key \in Nat
           /\ \A i, j \in DOMAIN table : table[i].key = table[j].key => i = j
<1>1. table \in Seq(Rules) /\ UniqueIds(table) /\ EachCanFire(table)  BY TypeOKIs DEF IInv
<1>2. Unsatisfiable(table) = {}  BY <1>1 DEF Unsatisfiable, Region, EachCanFire, ToSet
<1>3. ASSUME NEW i \in DOMAIN table
      PROVE  HoldsRule(Region(table, i), table[i]) /\ table[i].device \in DeviceTypes
             /\ table[i].key \in Nat
  BY TableRule, RuleIs, SharpRegionIs DEF Region
<1>4. ASSUME NEW i \in DOMAIN table, NEW j \in DOMAIN table, table[i].key = table[j].key
      PROVE  i = j
  <2>1. table[i] \in Rules /\ table[j] \in Rules  BY <1>1
  <2>2. table[j].id = table[i].id  BY <1>4, <2>1, RuleIs
  <2> QED  BY <1>1, <2>2 DEF UniqueIds
<1> QED  BY <1>1, <1>2, <1>3, <1>4

LEMMA TableBoxes ==
    ASSUME IInv, NEW S \in SUBSET DOMAIN table
    PROVE  /\ IsFiniteSet(Boxes(table, S)) /\ \A r \in Boxes(table, S) : IsFineBox(r)
           /\ \A ctx \in Contexts :
                 Covered(Boxes(table, S), ctx) <=> \E i \in S : Matches(table[i], ctx)
<1>1. table \in Seq(Rules) /\ S \in SUBSET (DOMAIN table \ Unsatisfiable(table))  BY TableIs
<1>2. \A r \in Boxes(table, S) : IsFineBox(r)  BY TableIs DEF Boxes, HoldsRule
<1> QED  BY <1>1, <1>2, BoxesIs

\* The rules of a class that the analysis judges are those that the evaluator weighs.
LEMMA JudgedIs ==
    ASSUME IInv, NEW device \in DeviceTypes, NEW type
    PROVE  /\ Judged(table, device, type) =
                 { i \in DOMAIN table : table[i].device = device /\ table[i].type = type }
           /\ \A ctx : Matching(table, device, ctx, type) =
                 { i \in Judged(table, device, type) : Matches(table[i], ctx) }
<1>1. \A i \in DOMAIN table : Canonical[table[i].device] = table[i].device
  BY TableIs, RuleSetAssumption
<1>2. Canonical[device] = device  BY RuleSetAssumption
<1>3. Judged(table, device, type) =
         { i \in DOMAIN table : table[i].device = device /\ table[i].type = type }
  BY TableIs DEF Judged
<1> QED  BY <1>1, <1>2, <1>3 DEF Matching

\* The evaluator's answer, by the rules that match.
LEMMA AnswerIs ==
    ASSUME IInv, NEW device \in DeviceTypes, NEW ctx
    PROVE  LET blocked == \E j \in Blocks(table, device) : Matches(table[j], ctx)
               v == TurnOn(table, device, ctx)
           IN  /\ v.verdict = "block" <=> blocked
               /\ v.verdict = "modify" <=>
                     ~blocked /\ \E j \in Judged(table, device, "modify") : Matches(table[j], ctx)
               /\ v.verdict = "modify" =>
                     \E w \in Judged(table, device, "modify") :
                        /\ v.key = table[w].key /\ Matches(table[w], ctx)
                        /\ \A j \in Judged(table, device, "modify") :
                              Matches(table[j], ctx) => table[w].key <= table[j].key
<1> DEFINE B == Matching(table, device, ctx, "block")
           M == Matching(table, device, ctx, "modify")
           v == TurnOn(table, device, ctx)
           Modifiers == Judged(table, device, "modify")
           blocked == \E j \in Blocks(table, device) : Matches(table[j], ctx)
           Good == /\ v.verdict = "block" <=> blocked
                   /\ v.verdict = "modify" <=> ~blocked /\ \E j \in Modifiers : Matches(table[j], ctx)
                   /\ v.verdict = "modify" =>
                        \E w \in Modifiers :
                           /\ v.key = table[w].key /\ Matches(table[w], ctx)
                           /\ \A j \in Modifiers :
                                 Matches(table[j], ctx) => table[w].key <= table[j].key
<1> SUFFICES Good
  OBVIOUS
<1>1. blocked <=> B # {}  BY JudgedIs DEF Blocks
<1>2. M = { j \in Modifiers : Matches(table[j], ctx) }  BY JudgedIs
<1>3. M # {} => Winner(table, M) \in M /\ \A j \in M : table[Winner(table, M)].key <= table[j].key
  <2>1. \A j \in M : table[j].key \in Nat  BY TableIs DEF Matching
  <2> HIDE DEF M
  <2> QED  BY <2>1, WinnerIs
<1>4. v = IF B # {} THEN [verdict |-> "block", key |-> table[Winner(table, B)].key]
          ELSE IF M # {} THEN [verdict |-> "modify", key |-> table[Winner(table, M)].key,
                               params |-> table[Winner(table, M)].params]
          ELSE [verdict |-> "allow"]
  BY DEF TurnOn, ComputeVerdict, SAFE_ACTIONS, Decision, Allow
<1> HIDE DEF B, M, v, Modifiers, blocked
<1>5. /\ v.verdict = "block" <=> B # {}
      /\ v.verdict = "modify" <=> B = {} /\ M # {}
      /\ v.verdict = "modify" => v.key = table[Winner(table, M)].key
  BY <1>4
<1> QED  BY <1>1, <1>2, <1>3, <1>5

\* A modifier answers where it matches, no block does, and none that is preferred.
LEMMA ModifierAnswers ==
    ASSUME IInv, NEW i \in DOMAIN table, table[i].type = "modify", NEW ctx
    PROVE  LET v == TurnOn(table, table[i].device, ctx)
           IN  v.verdict = "modify" /\ v.key = table[i].key <=>
                 /\ Matches(table[i], ctx)
                 /\ \A j \in Blocks(table, table[i].device) \cup Preferred(table, i) :
                       ~Matches(table[j], ctx)
<1> DEFINE device == table[i].device
           v == TurnOn(table, device, ctx)
           Modifiers == Judged(table, device, "modify")
           blocked == \E j \in Blocks(table, device) : Matches(table[j], ctx)
           Good == v.verdict = "modify" /\ v.key = table[i].key <=>
                     /\ Matches(table[i], ctx)
                     /\ \A j \in Blocks(table, device) \cup Preferred(table, i) :
                           ~Matches(table[j], ctx)
<1> SUFFICES Good
  OBVIOUS
<1>1. device \in DeviceTypes  BY TableIs
<1>2. /\ v.verdict = "modify" <=> ~blocked /\ \E j \in Modifiers : Matches(table[j], ctx)
      /\ v.verdict = "modify" =>
           \E w \in Modifiers :
              /\ v.key = table[w].key /\ Matches(table[w], ctx)
              /\ \A j \in Modifiers : Matches(table[j], ctx) => table[w].key <= table[j].key
  BY <1>1, AnswerIs
<1>3. i \in Modifiers /\ \A j \in Modifiers : j \in DOMAIN table
  BY <1>1, JudgedIs
<1>4. Preferred(table, i) = { j \in Modifiers \ {i} : table[j].key < table[i].key }
  BY DEF Preferred
<1>5. \A j \in DOMAIN table : table[j].key \in Nat /\ (table[j].key = table[i].key => j = i)
  BY TableIs
<1> HIDE DEF v, Modifiers, device
<1>6. ASSUME v.verdict = "modify", v.key = table[i].key
      PROVE  /\ Matches(table[i], ctx) /\ ~blocked
             /\ \A j \in Preferred(table, i) : ~Matches(table[j], ctx)
  <2>1. PICK w \in Modifiers :
              /\ v.key = table[w].key /\ Matches(table[w], ctx)
              /\ \A j \in Modifiers : Matches(table[j], ctx) => table[w].key <= table[j].key
    BY <1>2, <1>6
  <2>2. w = i  BY <1>3, <1>5, <1>6, <2>1
  <2> QED  BY <1>2, <1>3, <1>4, <1>5, <1>6, <2>1, <2>2
<1>7. ASSUME Matches(table[i], ctx), ~blocked, \A j \in Preferred(table, i) : ~Matches(table[j], ctx)
      PROVE  v.verdict = "modify" /\ v.key = table[i].key
  <2>1. v.verdict = "modify"  BY <1>2, <1>3, <1>7
  <2>2. PICK w \in Modifiers :
              /\ v.key = table[w].key /\ Matches(table[w], ctx)
              /\ \A j \in Modifiers : Matches(table[j], ctx) => table[w].key <= table[j].key
    BY <1>2, <2>1
  <2>3. table[w].key <= table[i].key  BY <1>3, <1>7, <2>2
  <2>4. ~(table[w].key < table[i].key)  BY <1>4, <1>5, <1>7, <2>2
  <2>5. table[w].key = table[i].key  BY <1>3, <1>5, <2>3, <2>4
  <2> QED  BY <2>1, <2>2, <2>5
<1> QED  BY <1>6, <1>7

LEMMA ShadowedIsRight == IInv => ShadowedNeverApplies
<1> SUFFICES ASSUME IInv, NEW i \in DOMAIN table, table[i].type = "modify"
             PROVE  i \in Shadowed(table) <=>
                      \A ctx \in Contexts : LET v == TurnOn(table, table[i].device, ctx)
                                            IN  v.verdict = "modify" => v.key # table[i].key
  BY DEF ShadowedNeverApplies
<1> DEFINE S == Blocks(table, table[i].device) \cup Preferred(table, i)
           Answers(ctx) == LET v == TurnOn(table, table[i].device, ctx)
                           IN  v.verdict = "modify" /\ v.key = table[i].key
           a == Region(table, i)
           b == Boxes(table, S)
<1>1. i \in Shadowed(table) <=> RegionMinus(a, b) = {}  BY TableIs DEF Shadowed
<1>2. S \in SUBSET DOMAIN table  BY DEF Blocks, Preferred, Judged
<1>3. \A ctx : Answers(ctx) <=> Matches(table[i], ctx) /\ ~\E j \in S : Matches(table[j], ctx)
  BY ModifierAnswers
<1> HIDE DEF S
<1>4. /\ IsFiniteSet(b) /\ \A r \in b : IsFineBox(r)
      /\ \A ctx \in Contexts : Covered(b, ctx) <=> \E j \in S : Matches(table[j], ctx)
  BY <1>2, TableBoxes
<1>5. /\ \A r \in a : IsFineBox(r)
      /\ \A ctx \in Contexts : Covered(a, ctx) <=> Matches(table[i], ctx)
  BY TableIs DEF HoldsRule
<1> HIDE DEF a, b, Answers
<1>6. \A r \in RegionMinus(a, b) : IsFineBox(r)  BY <1>4, <1>5, RegionMinusFine
<1>7. \A ctx \in Contexts : Covered(RegionMinus(a, b), ctx) <=> Answers(ctx)
  <2>1. (\A r \in a : IsBox(r)) /\ \A r \in b : IsBox(r)  BY <1>4, <1>5, FineIsBox
  <2>2. \A ctx \in Contexts : Covered(RegionMinus(a, b), ctx) <=> Covered(a, ctx) /\ ~Covered(b, ctx)
    BY <1>4, <2>1, RegionMinusIs
  <2> QED  BY <1>3, <1>4, <1>5, <2>2
<1>8. RegionMinus(a, b) = {} <=> \A ctx \in Contexts : ~Answers(ctx)
  <2>1. ASSUME NEW r \in RegionMinus(a, b) PROVE \E ctx \in Contexts : Answers(ctx)
    BY <1>6, <1>7, WitnessIs DEF Covered
  <2> QED  BY <1>7, <2>1 DEF Covered
<1> QED  BY <1>1, <1>8 DEF Answers


LEMMA AllowConflictsRight ==
    ASSUME IInv, NEW c \in AllowConflicts(table), NEW b \in c.where
    PROVE  /\ Matches(table[c.at], Witness(b)) /\ Matches(table[c.with], Witness(b))
           /\ TurnOn(table, table[c.at].device, Witness(b)).verdict = "block"
<1>1. /\ c.at \in DOMAIN table /\ c.with \in Blocks(table, table[c.at].device)
      /\ c.where = Overlap(Region(table, c.at), Region(table, c.with), {})
  BY DEF AllowConflicts
<1>2. /\ c.with \in DOMAIN table /\ table[c.with].device = table[c.at].device
      /\ table[c.with].type = "block"
  BY <1>1 DEF Blocks, Judged
<1> DEFINE A == Region(table, c.at)
           B == Region(table, c.with)
<1>3. /\ (\A r \in A : IsFineBox(r)) /\ \A r \in B : IsFineBox(r)
      /\ \A ctx \in Contexts : (Covered(A, ctx) <=> Matches(table[c.at], ctx))
                               /\ (Covered(B, ctx) <=> Matches(table[c.with], ctx))
  BY <1>1, <1>2, TableIs DEF HoldsRule
<1>4. b \in Overlap(A, B, {})  BY <1>1
<1> HIDE DEF A, B
<1>5. IsFiniteSet({}) /\ \A e \in {} : IsFineBox(e)  BY FS_EmptySet
<1>6. IsFineBox(b)  BY <1>3, <1>4, <1>5, OverlapIs
<1>7. Witness(b) \in Contexts /\ In(Witness(b), b)  BY <1>6, WitnessIs
<1>8. Covered(Overlap(A, B, {}), Witness(b))  BY <1>4, <1>7 DEF Covered
<1>9. Covered(A, Witness(b)) /\ Covered(B, Witness(b))  BY <1>3, <1>5, <1>7, <1>8, OverlapIs
<1>10. Matches(table[c.at], Witness(b)) /\ Matches(table[c.with], Witness(b))  BY <1>3, <1>7, <1>9
<1> QED  BY <1>2, <1>10, BlockWins

LEMMA NoBlockMissed ==
    ASSUME IInv, NEW i \in DOMAIN table, NEW j \in DOMAIN table,
           table[i].type = "allow", table[j].type = "block", table[i].device = table[j].device,
           NEW ctx \in Contexts, Matches(table[i], ctx), Matches(table[j], ctx)
    PROVE  \E c \in AllowConflicts(table) : c.at = i /\ c.with = j
<1> DEFINE A == Region(table, i)
           B == Region(table, j)
           c == [at |-> i, with |-> j, where |-> Overlap(A, B, {})]
<1>1. /\ (\A r \in A : IsFineBox(r)) /\ \A r \in B : IsFineBox(r)
      /\ Covered(A, ctx) /\ Covered(B, ctx)
  BY TableIs DEF HoldsRule
<1>2. i \in DOMAIN table \ Unsatisfiable(table) /\ j \in Blocks(table, table[i].device)
  BY TableIs DEF Blocks, Judged
<1>3. Overlap(A, B, {}) # {}
  <2> HIDE DEF A, B
  <2>1. IsFiniteSet({}) /\ \A e \in {} : IsFineBox(e)  BY FS_EmptySet
  <2>2. ~Covered({}, ctx)  BY DEF Covered
  <2>3. Covered(Overlap(A, B, {}), ctx)  BY <1>1, <2>1, <2>2, OverlapIs
  <2> QED  BY <2>3 DEF Covered
<1>4. c \in AllowConflicts(table)  BY <1>2, <1>3 DEF AllowConflicts
<1> QED  BY <1>4

\* Where a modifier and a preferred one meet outside of the blocks.
LEMMA MeetIs ==
    ASSUME IInv, NEW i \in DOMAIN table, NEW j \in DOMAIN table
    PROVE  LET where == Overlap(Region(table, i), Region(table, j),
                                Boxes(table, Blocks(table, table[i].device)))
           IN  /\ \A ctx \in Contexts : Covered(where, ctx) <=>
                     /\ Matches(table[i], ctx) /\ Matches(table[j], ctx)
                     /\ \A k \in Blocks(table, table[i].device) : ~Matches(table[k], ctx)
               /\ \A b \in where : Witness(b) \in Contexts /\ Covered(where, Witness(b))
<1> DEFINE A == Region(table, i)
           B == Region(table, j)
           blocks == Blocks(table, table[i].device)
           exclude == Boxes(table, blocks)
           where == Overlap(A, B, exclude)
           Good == /\ \A ctx \in Contexts : Covered(where, ctx) <=>
                        /\ Matches(table[i], ctx) /\ Matches(table[j], ctx)
                        /\ \A k \in blocks : ~Matches(table[k], ctx)
                   /\ \A b \in where : Witness(b) \in Contexts /\ Covered(where, Witness(b))
<1> SUFFICES Good
  OBVIOUS
<1>1. blocks \in SUBSET DOMAIN table  BY DEF Blocks, Judged
<1> HIDE DEF blocks
<1>2. /\ IsFiniteSet(exclude) /\ \A r \in exclude : IsFineBox(r)
      /\ \A ctx \in Contexts : Covered(exclude, ctx) <=> \E k \in blocks : Matches(table[k], ctx)
  BY <1>1, TableBoxes
<1>3. /\ (\A r \in A : IsFineBox(r)) /\ \A r \in B : IsFineBox(r)
      /\ \A ctx \in Contexts : (Covered(A, ctx) <=> Matches(table[i], ctx))
                               /\ (Covered(B, ctx) <=> Matches(table[j], ctx))
  BY TableIs DEF HoldsRule
<1> HIDE DEF A, B, exclude
<1>4. /\ \A r \in where : IsFineBox(r)
      /\ \A ctx \in Contexts :
            Covered(where, ctx) <=> Covered(A, ctx) /\ Covered(B, ctx) /\ ~Covered(exclude, ctx)
  BY <1>2, <1>3, OverlapIs
<1> HIDE DEF where
<1>5. \A b \in where : Witness(b) \in Contexts /\ Covered(where, Witness(b))
  BY <1>4, WitnessIs DEF Covered
<1> QED  BY <1>2, <1>3, <1>4, <1>5

LEMMA ModifyConflictsRight ==
    ASSUME IInv, NEW c \in ModifyConflicts(table), NEW b \in c.where
    PROVE  LET v == TurnOn(table, table[c.at].device, Witness(b))
           IN  /\ Matches(table[c.at], Witness(b)) /\ Matches(table[c.with], Witness(b))
               /\ v.verdict = "modify" /\ v.key # table[c.at].key
<1> DEFINE device == table[c.at].device
           v == TurnOn(table, device, Witness(b))
           Modifiers == Judged(table, device, "modify")
<1>1. /\ c.at \in DOMAIN table /\ c.with \in Preferred(table, c.at)
      /\ c.where = Overlap(Region(table, c.at), Region(table, c.with), Boxes(table, Blocks(table, device)))
  BY DEF ModifyConflicts
<1>2. c.with \in Modifiers /\ c.with \in DOMAIN table /\ table[c.with].key < table[c.at].key
  BY <1>1 DEF Preferred, Judged
<1>3. device \in DeviceTypes  BY <1>1, TableIs
<1>4. /\ Matches(table[c.at], Witness(b)) /\ Matches(table[c.with], Witness(b))
      /\ \A k \in Blocks(table, device) : ~Matches(table[k], Witness(b))
  <2>1. Witness(b) \in Contexts /\ Covered(c.where, Witness(b))  BY <1>1, <1>2, MeetIs
  <2> QED  BY <1>1, <1>2, <2>1, MeetIs
<1>5. /\ v.verdict = "modify" <=>
            /\ ~\E k \in Blocks(table, device) : Matches(table[k], Witness(b))
            /\ \E j \in Modifiers : Matches(table[j], Witness(b))
      /\ v.verdict = "modify" =>
           \E w \in Modifiers :
              /\ v.key = table[w].key /\ Matches(table[w], Witness(b))
              /\ \A j \in Modifiers : Matches(table[j], Witness(b)) => table[w].key <= table[j].key
  BY <1>3, AnswerIs
<1>6. \A j \in Modifiers : table[j].key \in Nat  BY TableIs DEF Judged
<1>7. table[c.at].key \in Nat  BY <1>1, TableIs
<1> HIDE DEF v, Modifiers, device
<1>8. v.verdict = "modify"  BY <1>2, <1>4, <1>5
<1>9. v.key # table[c.at].key  BY <1>2, <1>4, <1>5, <1>6, <1>7, <1>8
<1> QED  BY <1>4, <1>8, <1>9 DEF v, device

LEMMA NoConflictMissed ==
    ASSUME IInv, NEW i \in DOMAIN table, NEW j \in DOMAIN table,
           table[i].type = "modify", j \in Preferred(table, i), table[i].params # table[j].params,
           NEW ctx \in Contexts, Matches(table[i], ctx), Matches(table[j], ctx),
           TurnOn(table, table[i].device, ctx).verdict = "modify"
    PROVE  \E c \in ModifyConflicts(table) : c.at = i /\ c.with = j
<1> DEFINE device == table[i].device
           where == Overlap(Region(table, i), Region(table, j), Boxes(table, Blocks(table, device)))
           c == [at |-> i, with |-> j, where |-> where]
<1>1. \A k \in Blocks(table, device) : ~Matches(table[k], ctx)
  <2>1. device \in DeviceTypes  BY TableIs
  <2> HIDE DEF device
  <2> QED  BY <2>1, AnswerIs DEF device
<1>2. where # {}
  <2>1. Covered(where, ctx)  BY <1>1, MeetIs
  <2> HIDE DEF where
  <2> QED  BY <2>1 DEF Covered
<1>3. i \in DOMAIN table \ Unsatisfiable(table)  BY TableIs
<1>4. c \in ModifyConflicts(table)
  BY <1>2, <1>3 DEF ModifyConflicts
<1> QED  BY <1>4

LEMMA ConflictsAreRight == IInv => ConflictsExact
<1> SUFFICES ASSUME IInv PROVE ConflictsExact
  OBVIOUS
<1>1. \A c \in AllowConflicts(table) : \A b \in c.where :
          /\ Matches(table[c.at], Witness(b)) /\ Matches(table[c.with], Witness(b))
          /\ TurnOn(table, table[c.at].device, Witness(b)).verdict = "block"
  BY AllowConflictsRight
<1>4. \A i, j \in DOMAIN table :
          /\ table[i].type = "allow" /\ table[j].type = "block"
          /\ table[i].device = table[j].device
          /\ \E ctx \in Contexts : Matches(table[i], ctx) /\ Matches(table[j], ctx)
          => \E c \in AllowConflicts(table) : c.at = i /\ c.with = j
  BY NoBlockMissed
<1>2. \A c \in ModifyConflicts(table) : \A b \in c.where :
          LET v == TurnOn(table, table[c.at].device, Witness(b))
          IN  /\ Matches(table[c.at], Witness(b)) /\ Matches(table[c.with], Witness(b))
              /\ v.verdict = "modify" /\ v.key # table[c.at].key
  BY ModifyConflictsRight
<1>3. \A i, j \in DOMAIN table :
          /\ table[i].type = "modify" /\ j \in Preferred(table, i)
          /\ table[i].params # table[j].params
          /\ \E ctx \in Contexts : /\ Matches(table[i], ctx) /\ Matches(table[j], ctx)
                                   /\ TurnOn(table, table[i].device, ctx).verdict = "modify"
          => \E c \in ModifyConflicts(table) : c.at = i /\ c.with = j
  BY NoConflictMissed
<1> QED  BY <1>1, <1>2, <1>3, <1>4 DEF ConflictsExact

LEMMA UnsatisfiableIsRight == IInv => UnsatisfiableExact
<1> SUFFICES ASSUME IInv, NEW raw \in Pool, Valid(raw), Comparable(raw.conds)
             PROVE  LET judged == Checked(Validated(raw), table)
                    IN  Unsatisfiable(judged)
                          = { i \in DOMAIN judged : \A ctx \in Contexts : ~Matches(judged[i], ctx) }
  BY DEF UnsatisfiableExact
<1> DEFINE rule == Validated(raw)
           judged == Checked(rule, table)
<1>1. table \in Seq(Rules) /\ EachCanFire(table)  BY TypeOKIs DEF IInv
<1>2. rule \in Rules  BY DEF Rules
<1>3. rule.conds = raw.conds
  <2>1. {"device", "conds"} \subseteq DOMAIN raw  BY RuleSetAssumption
  <2> QED  BY <2>1 DEF Validated
<1>4. /\ judged \in Seq(Rules)
      /\ \A i \in DOMAIN judged : judged[i] = rule \/ judged[i] \in ToSet(table)
  <2> HIDE DEF rule
  <2> QED  BY <1>1, <1>2, CheckedIs
<1> HIDE DEF rule, judged
<1>5. ASSUME NEW i \in DOMAIN judged
      PROVE  Region(judged, i) = {} <=> \A ctx \in Contexts : ~Matches(judged[i], ctx)
  <2> DEFINE one == judged[i]
  <2>1. one \in Rules  BY <1>4
  <2>2. one.conds \in Seq(ToSet(one.conds)) /\ Typed(one.conds)  BY <2>1, RuleIs
  <2>3. \A k \in DOMAIN one.conds : Proper(one.conds[k])
    <3>1. CASE one = rule
      <4>1. Typed(raw.conds)  BY <1>3, <2>2, <3>1
      <4>2. \A k \in DOMAIN raw.conds : Proper(raw.conds[k])
        BY <4>1 DEF Typed, Proper, Comparable
      <4> QED  BY <1>3, <3>1, <4>2
    <3>2. CASE one \in ToSet(table)
      <4>1. RuleRegion(one.conds) # {}  BY <1>1, <3>2 DEF EachCanFire
      <4> HIDE DEF one
      <4> QED  BY <2>2, <4>1, TypedIsProper
    <3> QED  BY <1>4, <3>1, <3>2
  <2> HIDE DEF one
  <2>4. HoldsRule(RuleRegion(one.conds), one)  BY <2>2, <2>3, SharpRegionIs
  <2>5. \A r \in RuleRegion(one.conds) : Witness(r) \in Contexts /\ In(Witness(r), r)
    BY <2>4, WitnessIs DEF HoldsRule
  <2>6. RuleRegion(one.conds) = {} <=> \A ctx \in Contexts : ~Matches(one, ctx)
    BY <2>4, <2>5 DEF HoldsRule, Covered
  <2> QED  BY <2>6 DEF one, Region
<1>6. Unsatisfiable(judged) = { i \in DOMAIN judged : \A ctx \in Contexts : ~Matches(judged[i], ctx) }
  BY <1>5 DEF Unsatisfiable
<1> QED  BY <1>6 DEF judged, rule

LEMMA RedundantIsRight == IInv => RedundantExact
<1> SUFFICES ASSUME IInv, NEW i \in DOMAIN table
             PROVE  i \in Redundant(table) <=>
                      \A ctx \in Contexts : Matches(table[i], ctx) =>
                        \E j \in DOMAIN table \ {i} :
                            /\ table[j].device = table[i].device /\ table[j].type = table[i].type
                            /\ table[i].type = "modify" => table[j].params = table[i].params
                            /\ Matches(table[j], ctx)
  BY DEF RedundantExact
<1> DEFINE same == { j \in Judged(table, table[i].device, table[i].type) \ {i} :
                        table[i].type = "modify" => table[j].params = table[i].params }
           Others(ctx) == \E j \in DOMAIN table \ {i} :
                            /\ table[j].device = table[i].device /\ table[j].type = table[i].type
                            /\ table[i].type = "modify" => table[j].params = table[i].params
                            /\ Matches(table[j], ctx)
           a == Region(table, i)
           b == Boxes(table, same)
<1>1. i \in Redundant(table) <=> same # {} /\ RegionMinus(a, b) = {}  BY TableIs DEF Redundant
<1>2. same \in SUBSET DOMAIN table  BY DEF Judged
<1>3. \A ctx : Others(ctx) <=> \E j \in same : Matches(table[j], ctx)
  <2>1. table[i].device \in DeviceTypes  BY TableIs
  <2>2. Judged(table, table[i].device, table[i].type) =
           { j \in DOMAIN table : table[j].device = table[i].device /\ table[j].type = table[i].type }
    BY <2>1, JudgedIs
  <2> QED  BY <2>2
<1> HIDE DEF same
<1>4. /\ IsFiniteSet(b) /\ \A r \in b : IsFineBox(r)
      /\ \A ctx \in Contexts : Covered(b, ctx) <=> \E j \in same : Matches(table[j], ctx)
  BY <1>2, TableBoxes
<1>5. /\ \A r \in a : IsFineBox(r)
      /\ \A ctx \in Contexts : Covered(a, ctx) <=> Matches(table[i], ctx)
  BY TableIs DEF HoldsRule
<1>6. \E ctx \in Contexts : Matches(table[i], ctx)
  <2>1. i \notin Unsatisfiable(table)  BY TableIs
  <2>2. PICK r : r \in a  BY <2>1 DEF Unsatisfiable
  <2> HIDE DEF a
  <2> QED  BY <1>5, <2>2, WitnessIs DEF Covered
<1> HIDE DEF a, b, Others
<1>7. \A r \in RegionMinus(a, b) : IsFineBox(r)  BY <1>4, <1>5, RegionMinusFine
<1>8. \A ctx \in Contexts :
         Covered(RegionMinus(a, b), ctx) <=> Matches(table[i], ctx) /\ ~Others(ctx)
  <2>1. (\A r \in a : IsBox(r)) /\ \A r \in b : IsBox(r)  BY <1>4, <1>5, FineIsBox
  <2>2. \A ctx \in Contexts : Covered(RegionMinus(a, b), ctx) <=> Covered(a, ctx) /\ ~Covered(b, ctx)
    BY <1>4, <2>1, RegionMinusIs
  <2> QED  BY <1>3, <1>4, <1>5, <2>2
<1>9. RegionMinus(a, b) = {} <=> \A ctx \in Contexts : Matches(table[i], ctx) => Others(ctx)
  <2>1. ASSUME NEW r \in RegionMinus(a, b)
        PROVE  \E ctx \in Contexts : Matches(table[i], ctx) /\ ~Others(ctx)
    BY <1>7, <1>8, WitnessIs DEF Covered
  <2> QED  BY <1>8, <2>1 DEF Covered
<1>10. RegionMinus(a, b) = {} => same # {}
  BY <1>3, <1>6, <1>9
<1> QED  BY <1>1, <1>9, <1>10 DEF Others

LEMMA GapsAreRight == IInv => GapsExact
<1> SUFFICES ASSUME IInv, NEW inv \in invariants
             PROVE  LET held == \A ctx \in Contexts :
                                   Matches(inv, ctx) => TurnOn(table, inv.device, ctx).verdict = "block"
                    IN  /\ Gaps(table, inv) = {} <=> held
                        /\ \A b \in Gaps(table, inv) :
                              /\ Matches(inv, Witness(b))
                              /\ TurnOn(table, inv.device, Witness(b)).verdict # "block"
  BY DEF GapsExact
<1> DEFINE a == RuleRegion(inv.conds)
           blocks == Blocks(table, inv.device)
           b == Boxes(table, blocks)
           gaps == RegionMinus(a, b)
           Open(ctx) == Matches(inv, ctx) /\ TurnOn(table, inv.device, ctx).verdict # "block"
<1>1. gaps = Gaps(table, inv)  BY DEF Gaps
<1>2. inv.device \in DeviceTypes /\ (\A r \in a : IsFineBox(r))
      /\ \A ctx \in Contexts : Covered(a, ctx) <=> Matches(inv, ctx)
  BY InvariantIs DEF HoldsRule
<1>3. blocks \in SUBSET DOMAIN table  BY DEF Blocks, Judged
<1>4. \A ctx : TurnOn(table, inv.device, ctx).verdict = "block" <=> \E j \in blocks : Matches(table[j], ctx)
  BY <1>2, AnswerIs
<1> HIDE DEF a, blocks
<1>5. /\ IsFiniteSet(b) /\ \A r \in b : IsFineBox(r)
      /\ \A ctx \in Contexts : Covered(b, ctx) <=> \E j \in blocks : Matches(table[j], ctx)
  BY <1>3, TableBoxes
<1> HIDE DEF b
<1>6. \A r \in gaps : IsFineBox(r)  BY <1>2, <1>5, RegionMinusFine
<1>7. \A ctx \in Contexts : Covered(gaps, ctx) <=> Open(ctx)
  <2>1. (\A r \in a : IsBox(r)) /\ \A r \in b : IsBox(r)  BY <1>2, <1>5, FineIsBox
  <2>2. \A ctx \in Contexts : Covered(gaps, ctx) <=> Covered(a, ctx) /\ ~Covered(b, ctx)
    BY <1>5, <2>1, RegionMinusIs
  <2> QED  BY <1>2, <1>4, <1>5, <2>2
<1> HIDE DEF gaps, Open
<1>8. \A r \in gaps : Witness(r) \in Contexts /\ Open(Witness(r))
  BY <1>6, <1>7, WitnessIs DEF Covered
<1>9. gaps = {} <=> \A ctx \in Contexts : ~Open(ctx)  BY <1>7, <1>8 DEF Covered
<1> QED  BY <1>1, <1>8, <1>9 DEF Open

\* Each kind of finding is reported exactly where the evaluator bears it out: a rule that
\* cannot fire, a modifier that never applies, an allow under a block, two modifiers at
\* odds, a rule that others cover, an invariant with a counterexample.
\* (rule_set_checker.analyze, witness)
THEOREM FindingsAreExact == Spec => []FindingsExact
<1>1. IInv => FindingsExact
  BY UnsatisfiableIsRight, ShadowedIsRight, ConflictsAreRight, RedundantIsRight, GapsAreRight
     DEF FindingsExact
<1> QED  BY <1>1, Invariant, PTL
=============================================================================
