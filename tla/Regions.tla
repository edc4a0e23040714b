------------------------------ MODULE Regions ------------------------------
(***************************************************************************)
(* Interval arithmetic over the context fields                             *)
(* (policy_authoring.rule_set_checker): a rule matches a union of boxes,   *)
(* and every question about it is answered on them, without a solver.      *)
(* No state: RuleSet asks what rules say of each other, Plant cuts the     *)
(* fields of a device's rules into cells.                                  *)
(* Numbers are in half units, so that the odd ones stand for the open gaps *)
(* between the thresholds, which are even on a real-valued field.          *)
(***************************************************************************)
EXTENDS PolicyVerdict, SequencesExt

CONSTANTS
    FieldOrder,     \* FIELDS, in the order of the code
    Domains,        \* NUMERIC_DOMAINS: [lo, hi] of each numeric field
    IntegerFields, BooleanFields, StringFields

Fields == ToSet(FieldOrder)
NumericFields == DOMAIN Domains

\* The largest bound a condition is given, beyond every domain.
INF == 1000000

\* A field is listed once and is of one sort; real-valued domains end on even numbers.
ASSUME RegionsAssumption ==
    /\ FieldOrder \in Seq(Fields)
    /\ \A i, j \in DOMAIN FieldOrder : FieldOrder[i] = FieldOrder[j] => i = j
    /\ Fields = NumericFields \cup BooleanFields \cup StringFields
    /\ NumericFields \cap (BooleanFields \cup StringFields) = {}
    /\ BooleanFields \cap StringFields = {}
    /\ IntegerFields \subseteq NumericFields
    /\ \A f \in NumericFields :
          /\ Domains[f].lo \in Int /\ Domains[f].hi \in Int
          /\ -INF < Domains[f].lo /\ Domains[f].lo <= Domains[f].hi /\ Domains[f].hi < INF
          /\ Domains[f].lo % 2 = 0 /\ Domains[f].hi % 2 = 0

Before(f, g) == \E i, j \in DOMAIN FieldOrder :
                    i < j /\ FieldOrder[i] = f /\ FieldOrder[j] = g

-----------------------------------------------------------------------------
(* Intervals, label sets, boxes *)

I(lo, hi, loc, hic) == [lo |-> lo, hi |-> hi, loc |-> loc, hic |-> hic]

\* The least and the greatest whole number inside (a whole number is even).
IntLo(i) == IF i.lo % 2 = 0 THEN (IF i.loc THEN i.lo ELSE i.lo + 2) ELSE i.lo + 1
IntHi(i) == IF i.hi % 2 = 0 THEN (IF i.hic THEN i.hi ELSE i.hi - 2) ELSE i.hi - 1

EmptyInterval(i, integer) ==
    IF integer THEN IntLo(i) > IntHi(i)
    ELSE i.lo > i.hi \/ (i.lo = i.hi /\ ~(i.loc /\ i.hic))

CommonInterval(a, b) ==
    I(IF a.lo > b.lo THEN a.lo ELSE b.lo,
      IF a.hi < b.hi THEN a.hi ELSE b.hi,
      (a.lo >= b.lo => a.loc) /\ (b.lo >= a.lo => b.loc),
      (a.hi <= b.hi => a.hic) /\ (b.hi <= a.hi => b.hic))

IntervalMinus(a, b) ==
    { CommonInterval(I(a.lo, b.lo, a.loc, ~b.loc), a),
      CommonInterval(I(b.hi, a.hi, ~b.hic, a.hic), a) }

\* StringSet: every label, or the included ones, minus the excluded ones.
Every == [all |-> TRUE, inc |-> {}, exc |-> {}]
Only(S) == [all |-> FALSE, inc |-> S, exc |-> {}]
AllBut(S) == [Every EXCEPT !.exc = S]

CommonLabels(a, b) ==
    [all |-> a.all /\ b.all,
     inc |-> IF a.all THEN b.inc ELSE IF b.all THEN a.inc ELSE a.inc \cap b.inc,
     exc |-> a.exc \cup b.exc]

OtherLabels(a) ==
    IF a.all THEN Only(a.exc) ELSE AllBut(a.inc \ a.exc)

EmptyDim(f, d) ==
    IF f \in StringFields THEN ~d.all /\ d.inc \subseteq d.exc
    ELSE IF f \in BooleanFields THEN d = {}
    ELSE EmptyInterval(d, f \in IntegerFields)

CommonDim(f, a, b) ==
    IF f \in StringFields THEN CommonLabels(a, b)
    ELSE IF f \in BooleanFields THEN a \cap b
    ELSE CommonInterval(a, b)

DimMinus(f, a, b) ==
    { d \in IF f \in StringFields THEN {CommonLabels(a, OtherLabels(b))}
            ELSE IF f \in BooleanFields THEN {a \ b}
            ELSE IntervalMinus(a, b) : ~EmptyDim(f, d) }

EmptyBox(box) == \E f \in Fields : EmptyDim(f, box[f])
CommonBox(a, b) == [f \in Fields |-> CommonDim(f, a[f], b[f])]

\* a \ b as disjoint boxes: split on one field after another.
BoxMinus_Overlapping(a, b) ==
    IF EmptyBox(CommonBox(a, b)) THEN {a}
    ELSE UNION { { [f \in Fields |-> IF f = g THEN part ELSE a[f]]
                   : part \in DimMinus(g, a[g], b[g]) } : g \in Fields }

BoxMinus(a, b) ==
    IF EmptyBox(CommonBox(a, b)) THEN {a}
    ELSE UNION { { [f \in Fields |-> IF Before(f, g) THEN CommonDim(f, a[f], b[f])
                                     ELSE IF f = g THEN part ELSE a[f]]
                   : part \in DimMinus(g, a[g], b[g]) } : g \in Fields }

RegionMinus(region, boxes) ==
    FoldSet(LAMBDA b, rest : UNION { BoxMinus(r, b) : r \in rest }, region, boxes)

-----------------------------------------------------------------------------
(* From a rule to its region *)

FullDim(f) == IF f \in StringFields THEN Every
              ELSE IF f \in BooleanFields THEN BOOLEAN
              ELSE I(Domains[f].lo, Domains[f].hi, TRUE, TRUE)

FullBox == [f \in Fields |-> FullDim(f)]

NumericDims(op, v) ==
    CASE op = ">"  -> {I(v, INF, FALSE, FALSE)}
      [] op = ">=" -> {I(v, INF, TRUE, FALSE)}
      [] op = "<"  -> {I(-INF, v, FALSE, FALSE)}
      [] op = "<=" -> {I(-INF, v, FALSE, TRUE)}
      [] op = "==" -> {I(v, v, TRUE, TRUE)}
      [] op = "!=" -> {I(-INF, v, FALSE, FALSE), I(v, INF, FALSE, FALSE)}

ConditionDims(c) ==
    IF c.field \in StringFields
        THEN IF c.op = "==" THEN {Only({c.value})} ELSE {AllBut({c.value})}
    ELSE IF c.field \in BooleanFields
        THEN IF c.op = "==" THEN {{c.value}}
             ELSE IF c.op = "!=" THEN {{~c.value}} ELSE {}
    ELSE NumericDims(c.op, c.value)

\* The contexts the conditions match, as disjoint boxes.
RuleRegion(conds) ==
    FoldLeft(LAMBDA boxes, c :
                { nb \in { [f \in Fields |-> IF f = c.field THEN CommonDim(f, b[f], d) ELSE b[f]]
                           : b \in boxes, d \in ConditionDims(c) } :
                  ~EmptyDim(c.field, nb[c.field]) },
             {FullBox}, conds)

-----------------------------------------------------------------------------
(* A witness: a point of a box, near the typical value *)

Typical(f) == IF f \in IntegerFields THEN 2 ELSE 3

SampleInterval(i, integer, prefer) ==
    IF integer THEN
        IF prefer < IntLo(i) THEN IntLo(i) ELSE IF prefer > IntHi(i) THEN IntHi(i) ELSE prefer
    ELSE IF \/ i.lo < prefer /\ prefer < i.hi
            \/ prefer = i.lo /\ i.loc
            \/ prefer = i.hi /\ i.hic THEN prefer
    ELSE IF prefer <= i.lo THEN
        IF i.loc THEN i.lo ELSE Min({i.lo + 1, (i.lo + i.hi) \div 2})
    ELSE IF i.hic THEN i.hi ELSE Max({i.hi - 1, (i.lo + i.hi) \div 2})

SampleDim(f, d) ==
    IF f \in StringFields THEN
        IF ~d.all /\ ~(d.inc \subseteq d.exc) THEN CHOOSE l \in d.inc \ d.exc : TRUE
        ELSE IF "unknown" \notin d.exc THEN "unknown" ELSE "other"
    ELSE IF f \in BooleanFields THEN TRUE \in d
    ELSE SampleInterval(d, f \in IntegerFields, Typical(f))

Witness(box) == [f \in Fields |-> SampleDim(f, box[f])]
=============================================================================
