------------------------------- MODULE Plant -------------------------------
(***************************************************************************)
(* The plant of one device (controllability.build_plant): its mode, and    *)
(* the fields its blocks and invariants constrain, each cut into cells on  *)
(* which all of them agree.  No state: Enforcement runs the synthesis on   *)
(* it and puts the world beside it.                                        *)
(*                                                                         *)
(* A spec item is the condition list of a block or an invariant.  A cell   *)
(* is a truth value or an interval; where the precursor is modelled,       *)
(* is_home has a third one, in which it cannot be read.                    *)
(***************************************************************************)
EXTENDS Regions

\* NUMERIC_DOMAINS: every range has more than one value.
ASSUME AxisAssumption == \A f \in NumericFields : Domains[f].lo < Domains[f].hi

\* _fields_of: no axis for a string field.
AxisFields(items) ==
    { f \in NumericFields \cup BooleanFields :
        \E conds \in items : \E i \in DOMAIN conds : conds[i].field = f }

Satisfiable(conds) == RuleRegion(conds) # {}

\* What the device must not be on in: its blocks, and the invariants about it.
SpecItems(rules, invariants, device) ==
    { c \in { r.conds : r \in { x \in rules : x.device = device /\ x.type = "block" } }
            \cup { inv.conds : inv \in { x \in invariants : x.device = device } } :
        Satisfiable(c) }

-----------------------------------------------------------------------------
(* Cells *)

\* The thresholds within the domain, on both sides of one that is no whole number.
Cuts(f, items) ==
    LET values == UNION { { conds[i].value : i \in { j \in DOMAIN conds : conds[j].field = f } }
                          : conds \in items }
        around == IF f \in IntegerFields
                  THEN { 2 * (v \div 2) : v \in values } \cup { 2 * ((v + 1) \div 2) : v \in values }
                  ELSE values
    IN  { v \in around : Domains[f].lo <= v /\ v <= Domains[f].hi }

\* Between two neighbouring ends lies an interval that holds neither of the cuts.
Gap(f, cuts, lo, hi) ==
    LET open == I(lo, hi, lo \notin cuts, hi \notin cuts)
    IN  IF f \in IntegerFields THEN I(IntLo(open), IntHi(open), TRUE, TRUE) ELSE open

\* From the lowest up: each in the place that the number of lower ones gives it.
InOrder(tiles) ==
    [n \in 1..Cardinality(tiles) |->
        CHOOSE t \in tiles : Cardinality({ u \in tiles : u.lo + u.hi < t.lo + t.hi }) = n - 1]

Tiles(f, cuts) ==
    LET ends  == cuts \cup {Domains[f].lo, Domains[f].hi}
        gaps  == { Gap(f, cuts, e[1], e[2]) : e \in { d \in ends \X ends :
                     d[1] < d[2] /\ ~\E c \in ends : d[1] < c /\ c < d[2] } }
    IN  { I(c, c, TRUE, TRUE) : c \in cuts }
            \cup { g \in gaps : ~EmptyInterval(g, f \in IntegerFields) }

Atoms(f, cuts) == InOrder(Tiles(f, cuts))

\* The point that stands for a cell.
Sample(f, cell) ==
    IF f \in BooleanFields THEN cell ELSE SampleInterval(cell, f \in IntegerFields, Typical(f))

\* The items whose conditions on f hold at v (_atom_matches).
AgreeAt(f, v, items) ==
    { conds \in items : \A i \in DOMAIN conds :
        conds[i].field = f => ConditionHolds(conds[i], [g \in {f} |-> v]) }

\* Neighbours that every item treats alike become one cell.
Merged_AtEnds(f, atoms, items) ==
    FoldLeft(LAMBDA cells, a :
                LET last  == Last(cells)
                    alike == AgreeAt(f, a.lo, items) = AgreeAt(f, last.hi, items)
                IN  IF alike THEN Append(Front(cells), I(last.lo, a.hi, last.loc, a.hic))
                    ELSE Append(cells, a),
             <<Head(atoms)>>, Tail(atoms))

Merged(f, atoms, items) ==
    FoldLeft(LAMBDA cells, a :
                LET last  == Last(cells)
                    alike == AgreeAt(f, Sample(f, a), items) = AgreeAt(f, Sample(f, last), items)
                IN  IF alike THEN Append(Front(cells), I(last.lo, a.hi, last.loc, a.hic))
                    ELSE Append(cells, a),
             <<Head(atoms)>>, Tail(atoms))

Axis(f, items, precursor) ==
    IF f \in BooleanFields
    THEN IF f = "is_home" /\ precursor THEN <<TRUE, Missing, FALSE>> ELSE <<FALSE, TRUE>>
    ELSE Merged(f, Atoms(f, Cuts(f, items)), items)

\* One cell of each axis, by its place in it.
CellContexts(axes) ==
    { c \in [DOMAIN axes -> UNION { DOMAIN axes[f] : f \in DOMAIN axes }] :
        \A f \in DOMAIN axes : c[f] \in DOMAIN axes[f] }

\* The context a state stands for; what has no axis is absent from it.
Point(axes, c) ==
    [f \in Fields |-> IF f \in DOMAIN c THEN Sample(f, axes[f][c[f]]) ELSE Missing]

Forbidden(items, ctx) ==
    \E conds \in items : Matches([conds |-> conds], ctx)

-----------------------------------------------------------------------------
(* States and events *)

\* event_class.  Only turn_off can be forced; what the world does cannot be refused.
CONTROLLABLE == {"turn_on"} \ SAFE_ACTIONS
FORCIBLE == SAFE_ACTIONS \cap {"turn_off"}

Of(commands) == { <<"device", e>> : e \in commands }

CommandsIn(mode, manual) ==
    {"get_status"} \cup IF mode = "on" THEN {"turn_off"}
                        ELSE {"turn_on"} \cup (IF manual THEN {"manual_on"} ELSE {})

ModeAfter(mode, command) ==
    CASE command = "turn_off" -> "off"
      [] command \in {"turn_on", "manual_on"} -> "on"
      [] command = "get_status" -> mode

\* Where a field goes from its i-th cell of n: a truth value and presence round in
\* their order, a number to the cell before or after.
Drifts(f, i, n) ==
    IF f \in BooleanFields THEN { [event |-> <<f, "next">>, to |-> (i % n) + 1] }
    ELSE { [event |-> <<f, IF k > i THEN "up" ELSE "down">>, to |-> k]
           : k \in {i - 1, i + 1} \cap 1..n }

States(axes) == {"off", "on"} \X CellContexts(axes)

Delta(axes, manual) ==
    UNION { { [from |-> q, event |-> <<"device", e>>, to |-> <<ModeAfter(q[1], e), q[2]>>]
              : e \in CommandsIn(q[1], manual) }
            \cup UNION { { [from |-> q, event |-> d.event, to |-> <<q[1], [q[2] EXCEPT ![f] = d.to]>>]
                           : d \in Drifts(f, q[2][f], Len(axes[f])) } : f \in DOMAIN axes }
            : q \in States(axes) }

\* At first the device is off, somebody is home, and the rest is as usual.
InitialCell(f, axis) ==
    CHOOSE i \in DOMAIN axis :
        IF f \in BooleanFields THEN axis[i] = (f = "is_home")
        ELSE ~EmptyInterval(CommonInterval(axis[i], I(Typical(f), Typical(f), TRUE, TRUE)), FALSE)

BuildPlant(items, cuts, manual, precursor) ==
    LET fields == AxisFields(items \cup cuts)
        axes   == [f \in fields |-> Axis(f, items \cup cuts, precursor)]
        delta  == Delta(axes, manual)
    IN  [ states       |-> States(axes),
          initial      |-> <<"off", CHOOSE c \in CellContexts(axes) :
                                          \A f \in fields : c[f] = InitialCell(f, axes[f])>>,
          bad          |-> { q \in States(axes) : q[1] = "on" /\ Forbidden(items, Point(axes, q[2])) },
          events       |-> { d.event : d \in delta },
          controllable |-> Of(CONTROLLABLE),
          forcible     |-> Of(FORCIBLE),
          delta        |-> delta ]

\* The estimate the cap is compared with, before any state is built.
StateCount(items, cuts, precursor) ==
    LET all == items \cup cuts
    IN  2 * FoldSet(LAMBDA f, n : n * Len(Axis(f, all, precursor)), 1, AxisFields(all))
=============================================================================
