---------------------------- MODULE Enforcement ----------------------------
(***************************************************************************)
(* The enforceability finding of an author's rules                         *)
(* (controllability.enforceability, from check_new_rule or offline): the   *)
(* plant of the device, the synthesis on it (Supervisor), and beside them  *)
(* the world, in which the evaluator alone guards the device, every number *)
(* is itself and not its cell, and midnight follows on the last hour.      *)
(***************************************************************************)
EXTENDS Supervisor, Plant

CONSTANTS
    Questions,  \* what is asked: rules, invariants, breakpoints, assumptions, the cap
    Worlds,     \* the contexts of the world, every field present
    NoQuestion, \* a plant of the caller's own
    NoState,
    NoCap

VARIABLES asked, world

ItemsOf(a) == SpecItems(a.rules, a.invariants, a.device)

Built(a) == BuildPlant(ItemsOf(a), a.cuts, a.manual, a.precursor)

\* PlantTooLarge, before the plant is built.
TooLarge(a) == a.cap # NoCap /\ StateCount(ItemsOf(a), a.cuts, a.precursor) > a.cap

\* _empty_synthesis
NoPlant == [states |-> {NoState}, initial |-> NoState, bad |-> {}, events |-> {},
            controllable |-> {}, forcible |-> {}, delta |-> {}]

\* What the rule schema lets through; an order between truth values has no region,
\* and the author route refuses it.  Thresholds are even in half units.
Typed(conds) ==
    /\ conds \in Seq(ToSet(conds))
    /\ \A i \in DOMAIN conds :
          LET c == conds[i]
          IN  /\ c.field \in Fields
              /\ c.op \in {"<", "<=", ">", ">=", "==", "!="}
              /\ c.field \in NumericFields => c.value \in Int
              /\ c.field \in NumericFields \ IntegerFields => c.value % 2 = 0
              /\ c.field \in BooleanFields => c.value \in BOOLEAN
              /\ c.field \notin NumericFields => c.op \in {"==", "!="}

\* Device types are stored in their canonical form.
ASSUME QuestionAssumption ==
    /\ NoPlant \in Plants
    /\ \A a \in Questions :
          /\ ~TooLarge(a) => Built(a) \in Plants
          /\ IsFiniteSet(a.rules) /\ IsFiniteSet(a.invariants) /\ IsFiniteSet(a.cuts)
          /\ \A r \in a.rules : /\ Typed(r.conds)
                                /\ Canonical[r.device] = Canonical[a.device] => r.device = a.device
          /\ \A inv \in a.invariants : Typed(inv.conds)
          /\ \A conds \in a.cuts : Typed(conds)

\* In the world every field can be read and is within its range.
ASSUME WorldAssumption ==
    /\ Missing \notin Int \cup BOOLEAN
    /\ \A ctx \in Worlds :
          /\ \A f \in NumericFields :
                ctx[f] \in Int /\ Domains[f].lo <= ctx[f] /\ ctx[f] <= Domains[f].hi
          /\ \A f \in IntegerFields : ctx[f] % 2 = 0
          /\ \A f \in BooleanFields : ctx[f] \in BOOLEAN
          /\ \A f \in StringFields : ctx[f] # Missing

\* A device without anything to forbid is passed over.
Ask ==
    \/ /\ Init
       /\ asked = NoQuestion
    \/ \E a \in { q \in Questions : ItemsOf(q) # {} } :
          /\ asked = a
          /\ IF TooLarge(a)
             THEN /\ plant = NoPlant /\ pc = "not_computed" /\ Q = {} /\ passes = 0
                  /\ removed = Pending /\ good = Pending
                  /\ under = "guard" /\ at = NoState
             ELSE InitWith(Built(a))

Synthesis ==
    /\ Next
    /\ UNCHANGED <<asked, world>>

-----------------------------------------------------------------------------
(* The world.  The rules are stored whatever the finding says, and the     *)
(* evaluator is all that guards them.                                      *)

Refuses(a, ctx) ==
    ComputeVerdict(SetToSeq(a.rules), a.device, "turn_on", ctx).verdict = "block"

GoLive ==
    /\ asked # NoQuestion
    /\ pc = "classified"
    /\ pc' = "live"
    /\ \E ctx \in Worlds : world' = [mode |-> "off", ctx |-> ctx]
    /\ UNCHANGED <<plant, Q, passes, removed, good, under, at, asked>>

Command(e) ==
    /\ pc = "live"
    /\ e \in CommandsIn(world.mode, asked.manual)
    /\ e \in CONTROLLABLE => ~Refuses(asked, world.ctx)
    /\ world' = [world EXCEPT !.mode = ModeAfter(@, e)]
    /\ UNCHANGED <<vars, asked>>

\* One field changes: a number by the least there is, the hour round midnight.
Beside(ctx) ==
    { c \in Worlds : \E f \in Fields :
        /\ \A g \in Fields \ {f} : c[g] = ctx[g]
        /\ f \in NumericFields =>
              \/ c[f] - ctx[f] \in (IF f \in IntegerFields THEN {-2, 2} ELSE {-1, 1})
              \/ f \in IntegerFields /\ {c[f], ctx[f]} = {Domains[f].lo, Domains[f].hi} }

WorldChanges ==
    /\ pc = "live"
    /\ \E c \in Beside(world.ctx) : world' = [world EXCEPT !.ctx = c]
    /\ UNCHANGED <<vars, asked>>

EnforceInit == Ask /\ world = NoQuestion

EnforceNext ==
    \/ Synthesis
    \/ GoLive
    \/ \E e \in {"turn_on", "turn_off", "get_status", "manual_on"} : Command(e)
    \/ WorldChanges

EnforceSpec == EnforceInit /\ [][EnforceNext]_<<vars, asked, world>>

-----------------------------------------------------------------------------
(* Properties *)

WithoutLabels(items) ==
    \A conds \in items : \A i \in DOMAIN conds : conds[i].field \notin StringFields

Inside(f, v, cell) ==
    IF f \in BooleanFields THEN v = cell
    ELSE ~EmptyInterval(CommonInterval(cell, I(v, v, TRUE, TRUE)), FALSE)

\* The cells cut the contexts without gap or overlap; all points of one are forbidden
\* or none is, as its sample; they are in order and none could be joined with the next.
\* So what is shown of the plant holds of the world.
\* ("an unconstrained field cannot move the state into or out of the legal language")
CellsExact ==
    asked # NoQuestion /\ pc \in {"guard", "not_computed"} /\ passes = 0 /\ WithoutLabels(ItemsOf(asked)) =>
        LET items == ItemsOf(asked)
            axes  == [f \in AxisFields(items \cup asked.cuts) |->
                        Axis(f, items \cup asked.cuts, asked.precursor)]
            in(ctx) == { c \in CellContexts(axes) :
                           \A f \in DOMAIN axes : Inside(f, ctx[f], axes[f][c[f]]) }
        IN  /\ \A ctx \in Worlds :
                  /\ Cardinality(in(ctx)) = 1
                  /\ \A c \in in(ctx) : Forbidden(items, Point(axes, c)) <=> Forbidden(items, ctx)
            /\ \A f \in DOMAIN axes \cap NumericFields : \A i, j \in DOMAIN axes[f] : i < j =>
                  /\ \A v, w \in { ctx[f] : ctx \in Worlds } :
                        Inside(f, v, axes[f][i]) /\ Inside(f, w, axes[f][j]) => v < w
                  /\ j = i + 1 => AgreeAt(f, Sample(f, axes[f][i]), items \cup asked.cuts)
                                    # AgreeAt(f, Sample(f, axes[f][j]), items \cup asked.cuts)
            /\ plant # NoPlant =>
                  StateCount(items, asked.cuts, asked.precursor) = Cardinality(plant.states)

\* "an invariant, which is a block the rules are supposed to cover": wherever the plant
\* forbids the device to be on, the evaluator refuses to turn it on.
Covered(a) ==
    \A ctx \in Worlds : Forbidden(ItemsOf(a), ctx) => Refuses(a, ctx)

\* When a rule set that covers its invariants is called enforceable by the guard, the
\* device is never on in the world where a block of it matches, with no more than the
\* evaluator to prevent it.  ("The closed loop does not reach a forbidden state", _message)
GuardClassHolds ==
    /\ pc = "live"
    /\ Class(plant) = "GUARD_ENFORCEABLE"
    /\ WithoutLabels(ItemsOf(asked)) /\ Covered(asked)
    /\ world.mode = "on"
    => ~Refuses(asked, world.ctx)

\* What is found out about cells is true of the world, in which the temperature moves by
\* degrees and rules are judged by the evaluator.  (build_plant, enforceability)
ClassHoldsInWorld == CellsExact /\ GuardClassHolds

\* The same without the premise: also for a rule about a room.
\* (docs/controllability.md: "the supremal controllable sublanguage is the legal language")
GuardClassAlwaysHolds ==
    pc = "live" /\ Class(plant) = "GUARD_ENFORCEABLE" /\ world.mode = "on"
    => ~Refuses(asked, world.ctx)
=============================================================================
