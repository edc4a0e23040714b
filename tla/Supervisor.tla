----------------------------- MODULE Supervisor -----------------------------
(***************************************************************************)
(* The synthesis of policy_authoring.controllability: which part of a      *)
(* plant's legal states a supervisor can keep, once when it may only       *)
(* refuse commands (supcon), and once when it may also force one           *)
(* (supcon_forcing), one pass of the fixpoint at a time; the class that    *)
(* follows; and the closed loop that such a supervisor would run in.       *)
(*                                                                         *)
(* A plant is any finite deterministic automaton: build_plant makes them   *)
(* (module Plant), and callers may bring their own.                        *)
(***************************************************************************)
EXTENDS Naturals, FiniteSets

CONSTANT Plants     \* the plants that are asked about

\* A transition of the plant.
Edges(p) == [from : p.states, event : p.events, to : p.states]

IsPlant(p) ==
    /\ IsFiniteSet(p.states)
    /\ p.initial \in p.states
    /\ p.bad \subseteq p.states
    /\ p.delta \subseteq Edges(p)

ASSUME PlantAssumption == \A p \in Plants : IsPlant(p)

Mechanisms == {"guard", "forcing"}

VARIABLES plant,
          pc,       \* the mechanism at work, then what has come of it: "live" when
                    \* the rules run without the supervisor that was computed
          Q,        \* the legal states not yet removed
          passes,   \* passes of the fixpoint so far
          removed,  \* removed[m][q]: in which pass m removed q (bad states: before all)
          good,     \* good[m]: the states m keeps
          under,    \* the supervisor the closed loop runs under
          at        \* the state of the closed loop

vars == <<plant, pc, Q, passes, removed, good, under, at>>

Legal(p) == p.states \ p.bad

-----------------------------------------------------------------------------
(* One pass of the fixpoint *)

\* What leaves S from q and cannot be refused.
Escapes(p, q, S) ==
    { d \in p.delta : d.from = q /\ d.event \notin p.controllable /\ d.to \notin S }

\* What may be forced at q and stays inside S.
SafeForces(p, q, S) ==
    { d \in p.delta : d.from = q /\ d.event \in p.forcible /\ d.to \in S }

\* Forced where an event escapes, but taken whether it stays or not.
Holds_AnyForce(p, m, q, S) ==
    \/ Escapes(p, q, S) = {}
    \/ m = "forcing" /\ \E d \in p.delta : d.from = q /\ d.event \in p.forcible

\* The mechanism can keep q inside S.
Holds(p, m, q, S) ==
    \/ Escapes(p, q, S) = {}
    \/ m = "forcing" /\ SafeForces(p, q, S) # {}

Lost(p, m, S) == { q \in S : ~Holds(p, m, q, S) }

\* The states of S that are kept only by forcing.
ForcingStates(p, m, S) == { q \in S : m = "forcing" /\ Escapes(p, q, S) # {} }

-----------------------------------------------------------------------------
(* The supervisor of a set of states, and its closed loop *)

\* Where a state is left by force, only forced steps; elsewhere all that stay.
Enabled(p, m, S) ==
    { d \in p.delta : /\ d.from \in S /\ d.to \in S
                      /\ d.from \in ForcingStates(p, m, S) => d.event \in p.forcible }

Refused_BadOnly(p, m, S) ==
    { d \in p.delta : d.from \in S /\ d.event \in p.controllable /\ d.to \in p.bad }

Refused(p, m, S) ==
    { d \in p.delta : d.from \in S /\ d.event \in p.controllable } \ Enabled(p, m, S)

\* The states within n steps of q, over a set of transitions.
Within(q, steps, n) ==
    LET Upto[k \in 0..n] ==
            IF k = 0 THEN {q}
            ELSE LET before == Upto[k - 1]
                 IN  before \cup { d.to : d \in { e \in steps : e.from \in before } }
    IN  Upto[n]

Reached(p, steps) == Within(p.initial, steps, Cardinality(p.states))

RetainsLegal(p, m) == Legal(p) \subseteq good[m]
RetainsInitial(p, m) == p.initial \in good[m]

ClosedLoopSafe(p, m) ==
    RetainsInitial(p, m) /\ Reached(p, Enabled(p, m, good[m])) \cap p.bad = {}

Enforces(p, m) == RetainsLegal(p, m) /\ ClosedLoopSafe(p, m)

Class(p) ==
    IF Enforces(p, "guard") THEN "GUARD_ENFORCEABLE"
    ELSE IF Enforces(p, "forcing") THEN "NEEDS_OBLIGATION"
    ELSE "UNENFORCEABLE"

-----------------------------------------------------------------------------
(* The witness trace *)

\* The steps recorded for a removed state: one that could not be refused, to a
Because(p, m) ==
    { d \in p.delta : /\ d.from \in DOMAIN removed[m] /\ d.to \in DOMAIN removed[m]
                      /\ d.event \notin p.controllable
                      /\ removed[m][d.from] > removed[m][d.to] }

\* Where the recorded steps from q can end: at the first bad state, or without one.
TailEnds(p, m, q) ==
    LET steps == { d \in Because(p, m) : d.from \notin p.bad }
    IN  { e \in Within(q, steps, Cardinality(p.states)) : \A d \in steps : d.from # e }

\* The states of S nearest to q, over the given steps (_bfs).
Nearest(p, q, steps, S) ==
    LET near == { n \in 0..Cardinality(p.states) : Within(q, steps, n) \cap S # {} }
    IN  IF near = {} THEN {}
        ELSE Within(q, steps, CHOOSE n \in near : \A k \in near : n <= k) \cap S

OrElse(S, T) == IF S # {} THEN S ELSE T

\* The states the trace of a rule that the guard cannot enforce may end in.
TraceEnds_ForcedReasons(p) ==
    UNION { TailEnds(p, "forcing", q)
            : q \in OrElse(Nearest(p, p.initial, p.delta, Legal(p) \ good["guard"]), {p.initial}) }

TraceEnds(p) ==
    LET free    == { d \in p.delta : d.event \notin p.controllable }
        lost(m) == Nearest(p, p.initial, p.delta, Legal(p) \ good[m])
        bad(q)  == Nearest(p, q, p.delta, p.bad)
    IN  IF Class(p) = "NEEDS_OBLIGATION" THEN
            UNION { TailEnds(p, "guard", q) : q \in OrElse(lost("guard"), {p.initial}) }
        ELSE OrElse(Nearest(p, p.initial, free, p.bad),
                    UNION { OrElse(bad(e), {e})
                            : e \in UNION { TailEnds(p, "forcing", q)
                                    : q \in OrElse(lost("forcing"), OrElse(bad(p.initial), {p.initial})) } })

-----------------------------------------------------------------------------

Pending == [m \in Mechanisms |-> {}]

InitWith(p) ==
    /\ plant = p
    /\ pc = "guard"
    /\ Q = Legal(p)
    /\ passes = 0
    /\ removed = [m \in Mechanisms |-> [q \in p.bad |-> 0]]
    /\ good = Pending
    /\ under = "guard"
    /\ at = p.initial

Prune ==
    LET lost == Lost(plant, pc, Q)
    IN  /\ pc \in Mechanisms
        /\ lost # {}
        /\ Q' = Q \ lost
        /\ passes' = passes + 1
        /\ removed' = [removed EXCEPT ![pc] =
                         [q \in DOMAIN @ \cup lost |-> IF q \in lost THEN passes + 1 ELSE @[q]]]
        /\ UNCHANGED <<plant, pc, good, under, at>>

\* A pass that finds nothing ends the synthesis of the mechanism.
Settle ==
    /\ pc \in Mechanisms
    /\ Lost(plant, pc, Q) = {}
    /\ good' = [good EXCEPT ![pc] = Q]
    /\ pc' = IF pc = "guard" THEN "forcing" ELSE "classified"
    /\ Q' = Legal(plant)
    /\ passes' = 0
    /\ UNCHANGED <<plant, removed, under, at>>

\* SynthesisTimeout, in any pass of either mechanism.
TimesOut ==
    /\ pc \in Mechanisms
    /\ pc' = "not_computed"
    /\ UNCHANGED <<plant, Q, passes, removed, good, under, at>>

\* The supervisor that is reported runs: the guard where it keeps the initial
\* state (blocking_supervisor_exists), or the forcing one where that does.
Install(m) ==
    /\ pc = "classified"
    /\ RetainsInitial(plant, m)
    /\ pc' = "loop"
    /\ under' = m
    /\ UNCHANGED <<plant, Q, passes, removed, good, at>>

\* Whatever the plant can do happens, unless it is refused, or preempted.
Move(d) ==
    /\ pc = "loop"
    /\ d.from = at
    /\ d \notin Refused(plant, under, good[under])
    /\ at \in ForcingStates(plant, under, good[under]) => d \in Enabled(plant, under, good[under])
    /\ at' = d.to
    /\ UNCHANGED <<plant, pc, Q, passes, removed, good, under>>

Synthesize == Prune \/ Settle \/ TimesOut

Init == \E p \in Plants : InitWith(p)

Next ==
    \/ Synthesize
    \/ \E m \in Mechanisms : Install(m)
    \/ \E d \in plant.delta : Move(d)

Spec == Init /\ [][Next]_vars

-----------------------------------------------------------------------------
(* Properties *)

\* Definition 2 and 3 of the papers the module follows, on sets of states.
Controllable(p, S) ==
    \A d \in p.delta : d.from \in S /\ d.event \notin p.controllable => d.to \in S

ForciblyControllable(p, S) ==
    \A q \in S :
        \/ \A d \in p.delta : d.from = q /\ d.event \notin p.controllable => d.to \in S
        \/ \E d \in p.delta : d.from = q /\ d.event \in p.forcible /\ d.to \in S

Keeps(p, m, S) == IF m = "guard" THEN Controllable(p, S) ELSE ForciblyControllable(p, S)

Done(m) == IF m = "guard" THEN pc \notin {"guard", "not_computed"}
           ELSE pc \in {"classified", "loop", "live"}

TypeOK ==
    /\ IsPlant(plant)
    /\ pc \in Mechanisms \cup {"classified", "not_computed", "loop", "live"}
    /\ Q \subseteq Legal(plant)
    /\ passes \in Nat
    /\ good \in [Mechanisms -> SUBSET Legal(plant)]
    /\ under \in Mechanisms
    /\ at \in plant.states

\* What a mechanism keeps is the largest set of legal states it can keep the plant
\* in: it can keep it in there, and every other such set is part of it.
\* ("Largest subset of the legal states that is safe under the mechanism", _synthesize)
GoodIsLargest ==
    \A m \in Mechanisms : Done(m) =>
        /\ Keeps(plant, m, good[m])
        /\ \A S \in SUBSET Legal(plant) : Keeps(plant, m, S) => S \subseteq good[m]

\* Under a supervisor that keeps the initial state no forbidden state is reached,
\* whatever the plant does that cannot be refused; and the loop is never stuck by
\* force: where a step is preempted, one is there to be forced.  (_control, _reach)
LoopStaysLegal ==
    pc = "loop" =>
        /\ at \in good[under]
        /\ at \in ForcingStates(plant, under, good[under]) =>
              SafeForces(plant, at, good[under]) # {}

\* The class is the one the theory defines on the legal language, and does not
\* depend on how the fixpoint got there.  (module docstring, "Mapping onto DeviceWeave")
ClassExact ==
    LET legal == Legal(plant)
    IN  pc = "classified" =>
        /\ Class(plant) = "GUARD_ENFORCEABLE" <=>
              Controllable(plant, legal) /\ plant.initial \in legal
        /\ Class(plant) = "NEEDS_OBLIGATION" <=>
              /\ ~Controllable(plant, legal)
              /\ ForciblyControllable(plant, legal) /\ plant.initial \in legal

\* When every state can be reached, the trace of a rule the guard cannot enforce ends
\* in a forbidden state.  (_witness: "so the trace ends in a bad state")
TraceEndsBad ==
    /\ pc = "classified"
    /\ Class(plant) # "GUARD_ENFORCEABLE"
    /\ Reached(plant, plant.delta) = plant.states
    => TraceEnds(plant) # {} /\ TraceEnds(plant) \subseteq plant.bad

\* Both: what is reported of a rule is right, and its trace shows why.
\* (_classify and _witness)
FindingOK == ClassExact /\ TraceEndsBad
=============================================================================
