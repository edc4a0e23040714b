----------------------------- MODULE PolicyGate -----------------------------
(***************************************************************************)
(* Policies at work: containers of the functions that execute commands     *)
(* (app.handler, the agents behind it) judge every step of a command with  *)
(* the rules they cached from the policy table, while authors write to it. *)
(*                                                                         *)
(*   policy_engine.policy_loader     the cache of one container            *)
(*   policy_engine.context_provider  the context, read once per command    *)
(*   policy_engine.middleware        enforce and filter_steps              *)
(*   execution_planner               the steps that passed                 *)
(*                                                                         *)
(* Time is a number of seconds that only ever counts down to a deadline or *)
(* up to a limit, so behaviours go on for ever in finitely many states.    *)
(***************************************************************************)
EXTENDS PolicyStore, PolicyVerdict

CONSTANTS
    Containers,
    Commands,       \* the plans a command may resolve to: sequences of [dev, act]
    TTL, RetryTTL,  \* _TTL_SECONDS, _RETRY_TTL_SECONDS
    LambdaTimeout,
    LoadFaults      \* whether a load of the policies may fail

\* The steps of the plans.
Steps == UNION { { p[i] : i \in DOMAIN p } : p \in Commands }

ASSUME GateAssumption ==
    /\ \A p \in Commands : p \in Seq(Steps)
    /\ \A r \in Rules : r.key \in Nat
    /\ TTL \in Nat \ {0} /\ RetryTTL \in 1..TTL /\ LambdaTimeout \in Nat
    /\ LoadFaults \in BOOLEAN

VARIABLES
    cache,      \* cache[c]: the rules container c holds
    left,       \* left[c]: seconds until they expire
    cpc,        \* where the command of each container is
    plan, ctx,  \* its steps and the context it was given
    verdicts,   \* the verdicts of the steps judged so far
    elapsed,    \* seconds since the command began
    age,        \* history: age[p]: seconds since p came into or out of force, up to TTL
    calm,       \* history: seconds since a load of c failed, up to RetryTTL
    known       \* history: what c last loaded and has been in force ever since

history == <<age, calm, known>>

gateVars == <<cache, left, cpc, plan, ctx, verdicts, elapsed>>
vars == <<storeVars, gateVars, history>>

Policies == [id : RuleIds, version : 1..MaxVersion, rule : Rules]

TypeOK ==
    /\ StoreTypeOK
    /\ cache \in [Containers -> SUBSET Policies]
    /\ left \in [Containers -> 0..TTL]
    /\ cpc \in [Containers -> {"idle", "context", "judge"}]
    /\ plan \in [Containers -> Commands \cup {<< >>}]
    /\ \A c \in Containers : Len(verdicts[c]) <= Len(plan[c])
    /\ ctx \in [Containers -> [is_home : BOOLEAN]]
    /\ elapsed \in [Containers -> 0..LambdaTimeout]
    /\ age \in [Policies -> 0..TTL]
    /\ calm \in [Containers -> 0..RetryTTL]
    /\ known \in [Containers -> SUBSET Policies]

Init ==
    /\ StoreInit
    /\ cache = [c \in Containers |-> {}]
    /\ left = [c \in Containers |-> 0]
    /\ cpc = [c \in Containers |-> "idle"]
    /\ plan = [c \in Containers |-> << >>]
    /\ ctx = [c \in Containers |-> [is_home |-> TRUE]]
    /\ verdicts = [c \in Containers |-> << >>]
    /\ elapsed = [c \in Containers |-> 0]
    /\ age = [p \in Policies |-> TTL]
    /\ calm = [c \in Containers |-> RetryTTL]
    /\ known = [c \in Containers |-> {}]

-----------------------------------------------------------------------------
(* Authors *)

Write(w) ==
    /\ StoreStep(w)
    /\ age' = [p \in Policies |-> IF (p \in InForce) # (p \in InForce') THEN 0 ELSE age[p]]
    /\ known' = [c \in Containers |-> known[c] \cap InForce']
    /\ UNCHANGED <<gateVars, calm>>

-----------------------------------------------------------------------------
(* A command *)

Leave(c) ==
    /\ cpc' = [cpc EXCEPT ![c] = "idle"]
    /\ plan' = [plan EXCEPT ![c] = << >>]
    /\ ctx' = [ctx EXCEPT ![c] = [is_home |-> TRUE]]
    /\ verdicts' = [verdicts EXCEPT ![c] = << >>]
    /\ elapsed' = [elapsed EXCEPT ![c] = 0]

Start(c, p) ==
    /\ cpc[c] = "idle"
    /\ cpc' = [cpc EXCEPT ![c] = "context"]
    /\ plan' = [plan EXCEPT ![c] = p]
    /\ UNCHANGED <<storeVars, cache, left, ctx, verdicts, elapsed, history>>

\* get_context, once per command, whoever is home at that moment.  What resolves the
\* command may take long after it.
ReadContext(c) ==
    /\ cpc[c] = "context"
    /\ \E h \in BOOLEAN : ctx' = [ctx EXCEPT ![c] = [is_home |-> h]]
    /\ cpc' = [cpc EXCEPT ![c] = "judge"]
    /\ UNCHANGED <<storeVars, cache, left, plan, verdicts, elapsed, history>>

\* enforce: the verdict of a list of rules on one step.
Verdict(policies, s, context) ==
    ComputeVerdict([p \in policies |-> p.rule], s.dev, s.act, context)

Judging(c) == cpc[c] = "judge" /\ Len(verdicts[c]) < Len(plan[c])

JudgeWith(c, policies) ==
    /\ Judging(c)
    /\ verdicts' = [verdicts EXCEPT
                      ![c] = Append(@, Verdict(policies, plan[c][Len(@) + 1], ctx[c]))]
    /\ UNCHANGED <<storeVars, cpc, plan, ctx, elapsed, age>>

JudgeFromCache_NoExpiry(c) ==
    /\ JudgeWith(c, cache[c])
    /\ UNCHANGED <<cache, left, calm, known>>

\* The cache has not expired.
JudgeFromCache(c) ==
    /\ left[c] > 0
    /\ JudgeWith(c, cache[c])
    /\ UNCHANGED <<cache, left, calm, known>>

Load(c, policies, seconds) ==
    /\ left[c] = 0
    /\ cache' = [cache EXCEPT ![c] = policies]
    /\ left' = [left EXCEPT ![c] = seconds]
    /\ JudgeWith(c, policies)

JudgeLoaded(c) ==
    /\ Load(c, InForce, TTL)
    /\ known' = [known EXCEPT ![c] = InForce]
    /\ UNCHANGED calm

\* The load fails: the rules held so far stay, for a shorter time.
LoadFails_Forgets(c) == Load(c, {}, RetryTTL)

LoadFails(c) == Load(c, cache[c], RetryTTL)

JudgeLoadFailed(c) ==
    /\ LoadFaults
    /\ LoadFails(c)
    /\ calm' = [calm EXCEPT ![c] = 0]
    /\ UNCHANGED known

\* The steps that passed go to the adapters; the answer names the blocked ones.
Execute(c) ==
    /\ cpc[c] = "judge" /\ Len(verdicts[c]) = Len(plan[c])
    /\ Leave(c)
    /\ UNCHANGED <<storeVars, cache, left, history>>

Cold(c) ==
    /\ cache' = [cache EXCEPT ![c] = {}]
    /\ left' = [left EXCEPT ![c] = 0]

\* AWS recycles an idle container, and one that ran into the Lambda timeout.
Recycle(c) ==
    /\ cpc[c] = "idle" \/ elapsed[c] = LambdaTimeout
    /\ Cold(c)
    /\ Leave(c)
    /\ known' = [known EXCEPT ![c] = {}]
    /\ UNCHANGED <<storeVars, age, calm>>

Later(n, most) == IF n < most THEN n + 1 ELSE most

Tick ==
    /\ \A c \in Containers : cpc[c] # "idle" => elapsed[c] < LambdaTimeout
    /\ left' = [c \in Containers |-> IF left[c] = 0 THEN 0 ELSE left[c] - 1]
    /\ elapsed' = [c \in Containers |-> IF cpc[c] = "idle" THEN 0 ELSE elapsed[c] + 1]
    /\ age' = [p \in Policies |-> Later(age[p], TTL)]
    /\ calm' = [c \in Containers |-> Later(calm[c], RetryTTL)]
    /\ UNCHANGED <<storeVars, cache, cpc, plan, ctx, verdicts, known>>

Progress(c) == ReadContext(c) \/ JudgeFromCache(c) \/ JudgeLoaded(c) \/ JudgeLoadFailed(c)
               \/ Execute(c)

Next ==
    \/ \E w \in Writers : Write(w)
    \/ \E c \in Containers : \/ \E p \in Commands : Start(c, p)
                             \/ Progress(c)
                             \/ Recycle(c)
    \/ Tick

Spec == Init /\ [][Next]_vars

-----------------------------------------------------------------------------
(* Properties *)

Judged(c) == Len(verdicts'[c]) = Len(verdicts[c]) + 1
Given(c)   == verdicts'[c][Len(verdicts'[c])]
Step(c)   == plan[c][Len(verdicts[c]) + 1]
Unsafe(s) == s.act \notin {"turn_off", "get_status"}

\* The block rules that speak of the step c is judging.
Blocking(c, p) ==
    /\ p.rule.type = "block"
    /\ Canonical[p.rule.device] = Canonical[Step(c).dev]
    /\ Matches(p.rule, ctx[c])

StandingBlocksStep ==
    \A c \in Containers, p \in InForce :
        /\ Judged(c) /\ calm'[c] = RetryTTL /\ Unsafe(Step(c))
        /\ age[p] = TTL /\ Blocking(c, p)
        => Given(c).verdict = "block"

GoneBlocksStep ==
    \A c \in Containers : Judged(c) /\ calm'[c] = RetryTTL /\ Given(c).verdict = "block" =>
        \E p \in Policies : /\ p \in InForce \/ age[p] < TTL
                            /\ Blocking(c, p) /\ p.rule.key = Given(c).key

LoadedBlocksStep ==
    \A c \in Containers, p \in Policies :
        Judged(c) /\ p \in known[c] /\ Unsafe(Step(c)) /\ Blocking(c, p)
        => Given(c).verdict = "block"

\* "A policy authored via POST /policies/author takes effect within 60 seconds across
\* all execution Lambda containers": unless loads of the container failed in the last
\* ten seconds, no step passes a block that has been in force for the TTL.
\* (policy_loader)
StandingBlocksHold == [][StandingBlocksStep]_vars

\* And a rule that was deleted or superseded stops blocking as soon.
GoneBlocksLetGo == [][GoneBlocksStep]_vars

\* A failing load forgets nothing: a block that a container has loaded holds there as
\* long as it stays in force and the container is not recycled.
\* (policy_loader._reload: "retain stale cache")
LoadedBlocksHold == [][LoadedBlocksStep]_vars
=============================================================================
