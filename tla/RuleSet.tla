------------------------------ MODULE RuleSet ------------------------------
(***************************************************************************)
(* The rule-set analysis that stands between an author and the policy      *)
(* table (policy_authoring.rule_set_checker), and the author and delete    *)
(* routes that use it, one call at a time.                                 *)
(*                                                                         *)
(* The analysis works on the boxes of Regions; the evaluator               *)
(* (PolicyVerdict) is the reference it is checked against.                 *)
(***************************************************************************)
EXTENDS Regions

CONSTANTS
    Contexts,       \* the contexts with every field present
    DeviceTypes,    \* POLICY_SCOPE_TYPES
    Pool,           \* what the LLM compiler makes of the texts that authors submit; a rule
                    \* that is to get a new id has one of its own here
    Labels,         \* the labels rules name, "unknown", and "other" for any that none does
    Mistyped,       \* a condition's value that is of no use for its field
    InvariantSets,  \* the values of POLICY_INVARIANTS: sets of [device, conds]
    ListFaults,     \* whether list_policies may fail (and answer no rules)
    MaxRules        \* bound on the table (model checking only)

-----------------------------------------------------------------------------
(* analyze: what the rules of one device say about each other *)

Region(rules, i) == RuleRegion(rules[i].conds)
Boxes(rules, S) == UNION { Region(rules, i) : i \in S }

Unsatisfiable(rules) == { i \in DOMAIN rules : Region(rules, i) = {} }

Judged(rules, device, type) ==
    { i \in DOMAIN rules \ Unsatisfiable(rules) :
        rules[i].device = device /\ rules[i].type = type }

Blocks(rules, device) == Judged(rules, device, "block")

Overlap(A, B, exclude) ==
    UNION { RegionMinus({CommonBox(p[1], p[2])}, exclude)
            : p \in { q \in A \X B : ~EmptyBox(CommonBox(q[1], q[2])) } }

\* The modifiers that beat modifier i where both match.
Preferred_Later(rules, i) ==
    { j \in Judged(rules, rules[i].device, "modify") \ {i} : rules[j].key > rules[i].key }

Preferred(rules, i) ==
    { j \in Judged(rules, rules[i].device, "modify") \ {i} : rules[j].key < rules[i].key }

\* Modifiers that never apply.
Shadowed(rules) ==
    { i \in DOMAIN rules \ Unsatisfiable(rules) :
        /\ rules[i].type = "modify"
        /\ RegionMinus(Region(rules, i),
               Boxes(rules, Blocks(rules, rules[i].device) \cup Preferred(rules, i))) = {} }

\* <<allow, block>> and <<preferred, modifier>> pairs, with where they meet.
AllowConflicts(rules) ==
    { c \in { [at |-> i, with |-> j,
               where |-> Overlap(Region(rules, i), Region(rules, j), {})]
              : i \in DOMAIN rules \ Unsatisfiable(rules), j \in DOMAIN rules } :
        /\ rules[c.at].type = "allow"
        /\ c.with \in Blocks(rules, rules[c.at].device)
        /\ c.where # {} }

ModifyConflicts(rules) ==
    { c \in { [at |-> i, with |-> j,
               where |-> Overlap(Region(rules, i), Region(rules, j),
                                 Boxes(rules, Blocks(rules, rules[i].device)))]
              : i \in DOMAIN rules \ Unsatisfiable(rules), j \in DOMAIN rules } :
        /\ rules[c.at].type = "modify"
        /\ c.with \in Preferred(rules, c.at)
        /\ rules[c.with].params # rules[c.at].params
        /\ c.where # {} }

\* Rules whose contexts others of the same effect already cover.
Redundant(rules) ==
    { i \in DOMAIN rules \ Unsatisfiable(rules) :
        LET same == { j \in Judged(rules, rules[i].device, rules[i].type) \ {i} :
                        rules[i].type = "modify" => rules[j].params = rules[i].params }
        IN  same # {} /\ RegionMinus(Region(rules, i), Boxes(rules, same)) = {} }

\* Where an invariant has a counterexample.
Gaps(rules, inv) ==
    RegionMinus(RuleRegion(inv.conds), Boxes(rules, Blocks(rules, inv.device)))

-----------------------------------------------------------------------------
(* validate_policy: a compiled rule on its own *)

ValidCondition(c) ==
    /\ c.field \in Fields
    /\ c.op \in {"<", "<=", ">", ">=", "==", "!="}
    /\ c.value # Mistyped
    /\ c.field \in StringFields => c.op \in {"==", "!="}

\* A rule is "sure" unless the compiler rejects it, parts are missing or too many, or its
\* confidence is under CONFIDENCE_THRESHOLD.
Valid(raw) ==
    /\ raw.sure
    /\ Canonical[raw.device] \in DeviceTypes
    /\ raw.conds # << >> /\ \A i \in DOMAIN raw.conds : ValidCondition(raw.conds[i])
    /\ raw.type \in ActionTypes

Validated(raw) == [raw EXCEPT !.device = Canonical[@]]

\* A value has the type of its field.
HasType(f, v) ==
    /\ f \in NumericFields => v \in Int
    /\ f \in IntegerFields => v % 2 = 0
    /\ f \in BooleanFields => v \in BOOLEAN
    /\ v # Missing

FieldValues(f) ==
    IF f \in StringFields THEN Labels
    ELSE IF f \in BooleanFields THEN BOOLEAN
    ELSE { v \in Domains[f].lo..Domains[f].hi : f \in IntegerFields => v % 2 = 0 }

\* A threshold may be no whole number, also on a field that takes no other.
Typed(conds) ==
    \A i \in DOMAIN conds :
        LET c == conds[i]
        IN  /\ c.field \in Fields
            /\ c.op \in {"<", "<=", ">", ">=", "==", "!="}
            /\ c.field \in NumericFields => c.value \in Int
            /\ c.field \in NumericFields \ IntegerFields => c.value % 2 = 0
            /\ c.field \in BooleanFields => c.value \in BOOLEAN
            /\ c.field \in StringFields => c.op \in {"==", "!="} /\ c.value \in Labels \ {"other"}

\* A context may take any value in any field; a class is its own class; a rule's key
\* holds its id and its parameters (rule_winner_key).
ASSUME RuleSetAssumption ==
    /\ {"unknown", "other"} \subseteq Labels
    /\ \A device \in DeviceTypes : Canonical[device] = device
    /\ Contexts # {}
    /\ \A ctx \in Contexts :
          /\ ctx = [f \in Fields |-> ctx[f]]
          /\ \A f \in Fields : HasType(f, ctx[f])
          /\ \A f \in NumericFields : Domains[f].lo <= ctx[f] /\ ctx[f] <= Domains[f].hi
          /\ \A f \in Fields : \A v \in FieldValues(f) : [ctx EXCEPT ![f] = v] \in Contexts
    /\ \A raw \in Pool : Valid(raw) =>
          /\ {"id", "key", "device", "type", "params", "conds"} \subseteq DOMAIN raw
          /\ raw.conds \in Seq(ToSet(raw.conds)) /\ Typed(raw.conds)
          /\ raw.key \in Nat
          /\ \A other \in Pool : Valid(other) /\ other.key = raw.key =>
                other.id = raw.id /\ other.params = raw.params
    /\ \A invs \in InvariantSets : \A inv \in invs :
          /\ inv.device \in DeviceTypes
          /\ inv.conds \in Seq(ToSet(inv.conds)) /\ Typed(inv.conds)
          /\ \A i \in DOMAIN inv.conds :
                inv.conds[i].field \in BooleanFields => inv.conds[i].op \in {"==", "!="}

-----------------------------------------------------------------------------
(* The author and delete routes *)

VARIABLES table,        \* the active rules, as a scan lists them
          invariants,   \* POLICY_INVARIANTS of this deployment
          answer        \* the last answer: [rule, status]

vars == <<table, invariants, answer>>

\* The rules of S, as they are listed.
Kept(rules, S) == FoldLeft(LAMBDA kept, r : IF r \in S THEN Append(kept, r) ELSE kept, << >>, rules)

OfDevice(rules, device) == Kept(rules, { r \in ToSet(rules) : r.device = device })

\* Versions of one rule share the id; an older one is superseded.
Without(rules, rule) == Kept(rules, { r \in ToSet(rules) : r.id # rule.id })

\* check_new_rule: the new rule among the listed ones of its device.  Every
\* invariant is judged, whatever device it is about.
Checked(rule, existing) ==
    <<rule>> \o Without(OfDevice(existing, rule.device), rule)

Acceptable_SomeInvariant(rule, existing) ==
    /\ 1 \notin Unsatisfiable(Checked(rule, existing))
    /\ invariants # {} => \E inv \in invariants : Gaps(Checked(rule, existing), inv) = {}

Acceptable(rule, existing) ==
    /\ 1 \notin Unsatisfiable(Checked(rule, existing))
    /\ \A inv \in invariants : Gaps(Checked(rule, existing), inv) = {}

\* list_policies answers the rules of the device, or none when the query failed.
Listed(rule) ==
    {OfDevice(table, rule.device)} \cup (IF ListFaults THEN {<< >>} ELSE {})

TypeOK ==
    /\ table \in Seq({ Validated(raw) : raw \in { r \in Pool : Valid(r) } })
    /\ \A i, j \in DOMAIN table : table[i].id = table[j].id => i = j
    /\ invariants \in InvariantSets
    /\ answer.status \in {"none", "invalid", "created", "refused", "failed", "deleted"}

Init ==
    /\ table = << >>
    /\ invariants \in InvariantSets
    /\ answer = [status |-> "none"]

\* The compiler fails, or makes a rule of the text that is none.
Invalid ==
    /\ \E raw \in Pool : ~Valid(raw)
    /\ answer' = [status |-> "invalid"]
    /\ UNCHANGED <<table, invariants>>

Author(rule) ==
    /\ Len(Without(table, rule)) < MaxRules
    /\ \E existing \in Listed(rule) : Acceptable(rule, existing)
    /\ table' = Append(Without(table, rule), rule)
    /\ answer' = [status |-> "created", rule |-> rule]
    /\ UNCHANGED invariants

Refuse(rule) ==
    /\ \E existing \in Listed(rule) : ~Acceptable(rule, existing)
    /\ answer' = [status |-> "refused", rule |-> rule]
    /\ UNCHANGED <<table, invariants>>

\* save_policy supersedes the active version, and then the put fails.
SaveFails(rule) ==
    /\ \E existing \in Listed(rule) : Acceptable(rule, existing)
    /\ table' = Without(table, rule)
    /\ answer' = [status |-> "failed", rule |-> rule]
    /\ UNCHANGED invariants

Delete(i) ==
    /\ table' = Without(table, table[i])
    /\ answer' = [status |-> "deleted", rule |-> table[i]]
    /\ UNCHANGED invariants

\* The invariants are a setting of the deployment, judged again at the next author.
Redeploy ==
    /\ invariants' \in InvariantSets
    /\ UNCHANGED <<table, answer>>

Next ==
    \/ Redeploy \/ Invalid
    \/ \E raw \in { r \in Pool : Valid(r) } :
          LET rule == Validated(raw) IN Author(rule) \/ Refuse(rule) \/ SaveFails(rule)
    \/ \E i \in DOMAIN table : Delete(i)

Spec == Init /\ [][Next]_vars

-----------------------------------------------------------------------------
(* Properties.  TurnOn stands for any action the rules may stop. *)

TurnOn(rules, device, ctx) == ComputeVerdict(rules, device, "turn_on", ctx)

In(ctx, box) ==
    \A f \in Fields :
        IF f \in StringFields THEN
            (box[f].all \/ ctx[f] \in box[f].inc) /\ ctx[f] \notin box[f].exc
        ELSE IF f \in BooleanFields THEN ctx[f] \in box[f]
        ELSE /\ ctx[f] > box[f].lo \/ (ctx[f] = box[f].lo /\ box[f].loc)
             /\ ctx[f] < box[f].hi \/ (ctx[f] = box[f].hi /\ box[f].hic)

\* The boxes of what one rule matches and another does not are disjoint and hold
\* exactly the contexts the evaluator says.  (rule_region, box_minus)
RegionExact ==
    \A i, j \in DOMAIN table :
        LET rest == RegionMinus(Region(table, i), IF i = j THEN {} ELSE Region(table, j))
        IN  \A ctx \in Contexts :
              Cardinality({b \in rest : In(ctx, b)}) =
                IF Matches(table[i], ctx) /\ (i # j => ~Matches(table[j], ctx)) THEN 1 ELSE 0

\* Both sides of a condition on a boolean are only compared for equality.  The analysis gives
\* an ordering of booleans the empty region ("the evaluator's result is not meaningful
\* here"), though the evaluator would order them.
Comparable(conds) ==
    \A i \in DOMAIN conds : conds[i].field \in BooleanFields => conds[i].op \in {"==", "!="}

\* A rule that an author sends, and each one it is judged beside, is reported as one that
\* can never fire exactly when no context makes the evaluator match it.
\* (rule_set_checker.analyze "unsatisfiable")
UnsatisfiableExact ==
    \A raw \in { r \in Pool : Valid(r) /\ Comparable(r.conds) } :
        LET judged == Checked(Validated(raw), table)
        IN  Unsatisfiable(judged)
              = { i \in DOMAIN judged : \A ctx \in Contexts : ~Matches(judged[i], ctx) }

\* A modifier is reported as shadowed exactly when no context makes the evaluator
\* answer with it.  (rule_set_checker.analyze "shadowed", evaluator.compute_verdict)
ShadowedNeverApplies ==
    \A i \in DOMAIN table :
        table[i].type = "modify" /\ Region(table, i) # {} =>
            (i \in Shadowed(table) <=>
                \A ctx \in Contexts : LET v == TurnOn(table, table[i].device, ctx)
                                      IN  v.verdict = "modify" => v.key # table[i].key)

\* Every conflict comes with a context that shows it, and no conflict is missed: neither an
\* allow and a block that match one context, nor two modifiers with different parameters
\* of which the preferred one decides.  (rule_set_checker.analyze "conflict_block_allow",
\* "conflict_modify", witness)
ConflictsExact ==
    /\ \A c \in AllowConflicts(table) : \A b \in c.where :
          /\ Matches(table[c.at], Witness(b)) /\ Matches(table[c.with], Witness(b))
          /\ TurnOn(table, table[c.at].device, Witness(b)).verdict = "block"
    /\ \A i, j \in DOMAIN table :
          /\ table[i].type = "allow" /\ table[j].type = "block"
          /\ table[i].device = table[j].device
          /\ \E ctx \in Contexts : Matches(table[i], ctx) /\ Matches(table[j], ctx)
          => \E c \in AllowConflicts(table) : c.at = i /\ c.with = j
    /\ \A c \in ModifyConflicts(table) : \A b \in c.where :
          LET v == TurnOn(table, table[c.at].device, Witness(b))
          IN  /\ Matches(table[c.at], Witness(b)) /\ Matches(table[c.with], Witness(b))
              /\ v.verdict = "modify" /\ v.key # table[c.at].key
    /\ \A i, j \in DOMAIN table :
          /\ table[i].type = "modify" /\ j \in Preferred(table, i)
          /\ table[i].params # table[j].params
          /\ \E ctx \in Contexts : /\ Matches(table[i], ctx) /\ Matches(table[j], ctx)
                                   /\ TurnOn(table, table[i].device, ctx).verdict = "modify"
          => \E c \in ModifyConflicts(table) : c.at = i /\ c.with = j

\* A rule is reported as redundant exactly when, wherever it matches, another rule of its
\* device and class does (for a modifier: one with its parameters).  That it then "adds
\* nothing" holds of blocks and allows; of modifiers see RedundantAddsNothing.
\* (rule_set_checker.analyze "redundant")
RedundantExact ==
    \A i \in DOMAIN table :
        i \in Redundant(table) <=>
            \A ctx \in Contexts : Matches(table[i], ctx) =>
                \E j \in DOMAIN table \ {i} :
                    /\ table[j].device = table[i].device /\ table[j].type = table[i].type
                    /\ table[i].type = "modify" => table[j].params = table[i].params
                    /\ Matches(table[j], ctx)

\* An invariant is found violated exactly when the evaluator lets the device be
\* switched on somewhere in it, and the counterexample is such a context.
GapsExact ==
    \A inv \in invariants :
        LET held == \A ctx \in Contexts :
                        Matches(inv, ctx) => TurnOn(table, inv.device, ctx).verdict = "block"
        IN  /\ Gaps(table, inv) = {} <=> held
            /\ \A b \in Gaps(table, inv) :
                  /\ Matches(inv, Witness(b))
                  /\ TurnOn(table, inv.device, Witness(b)).verdict # "block"

\* Each of the six kinds of findings on rules and invariants is reported exactly where the
\* evaluator bears it out, with a context that shows it where one is reported: a rule that
\* cannot fire, a modifier that never applies, an allow under a block, two modifiers at
\* odds, a rule that others cover, and an invariant with a counterexample.
\* (rule_set_checker.analyze)
FindingsExact ==
    /\ UnsatisfiableExact /\ ShadowedNeverApplies /\ ConflictsExact
    /\ RedundantExact /\ GapsExact

\* A rule is stored only into a table that keeps every invariant, also when the
\* rules it was judged beside could not be listed.  (handler._route_author)
CreatedKeepsInvariants ==
    [][answer'.status = "created" /\ answer' # answer =>
          \A inv \in invariants, ctx \in Contexts :
              Matches(inv, ctx) => TurnOn(table', inv.device, ctx).verdict = "block"]_vars

\* A field that cannot be read can stop a block, never cause one.
\* (DECISIONS.md: "a missing field can only stop a block firing")
MissingNeverBlocks ==
    \A i \in DOMAIN table, ctx \in Contexts, f \in Fields :
        LET device == table[i].device
        IN  TurnOn(table, device, [ctx EXCEPT ![f] = Missing]).verdict = "block"
              => TurnOn(table, device, ctx).verdict = "block"

\* The verdict, the rule named and the parameters do not depend on the order in
\* which the table lists the rules.  (evaluator.rule_winner_key)
OrderFree ==
    \A i \in DOMAIN table, ctx \in Contexts :
        TurnOn(table, table[i].device, ctx) = TurnOn(Reverse(table), table[i].device, ctx)

\* What is decided depends neither on the order in which the table lists the rules
\* nor on a sensor that is gone, but for a block that stops.  (compute_verdict)
VerdictStable == MissingNeverBlocks /\ OrderFree

Outcome(v) == IF v.verdict = "modify" THEN <<"modify", v.params>> ELSE <<v.verdict>>

\* "Rule adds nothing: other rules already cover every context it matches": without
\* it every context still gets the same verdict and parameters.
\* (rule_set_checker.analyze "redundant")
RedundantAddsNothing ==
    \A i \in Redundant(table), ctx \in Contexts :
        Outcome(TurnOn(table, table[i].device, ctx))
          = Outcome(TurnOn(RemoveAt(table, i), table[i].device, ctx))

\* A rule that can fire is refused only when an invariant would have a
\* counterexample in the table that holds it.  (handler docstring, step 4)
RefusedForCause ==
    [][answer'.status = "refused" /\ answer' # answer =>
          LET after == Append(Without(table, answer'.rule), answer'.rule)
          IN  \/ RuleRegion(answer'.rule.conds) = {}
              \/ \E inv \in invariants, ctx \in Contexts :
                    Matches(inv, ctx) /\ TurnOn(after, inv.device, ctx).verdict # "block"]_vars
=============================================================================
