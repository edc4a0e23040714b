--------------------------- MODULE PolicyVerdict ---------------------------
(***************************************************************************)
(* What the policy engine answers for one device action, as a function of  *)
(* the rules, the device's class and the context (policy_engine.evaluator),*)
(* and the clamp of the parameters a MODIFY rule brings                    *)
(* (policy_engine.param_clamp).  No state: RuleSet compares the rule-set   *)
(* analysis with it, PolicyGate uses it to decide commands.                *)
(*                                                                         *)
(* rule_winner_key is the tuple (no id, id, reason, canonical params); a   *)
(* rule carries its rank in that total order as "key".  Two rules of equal *)
(* key name the same id, reason and params.  The rules come as a function: *)
(* a sequence, or indexed by the items of the cache.                       *)
(***************************************************************************)
EXTENDS Integers, Sequences, FiniteSets

CONSTANTS
    Canonical,  \* Canonical[t]: the scope class of a device type
    NoBound,    \* a side on which a parameter's range is open
    Missing     \* the value of a context field that could not be read

ActionTypes == {"block", "modify", "allow"}

SAFE_ACTIONS == {"turn_off", "get_status"}

\* evaluator._OPERATORS
Compare(op, a, b) ==
    \/ op = "==" /\ a = b
    \/ op = "!=" /\ a # b
    \/ op = "<"  /\ a < b
    \/ op = "<=" /\ a <= b
    \/ op = ">"  /\ a > b
    \/ op = ">=" /\ a >= b

\* A missing field matches no condition, not even "!=".
ConditionHolds(c, ctx) ==
    ctx[c.field] # Missing /\ Compare(c.op, ctx[c.field], c.value)

Matches(rule, ctx) == \A i \in DOMAIN rule.conds : ConditionHolds(rule.conds[i], ctx)

Matching_RawType(rules, device, ctx, type) ==
    { i \in DOMAIN rules : /\ rules[i].device = device
                           /\ Matches(rules[i], ctx)
                           /\ rules[i].type = type }

\* The indices of the rules of one type that match.
Matching(rules, device, ctx, type) ==
    { i \in DOMAIN rules : /\ Canonical[rules[i].device] = Canonical[device]
                           /\ Matches(rules[i], ctx)
                           /\ rules[i].type = type }

\* The first rule in the list, whatever its key.
Winner_FirstInList(rules, I) == CHOOSE i \in I : \A j \in I : i <= j

\* min(..., key=rule_winner_key); which of several lowest does not matter.
Winner(rules, I) == CHOOSE i \in I : \A j \in I : rules[i].key <= rules[j].key

Decision(verdict, rule) == [verdict |-> verdict, key |-> rule.key, params |-> rule.params]

Allow == [verdict |-> "allow"]

ComputeVerdict(rules, device, action, ctx) ==
    LET blocks    == Matching(rules, device, ctx, "block")
        modifiers == Matching(rules, device, ctx, "modify")
    IN  IF action \in SAFE_ACTIONS THEN Allow
        ELSE IF blocks # {} THEN
            [verdict |-> "block", key |-> rules[Winner(rules, blocks)].key]
        ELSE IF modifiers # {} THEN
            Decision("modify", rules[Winner(rules, modifiers)])
        ELSE Allow

-----------------------------------------------------------------------------
(* Parameters *)

\* Inside range: below the floor becomes the floor, then above the ceiling the
\* ceiling (so an empty range answers its ceiling).
Clamp(v, range) ==
    LET up == IF range.lo # NoBound /\ v < range.lo THEN range.lo ELSE v
    IN  IF range.hi # NoBound /\ up > range.hi THEN range.hi ELSE up
=============================================================================
