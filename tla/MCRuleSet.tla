----------------------------- MODULE MCRuleSet -----------------------------
(***************************************************************************)
(* RuleSet over four fields, one of each kind, and rules chosen so that    *)
(* thresholds touch, boxes nest and conditions contradict.                 *)
(***************************************************************************)
EXTENDS RuleSet

MCOrder == <<"temperature", "time_hour", "is_home", "room">>
MCDomains == [temperature |-> [lo |-> 0, hi |-> 6], time_hour |-> [lo |-> 0, hi |-> 4]]
MCLabels == {"Office", "unknown", "other"}

MCContexts == { [temperature |-> t, time_hour |-> h, is_home |-> b, room |-> r]
                : t \in 0..6, h \in {0, 2, 4}, b \in BOOLEAN, r \in MCLabels }

MCCanonical == [fan |-> "fan", heater |-> "heater", SwitchBotFan |-> "fan", toaster |-> "toaster"]

C(f, o, v) == [field |-> f, op |-> o, value |-> v]
R(id, key, device, type, params, conds) ==
    [id |-> id, key |-> key, device |-> device, type |-> type, params |-> params,
     conds |-> conds, sure |-> TRUE]

Away == <<C("is_home", "==", FALSE)>>

MCPool == {
    R("a", 5, "fan", "block", 0, Away),
    R("b", 6, "fan", "block", 0, <<C("temperature", "<", 2), C("room", "!=", "Office")>>),
    R("c", 7, "SwitchBotFan", "block", 0, <<C("temperature", ">=", 2), C("time_hour", "!=", 2)>>),
    R("d", 1, "fan", "modify", 1, <<C("temperature", ">", 2), C("temperature", "<=", 4)>>),
    R("e", 2, "fan", "modify", 2, <<C("temperature", ">", 0)>>),
    R("f", 3, "fan", "modify", 1, <<C("temperature", "!=", 2)>>),
    R("a", 4, "fan", "modify", 3, <<C("room", "==", "Office")>>),
    R("g", 8, "fan", "allow", 0, <<C("temperature", "<", 4), C("room", "==", "unknown"), C("is_home", "!=", FALSE)>>),
    R("h", 9, "fan", "block", 0, <<C("time_hour", ">", 2), C("time_hour", "<", 4)>>),
    R("i", 10, "heater", "block", 0, Away),
    R("j", 0, "fan", "allow", 0, << >>),
    R("j", 0, "toaster", "block", 0, Away),
    R("j", 0, "fan", "dim", 0, Away),
    R("j", 0, "fan", "block", 0, <<C("is_home", ">", FALSE)>>),
    R("j", 0, "fan", "block", 0, <<C("room", "<", "Office")>>),
    R("j", 0, "fan", "block", 0, <<C("wind", "<", 2)>>),
    R("j", 0, "fan", "block", 0, <<C("temperature", "is", 2)>>),
    R("j", 0, "fan", "block", 0, <<C("temperature", "<", Mistyped)>>),
    [R("j", 0, "fan", "block", 0, Away) EXCEPT !.sure = FALSE] }

Closed == <<C("temperature", ">=", 2), C("time_hour", "==", 4)>>

MCInvariantSets == { {}, {[device |-> "fan", conds |-> Away]},
                     { [device |-> "fan", conds |-> Away],
                       [device |-> "fan", conds |-> Closed] } }

View == <<table, invariants>>
=============================================================================
