---------------------------- MODULE MCPolicyGate ----------------------------
(***************************************************************************)
(* PolicyGate with one rule of two versions, two authors and one           *)
(* container: containers share nothing but the table, so each sees the     *)
(* rest of the system as this one does.                                    *)
(***************************************************************************)
EXTENDS PolicyGate, TLC

MCCanonical == [fan |-> "fan", SwitchBotFan |-> "fan", light |-> "light"]

Away == <<[field |-> "is_home", op |-> "==", value |-> FALSE]>>

R(key, device, type, conds) ==
    [key |-> key, device |-> device, type |-> type, params |-> key, conds |-> conds]

MCRules == { R(1, "fan", "block", Away), R(2, "fan", "modify", << >>) }

MCCommands == { <<[dev |-> "SwitchBotFan", act |-> "turn_on"],
                  [dev |-> "SwitchBotFan", act |-> "turn_off"]>> }

AnyAuthor == Permutations(Writers)

\* Bound: containers serve rules whose calls have not overlapped.  A container knows
\* of the table what a scan finds, however it came to be there.
OverlapsUnserved ==
    \/ \A id \in RuleIds : alone[id]
    \/ \A c \in Containers : left[c] = 0 /\ cpc[c] = "idle"
=============================================================================
