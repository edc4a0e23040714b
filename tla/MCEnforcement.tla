--------------------------- MODULE MCEnforcement ---------------------------
(***************************************************************************)
(* Every plant of three states and three events, and of four states and    *)
(* two free events, beside the plants of a device with rules about         *)
(* presence, a number, the hour and a room.                                *)
(***************************************************************************)
EXTENDS Enforcement

MCOrder == <<"temperature", "time_hour", "is_home", "room">>
MCDomains == [temperature |-> [lo |-> 0, hi |-> 6], time_hour |-> [lo |-> 0, hi |-> 4]]
MCCanonical == [fan |-> "fan", heater |-> "heater"]

MCWorlds == { [temperature |-> t, time_hour |-> h, is_home |-> b, room |-> r]
              : t \in 0..6, h \in {0, 2, 4}, b \in BOOLEAN, r \in {"Office", "other"} }

C(f, o, v) == [field |-> f, op |-> o, value |-> v]
R(type, conds) == [device |-> "fan", type |-> type, key |-> 1, params |-> 0, conds |-> conds]

Away  == R("block", <<C("is_home", "==", FALSE)>>)
Home  == R("block", <<C("is_home", "!=", FALSE)>>)
Warm  == R("block", <<C("temperature", ">", 4)>>)
Mild  == R("block", <<C("temperature", ">=", 2), C("time_hour", "!=", 2)>>)
Cold  == R("block", <<C("temperature", "<", 2), C("is_home", "==", FALSE)>>)
Late  == R("block", <<C("time_hour", ">", 1), C("temperature", "!=", 4)>>)
Never == R("block", <<C("time_hour", ">", 2), C("time_hour", "<", 4)>>)
Lamp  == R("allow", <<C("temperature", "<=", 2)>>)
Else  == [Away EXCEPT !.device = "heater"]
Room  == R("block", <<C("room", "==", "Office")>>)
Chilly == R("block", <<C("temperature", "<", 2)>>)
Hot   == [device |-> "fan", conds |-> <<C("temperature", ">", 4)>>]
Tepid == [device |-> "fan", conds |-> <<C("temperature", ">=", 2)>>]

Q4(rules, invs, cuts, cap) ==
    { [rules |-> rules, invariants |-> invs, device |-> "fan", cuts |-> cuts,
       manual |-> m, precursor |-> p, cap |-> cap] : m, p \in BOOLEAN }

Authored(rules, invs) ==
    { [rules |-> rules, invariants |-> invs, device |-> "fan", cuts |-> {},
       manual |-> FALSE, precursor |-> FALSE, cap |-> 12] }

MCQuestions ==
    Q4({Away}, {}, {}, NoCap) \cup Q4({Away, Home, Lamp}, {}, {}, NoCap)
        \cup Q4({Warm, Never, Else}, {}, {<<C("temperature", "==", 2)>>}, NoCap)
        \cup UNION { Authored(r, i) : r \in {{Warm, Lamp}, {Mild}, {Cold, Warm}, {Late},
                        {Mild, Warm, Away}, {Mild, Late, Cold, Home}, {Never}, {Chilly}, {Room},
                        {Room, Lamp}},
                     i \in {{}, {Hot}, {Tepid}} }

CONSTANTS q1, q2, q3, q4
MCStates == <<q1, q2, q3, q4>>
At(ns) == { MCStates[n] : n \in ns }
E(name) == <<"device", name>>

P(n, bad, delta) ==
    [states |-> At(1..n), initial |-> q1, bad |-> At(bad), events |-> {E("c"), E("u"), E("f")},
     controllable |-> {E("c")}, forcible |-> {E("f")},
     delta |-> { [from |-> MCStates[d[1]], event |-> E(d[2]), to |-> MCStates[d[3]]] : d \in delta }]

\* Where the events lead, 0 for nowhere.
Partial(from, event, to) ==
    { { <<k, event, g[k]>> : k \in { x \in from : g[x] # 0 } } : g \in [from -> to \cup {0}] }

Ladder(n) == { <<i, "c", i + 1>> : i \in 1..(n - 1) }

MCPlants ==
    { P(3, {3}, Ladder(3) \cup u \cup f) :
        u \in Partial(1..2, "u", 1..3), f \in Partial(1..2, "f", 1..3) }
    \cup { P(4, {4}, Ladder(4) \cup u \cup f) :
        u \in Partial(1..3, "u", 1..4), f \in Partial(1..3, "f", {1, 4}) }
    \cup { P(3, {1, 3}, u \cup f) :
        u \in Partial(1..2, "u", 1..3), f \in Partial(1..2, "f", 1..3) }
    \cup { Built(a) : a \in { q \in MCQuestions : ~TooLarge(q) } } \cup {NoPlant}
=============================================================================
