----------------------------- MODULE MCStepUp -----------------------------
(***************************************************************************)
(* StepUp on a small instance: a door and a garage, a lamp that only       *)
(* toggles, one token of each kind that matters, and clock constants in    *)
(* the proportions of the code (60, 60, 120 and 300).              *)
(***************************************************************************)
EXTENDS StepUp, TLC

MCJtis == {"j1", "j2", "j3", "j4"}

MCCaps == [door   |-> {"lock", "unlock"},
           garage |-> {"open", "close", "toggle"},
           lamp   |-> {"toggle", "turn_on"}]

S(d, a) == [dev |-> d, act |-> a]

\* A scene that opens two things, and one whose safe step (a lamp also
\* toggles) comes after a step that needs the token.
MCPlans == { <<S("door", "unlock"), S("garage", "toggle")>>,
             <<S("garage", "open"), S("lamp", "toggle")>> }

T(m, s, d, j, i, e) == [method |-> m, scopes |-> s, delegated |-> d, jti |-> j,
                        nbf |-> 0, iat |-> i, exp |-> e]

\* j1 lives for one second, the shortest life the verifier takes; j2 is a
\* delegated token in the hands of an agent; j3 lives longer; j4 was granted
\* execute alone.  The static token's jti is never read.
MCTokens == { T("jwt", Scopes, FALSE, "j1", 0, 1),
              T("jwt", Scopes, TRUE, "j2", 1, 3),
              T("jwt", {"execute", "destructive"}, FALSE, "j3", 0, 3),
              T("jwt", {"execute"}, FALSE, "j4", 0, 3),
              T("legacy", Scopes, FALSE, "j1", 0, 0) }

C(d, o) == [door |-> d, op |-> o]
MCCalls == { C("mcp", "execute"), C("mcp", "destructive"), C("rest", "execute"),
             C("sms", "execute") }

\* The arrival time of a request that has ended is never read again.
View == <<now, ledger, pc, call, principal, stepped,
          [r \in Requests |-> IF Active(r) THEN started[r] ELSE 0],
          plan, next, ran, denied, spender>>

Symmetry == Permutations(Requests)
=============================================================================
