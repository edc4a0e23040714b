----------------------------- MODULE SpendOnce -----------------------------
(***************************************************************************)
(* What step-up promises, with no clock, no ledger and no failures.        *)
(*                                                                         *)
(* A token identifier (jti) is spent by at most one request, for ever, and *)
(* a request opens a door only after it has spent one.  StepUp.tla, the    *)
(* model of access_control.py and cipherweave_verify/authz.py, implements  *)
(* this specification.                                                     *)
(***************************************************************************)
CONSTANTS Requests,    \* calls reaching the service, over MCP, REST or SMS
          Jtis,        \* token identifiers minted by the issuer
          Nobody       \* stands for "not spent"

VARIABLES spender,     \* spender[j]: the request that spent j, or Nobody
          opened       \* the requests that have opened something

vars == <<spender, opened>>

Init == /\ spender = [j \in Jtis |-> Nobody]
        /\ opened = {}

Spend(r, j) == /\ spender[j] = Nobody
               /\ spender' = [spender EXCEPT ![j] = r]
               /\ UNCHANGED opened

Open(r) == /\ \E j \in Jtis : spender[j] = r
           /\ opened' = opened \cup {r}
           /\ UNCHANGED spender

Next == \E r \in Requests : \/ Open(r)
                            \/ \E j \in Jtis : Spend(r, j)

Spec == Init /\ [][Next]_vars
=============================================================================
