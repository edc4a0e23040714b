------------------------------- MODULE StepUp -------------------------------
(***************************************************************************)
(* Who may open a door: the authorization of a request from the moment it  *)
(* reaches one of the Lambda functions to the moment its steps are handed  *)
(* to the provider adapters.                                               *)
(*                                                                         *)
(*   mcp_handler.handler, rest_auth.check   authentication and tool scope  *)
(*   cipherweave_verify.authz               scope, delegation, freshness,  *)
(*                                          and the single-use jti ledger  *)
(*   access_control                         the gate before every step     *)
(*                                                                         *)
(* Requests run on different Lambda instances, so their steps interleave;  *)
(* inside one request everything is sequential (check_step blocks the      *)
(* event loop while it writes to the ledger).  The clock advances between  *)
(* any two steps, and a request that outlives the Lambda timeout is killed *)
(* wherever it is.  Signatures and DPoP proofs are abstracted: Tokens are  *)
(* the ones the issuer really minted for this audience.                    *)
(*                                                                         *)
(* A definition whose name carries a suffix (Fresh_NoAge) is a bug the     *)
(* definition after it could have; nothing uses it but the mutation runs.  *)
(***************************************************************************)
EXTENDS Integers, Sequences

CONSTANTS
    Requests,       \* the calls of one behaviour
    Nobody,         \* in spender: this jti was never spent
    Jtis,           \* the identifiers of the minted JWTs
    Tokens,         \* the credentials callers hold
    Calls,          \* the [door, op] pairs callers use
    Plans,          \* the step sequences a command may resolve to
    Caps,           \* Caps[d]: the capabilities of device d
    LedgerDoors,    \* the doors whose function has TOKEN_JTI_TABLE
    ScopeAudit,     \* the doors whose function has CIPHERWEAVE_SCOPE_MODE=audit
    RestAudit,      \* REST_AUTH_MODE=audit
    LedgerFaults,   \* whether DynamoDB may fail or lose a reply
    StepUpSeconds, Leeway, MaxLifetime, Grace, LambdaTimeout,
    MaxTime         \* bound on the clock (model checking only)

Scopes == {"read", "execute", "destructive"}
Doors  == {"mcp", "rest", "sms"}      \* sms: also every non-HTTP invocation
Ops    == {"read", "execute", "destructive"}

\* verify.VerifiedToken / authz.Principal: what the code reads of a credential.
TokenType == [method : {"jwt", "legacy"}, scopes : SUBSET Scopes,
              delegated : BOOLEAN, jti : Jtis,
              nbf : Nat, iat : Nat, exp : Nat]

Step == [dev : DOMAIN Caps, act : STRING]

\* The issuer never reuses a jti.
ASSUME TokensAssumption ==
    /\ Tokens \subseteq TokenType
    /\ Nobody \notin Requests
    /\ Calls \subseteq [door : Doors, op : Ops]
    /\ \A t, u \in Tokens : t.method = "jwt" /\ u.method = "jwt" /\ t.jti = u.jti => t = u
    /\ Plans \subseteq Seq(Step)
    /\ LedgerDoors \subseteq Doors /\ ScopeAudit \subseteq Doors
    /\ RestAudit \in BOOLEAN /\ LedgerFaults \in BOOLEAN

\* A claim that started in time ends before the ledger can forget the token:
\* 60 s of freshness and 120 s of Lambda against the 300 s added to exp.
ASSUME TimesAssumption ==
    /\ StepUpSeconds \in Nat /\ Leeway \in Nat /\ MaxLifetime \in Nat
    /\ Grace \in Nat /\ LambdaTimeout \in Nat /\ MaxTime \in Nat
    /\ StepUpSeconds + LambdaTimeout <= Grace

\* The principal of a request nobody authenticated.
NoToken == [method |-> "none", scopes |-> {}, delegated |-> FALSE]

VARIABLES
    now,        \* wall clock, seconds
    ledger,     \* ledger[j]: expires_at of the item for j, 0 when there is none
    pc,         \* where each request is
    call,       \* [door, op] of each request
    principal,  \* the RequestAuth principal, NoToken when none is bound
    stepped,    \* RequestAuth._stepped_up
    started,    \* when the request arrived
    plan, next, \* the resolved steps and the index of the next one
    ran,        \* indices of the steps handed to an adapter; 0 is the tool itself
    denied,     \* indices of the steps refused as access_denied
    spender     \* history: which request spent each jti

vars == <<now, ledger, pc, call, principal, stepped, started, plan, next, ran,
          denied, spender>>

Locations == {"idle", "tool", "claim_tool", "resolve", "steps", "claim_step",
              "done", "timeout"}

TypeOK ==
    /\ now \in Nat
    /\ ledger \in [Jtis -> Nat]
    /\ pc \in [Requests -> Locations]
    /\ call \in [Requests -> [door : Doors, op : Ops]]
    /\ principal \in [Requests -> Tokens \cup {NoToken}]
    /\ stepped \in [Requests -> BOOLEAN]
    /\ started \in [Requests -> Nat]
    /\ plan \in [Requests -> Seq(Step)]
    /\ next \in [Requests -> Nat]
    /\ ran \in [Requests -> SUBSET Nat]
    /\ denied \in [Requests -> SUBSET Nat]
    /\ spender \in [Jtis -> Requests \cup {Nobody}]

Init ==
    /\ now = 0
    /\ ledger = [j \in Jtis |-> 0]
    /\ pc = [r \in Requests |-> "idle"]
    /\ call = [r \in Requests |-> [door |-> "sms", op |-> "read"]]
    /\ principal = [r \in Requests |-> NoToken]
    /\ stepped = [r \in Requests |-> FALSE]
    /\ started = [r \in Requests |-> 0]
    /\ plan = [r \in Requests |-> << >>]
    /\ next = [r \in Requests |-> 1]
    /\ ran = [r \in Requests |-> {}]
    /\ denied = [r \in Requests |-> {}]
    /\ spender = [j \in Jtis |-> Nobody]

-----------------------------------------------------------------------------
(* Authentication *)

\* Verifier._check_claims; the static token has no clock.
Verified(t) ==
    t.method = "jwt" =>
        /\ now < t.exp + Leeway
        /\ now >= t.nbf - Leeway
        /\ t.iat <= now + Leeway
        /\ t.exp > t.iat /\ t.exp - t.iat <= MaxLifetime

\* mcp_handler.TOOL_POLICIES and rest_auth.route_policy, by class of operation.
Policy(door, op) ==
    [scope |-> op,
     step_up |-> op = "destructive" /\ door # "rest",
     delegable |-> op # "destructive"]

DESTRUCTIVE == [scope |-> "destructive", step_up |-> TRUE, delegable |-> FALSE]

\* ToolAuthorizer.require up to the step-up: scope (only logged in audit mode),
\* then delegation (refused in every mode).
Permitted(door, t, policy) ==
    /\ policy.scope \in t.scopes \/ door \in ScopeAudit
    /\ t.delegated => policy.delegable

\* ToolAuthorizer._step_up before the ledger: a JWT minted just now, and a
\* ledger to spend it in.
Fresh_NoAge(door, t) == t.method = "jwt" /\ door \in LedgerDoors

Fresh(door, t) ==
    /\ t.method = "jwt"
    /\ now - t.iat <= StepUpSeconds
    /\ door \in LedgerDoors

Arrive(r, c, p, to) ==
    /\ pc[r] = "idle"
    /\ pc' = [pc EXCEPT ![r] = to]
    /\ call' = [call EXCEPT ![r] = c]
    /\ principal' = [principal EXCEPT ![r] = p]
    /\ started' = [started EXCEPT ![r] = now]
    /\ UNCHANGED <<now, ledger, stepped, plan, next, ran, denied, spender>>

\* REST_AUTH_MODE=audit forgives a missing credential or scope on this call.
Forgiven(c) == c.door = "rest" /\ RestAudit /\ c.op # "destructive"

AfterTool(c) == IF c.op = "execute" THEN "resolve" ELSE "done"

\* A good credential is bound to the request; its tool is authorized next.
Admit(r, c, t) ==
    /\ c.door # "sms" /\ Verified(t)
    /\ Arrive(r, c, t, "tool")

Reject(r, c, t) ==
    /\ c.door # "sms" /\ ~Verified(t) /\ ~Forgiven(c)
    /\ Arrive(r, c, NoToken, "done")

\* SMS and scheduled work bind no principal, and the REST audit mode lets an
\* unauthenticated request through without one.
AdmitUnbound(r, c) ==
    /\ c.door = "sms" \/ Forgiven(c)
    /\ Arrive(r, c, NoToken, AfterTool(c))

-----------------------------------------------------------------------------
(* Tool authorization *)

Door(r) == call[r].door
ToolPolicy(r) == Policy(Door(r), call[r].op)

\* The REST audit mode skips the authorizer when only the scope is missing.
ToolPermitted(r) ==
    \/ Permitted(Door(r), principal[r], ToolPolicy(r))
    \/ Forgiven(call[r]) /\ ToolPolicy(r).scope \notin principal[r].scopes

RefuseTool(r) ==
    /\ pc[r] = "tool"
    /\ ToolPermitted(r) /\ ToolPolicy(r).step_up => ~Fresh(Door(r), principal[r])
    /\ pc' = [pc EXCEPT ![r] = "done"]
    /\ UNCHANGED <<now, ledger, call, principal, stepped, started, plan, next,
                   ran, denied, spender>>

CallTool(r) ==
    /\ pc[r] = "tool"
    /\ ToolPermitted(r) /\ ~ToolPolicy(r).step_up
    /\ pc' = [pc EXCEPT ![r] = AfterTool(call[r])]
    /\ ran' = [ran EXCEPT ![r] = @ \cup {0}]
    /\ UNCHANGED <<now, ledger, call, principal, stepped, started, plan, next,
                   denied, spender>>

AskLedgerForTool(r) ==
    /\ pc[r] = "tool"
    /\ ToolPermitted(r) /\ ToolPolicy(r).step_up /\ Fresh(Door(r), principal[r])
    /\ pc' = [pc EXCEPT ![r] = "claim_tool"]
    /\ UNCHANGED <<now, ledger, call, principal, stepped, started, plan, next,
                   ran, denied, spender>>

-----------------------------------------------------------------------------
(* The steps of an execute call *)

PHYSICAL_ACCESS_ACTIONS == {"unlock", "open"}

IsPhysicalAccess_NamesOnly(s) == s.act \in PHYSICAL_ACCESS_ACTIONS

IsPhysicalAccess_AnyToggle(s) == s.act \in PHYSICAL_ACCESS_ACTIONS \cup {"toggle"}

IsPhysicalAccess(s) ==
    \/ s.act \in PHYSICAL_ACCESS_ACTIONS
    \/ s.act = "toggle" /\ Caps[s.dev] \cap PHYSICAL_ACCESS_ACTIONS # {}

NextStep(r) == plan[r][next[r]]

Resolve(r) ==
    /\ pc[r] = "resolve"
    /\ \E p \in Plans : plan' = [plan EXCEPT ![r] = p]
    /\ pc' = [pc EXCEPT ![r] = "steps"]
    /\ UNCHANGED <<now, ledger, call, principal, stepped, started, next, ran,
                   denied, spender>>

AtStep(r) == pc[r] = "steps" /\ next[r] <= Len(plan[r])

\* check_step answers None: not physical, or this request has stepped up.
RunStep(r) ==
    /\ AtStep(r)
    /\ IsPhysicalAccess(NextStep(r)) => stepped[r]
    /\ ran' = [ran EXCEPT ![r] = @ \cup {next[r]}]
    /\ next' = [next EXCEPT ![r] = @ + 1]
    /\ UNCHANGED <<now, ledger, pc, call, principal, stepped, started, plan,
                   denied, spender>>

\* require_physical_access may go on to the ledger.
MayAsk(r) ==
    /\ principal[r] # NoToken
    /\ Permitted(Door(r), principal[r], DESTRUCTIVE)
    /\ Fresh(Door(r), principal[r])

DenyStep(r) ==
    /\ AtStep(r)
    /\ IsPhysicalAccess(NextStep(r)) /\ ~stepped[r] /\ ~MayAsk(r)
    /\ denied' = [denied EXCEPT ![r] = @ \cup {next[r]}]
    /\ next' = [next EXCEPT ![r] = @ + 1]
    /\ UNCHANGED <<now, ledger, pc, call, principal, stepped, started, plan, ran,
                   spender>>

AskLedgerForStep(r) ==
    /\ AtStep(r)
    /\ IsPhysicalAccess(NextStep(r)) /\ ~stepped[r] /\ MayAsk(r)
    /\ pc' = [pc EXCEPT ![r] = "claim_step"]
    /\ UNCHANGED <<now, ledger, call, principal, stepped, started, plan, next,
                   ran, denied, spender>>

Finish(r) ==
    /\ pc[r] = "steps" /\ next[r] > Len(plan[r])
    /\ pc' = [pc EXCEPT ![r] = "done"]
    /\ UNCHANGED <<now, ledger, call, principal, stepped, started, plan, next,
                   ran, denied, spender>>

-----------------------------------------------------------------------------
(* The ledger *)

Claiming(r) == pc[r] \in {"claim_tool", "claim_step"}
Jti(r) == principal[r].jti

Written_WithoutGrace(r) == [ledger EXCEPT ![Jti(r)] = principal[r].exp]

Written(r) == [ledger EXCEPT ![Jti(r)] = principal[r].exp + Grace]

\* The conditional put succeeds: the jti had no item.
ClaimFree_NoCondition(r) == Claiming(r)

ClaimFree(r) == ledger[Jti(r)] = 0

Spend(r) ==
    /\ ClaimFree(r)
    /\ ledger' = Written(r)
    /\ spender' = [spender EXCEPT ![Jti(r)] = r]
    /\ stepped' = [stepped EXCEPT ![r] = TRUE]
    /\ UNCHANGED <<now, call, principal, started, plan, next, denied>>

ClaimForStep(r) ==
    /\ pc[r] = "claim_step"
    /\ Spend(r)
    /\ pc' = [pc EXCEPT ![r] = "steps"]
    /\ UNCHANGED ran

ClaimForTool(r) ==
    /\ pc[r] = "claim_tool"
    /\ Spend(r)
    /\ pc' = [pc EXCEPT ![r] = "done"]
    /\ ran' = [ran EXCEPT ![r] = @ \cup {0}]

\* ReplayedTokenError or LedgerUnavailableError: the step (or the tool) is refused.
RefusedStep(r) ==
    /\ pc[r] = "claim_step"
    /\ pc' = [pc EXCEPT ![r] = "steps"]
    /\ denied' = [denied EXCEPT ![r] = @ \cup {next[r]}]
    /\ next' = [next EXCEPT ![r] = @ + 1]
    /\ UNCHANGED <<now, call, principal, stepped, started, plan, ran, spender>>

RefusedTool(r) ==
    /\ pc[r] = "claim_tool"
    /\ pc' = [pc EXCEPT ![r] = "done"]
    /\ UNCHANGED <<now, call, principal, stepped, started, plan, next, ran,
                   denied, spender>>

Refused(r) == RefusedStep(r) \/ RefusedTool(r)

ClaimReplayed(r) ==
    /\ Refused(r) /\ ~ClaimFree(r)
    /\ UNCHANGED ledger

\* DynamoDB failed, or wrote the item and the reply was lost: boto3 then raises,
\* or retries the put and finds its own item.  Nobody has spent the token.
ClaimLost(r) ==
    /\ Refused(r) /\ LedgerFaults
    /\ \/ UNCHANGED ledger
       \/ ClaimFree(r) /\ ledger' = Written(r)

\* DynamoDB deletes an item some time after its expires_at.
ExpireItem(j) ==
    /\ ledger[j] # 0 /\ now > ledger[j]
    /\ ledger' = [ledger EXCEPT ![j] = 0]
    /\ UNCHANGED <<now, pc, call, principal, stepped, started, plan, next, ran,
                   denied, spender>>

-----------------------------------------------------------------------------
(* Time *)

Active(r) == pc[r] \notin {"idle", "done", "timeout"}
OutOfTime(r) == now >= started[r] + LambdaTimeout

TimeOut(r) ==
    /\ Active(r) /\ OutOfTime(r)
    /\ pc' = [pc EXCEPT ![r] = "timeout"]
    /\ UNCHANGED <<now, ledger, call, principal, stepped, started, plan, next,
                   ran, denied, spender>>

\* Lambda kills a request at its deadline: time does not pass it.
Tick ==
    /\ now < MaxTime
    /\ \A r \in Requests : Active(r) => ~OutOfTime(r)
    /\ now' = now + 1
    /\ UNCHANGED <<ledger, pc, call, principal, stepped, started, plan, next,
                   ran, denied, spender>>

-----------------------------------------------------------------------------
Handle(r) ==
    \/ RefuseTool(r) \/ CallTool(r) \/ AskLedgerForTool(r)
    \/ Resolve(r) \/ RunStep(r) \/ DenyStep(r) \/ AskLedgerForStep(r) \/ Finish(r)
    \/ ClaimForStep(r) \/ ClaimForTool(r) \/ ClaimReplayed(r) \/ ClaimLost(r)

Next ==
    \/ \E r \in Requests :
          \/ \E c \in Calls : \/ AdmitUnbound(r, c)
                              \/ \E t \in Tokens : Admit(r, c, t) \/ Reject(r, c, t)
          \/ Handle(r)
          \/ TimeOut(r)
    \/ \E j \in Jtis : ExpireItem(j)
    \/ Tick

Spec == Init /\ [][Next]_vars

-----------------------------------------------------------------------------
(* Properties *)

\* What it takes to hold the token of a physical step.
MaySpend(r) ==
    /\ principal[r] # NoToken
    /\ principal[r].method = "jwt" /\ ~principal[r].delegated
    /\ "destructive" \in principal[r].scopes \/ Door(r) \in ScopeAudit

Opens(s) == \/ s.act \in {"unlock", "open"}
            \/ s.act = "toggle" /\ \E c \in {"unlock", "open"} : c \in Caps[s.dev]

OpenedSomething(r) == \E i \in ran[r] \ {0} : Opens(plan[r][i])

\* A step that opens something reaches an adapter only in a request whose own,
\* first-hand JWT it spent in the ledger -- never in one that authenticated with
\* the static token, came by SMS, or was let through by an audit mode.
\* (access_control.check_step with RequestAuth.require_physical_access)
DoorNeedsStepUp ==
    \A r \in Requests :
        OpenedSomething(r) => MaySpend(r) /\ spender[principal[r].jti] = r

\* One token opens doors for one request only, however the requests interleave,
\* whatever the ledger loses and after it forgets.  (DynamoJtiLedger.claim)
OneStepUpPerToken ==
    \A r, s \in Requests :
        stepped[r] /\ stepped[s] /\ principal[r].jti = principal[s].jti => r = s

OpensInTime ==
    \A r \in Requests :
        OpenedSomething(r)' /\ ran'[r] # ran[r] /\ Opens(NextStep(r))
            => now <= principal[r].iat + StepUpSeconds + LambdaTimeout

\* A token in somebody's log opens nothing once its minute and one Lambda
\* lifetime have gone by.  (StepUpSeconds, template.yaml Timeout)
DoorWindowCloses == [][OpensInTime]_vars

\* Locking and closing need no fresh token: a request that answers has run every
\* safe step of its plan, whatever was refused or lost before it.
\* (access_control docstring: the safe direction must never need a fresh token)
SafeStepsRun ==
    \A r \in Requests :
        pc[r] = "done" =>
            \A i \in DOMAIN plan[r] : ~Opens(plan[r][i]) => i \in ran[r]

\* "POST /execute unlocks exactly when MCP would" (app.py:120): a step refused over
\* REST would have been refused over MCP at that moment.
WouldUnlockOverMcp(r) ==
    /\ principal[r] # NoToken
    /\ Permitted("mcp", principal[r], DESTRUCTIVE) /\ Fresh("mcp", principal[r])
    /\ ClaimFree(r)

RestUnlocksLikeMcp ==
    [][\A r \in Requests :
          Door(r) = "rest" /\ denied'[r] # denied[r] => ~WouldUnlockOverMcp(r)]_vars

\* Spending and opening, seen without clock, ledger and failures.
Promise == INSTANCE SpendOnce
           WITH opened <- {r \in Requests : OpenedSomething(r)}
SpendsOnce == Promise!Spec
=============================================================================
